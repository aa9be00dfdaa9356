----------------------------- MODULE EntityFSM -----------------------------
(***************************************************************************)
(* The state machines of internal/fsm and internal/entity as constant-     *)
(* level operators: a machine is a record of its state and its timer, an   *)
(* event maps a machine to the machine after it.                           *)
(*                                                                         *)
(* In the transition tables of Key.register and RAPI.register every event  *)
(* has ONE destination, whatever the source; a table is therefore the set  *)
(* of sources of each event (the event does nothing in any other state)    *)
(* and the destination of each event.                                      *)
(*                                                                         *)
(* Time is counted down: a timer is the number of time units left until    *)
(* wakeAt.  0 is a wakeAt that has been reached (now is not before it),    *)
(* and NoTimer the zero time, a machine without a timer.                   *)
(***************************************************************************)
EXTENDS Integers

NoTimer == -1

Machine(s, t) == [state |-> s, timer |-> t]

\* NewKey, NewRAPI: a fresh entity is healthy and has no timer.
Fresh == Machine("Healthy", NoTimer)

\* wakeAt.After(now); the zero time is never after now.
Running(m) == m.timer > 0

\* The earliest of a set of recovery times, the zero time when there is none
\* (minNonZero folded over a pool).
Earliest(times) ==
  IF times = {} THEN NoTimer ELSE CHOOSE t \in times : \A u \in times : t <= u

----------------------------------------------------------------------------
(* The credential machine (entity/key.go).                                  *)

KeyStates == {"Healthy", "Cooling", "PlatformFailed",
              "PermanentFailed", "Disabled", "Expired"}

KeyDead == {"PermanentFailed", "Disabled", "Expired"}

KeyEvents == {"SessionFailure", "PlatformFailure", "PermanentFailure", "Disable",
              "Expire", "Enable", "Success", "TimerExpired"}

KeySources ==
  [e \in KeyEvents |->
    CASE e = "SessionFailure"   -> {"Healthy", "Cooling"}
      [] e = "PlatformFailure"  -> {"Healthy", "Cooling", "PlatformFailed"}
      [] e = "PermanentFailure" -> {"Healthy", "Cooling", "PlatformFailed"}
      [] e = "Disable"          -> KeyStates \ {"Disabled"}
      [] e = "Expire"           -> KeyStates \ {"Expired"}
      [] e = "Enable"           -> KeyDead
      [] e = "Success"          -> KeyStates \ {"Disabled", "Expired"}
      [] e = "TimerExpired"     -> {"Cooling", "PlatformFailed"}]

KeyTarget ==
  [e \in KeyEvents |->
    CASE e = "SessionFailure"   -> "Cooling"
      [] e = "PlatformFailure"  -> "PlatformFailed"
      [] e = "PermanentFailure" -> "PermanentFailed"
      [] e = "Disable"          -> "Disabled"
      [] e = "Expire"           -> "Expired"
      [] e \in {"Enable", "Success", "TimerExpired"} -> "Healthy"]

KeyAccepts(m, e) == m.state \in KeySources[e]

\* Fire followed by the effect: every key event either leaves the timer as it
\* is (onPlatformFailure, onEnable, onTimerExpired) or sets it.
KeyFire(m, e, t) == IF KeyAccepts(m, e) THEN Machine(KeyTarget[e], t) ELSE m

\* A mutant: a failure during a cooldown extends it.
KeyOnSessionFailureExtends(m, cooldown) ==
  KeyFire(m, "SessionFailure", cooldown + (IF Running(m) THEN m.timer ELSE 0))

KeyOnSuccess(m) == KeyFire(m, "Success", NoTimer)
KeyOnSessionFailure(m, cooldown) == KeyFire(m, "SessionFailure", cooldown)
KeyOnPlatformFailure(m) == KeyFire(m, "PlatformFailure", m.timer)

\* A mutant: a row fact leaves the timer of the cooldown it ends.
KeyOnRowFactKeepsTimer(m, e) == KeyFire(m, e, m.timer)

\* A row fact clears the timer (onRowFact).
KeyOnRowFact(m, e) == KeyFire(m, e, NoTimer)

\* Machine.Advance: a timer that is due is consumed, whatever the state.
KeyAdvance(m) ==
  IF m.timer # 0 THEN m
  ELSE KeyFire(Machine(m.state, NoTimer), "TimerExpired", NoTimer)

\* A mutant: the alignment does not look at the state.
KeyAlignAnyState(m, at) == Machine("Cooling", at)

\* Key.AlignCooldownTo(at): only a cooling key is moved.
KeyAlign(m, at) == IF m.state = "Cooling" THEN Machine("Cooling", at) ELSE m

\* A mutant: elapsed cooldowns are left to the recovery loop.
KeyTouchedNot(m) == m

\* Key.Pickable: an elapsed cooldown is advanced on the spot ...
KeyTouched(m) ==
  IF m.state \in {"Cooling", "PlatformFailed"} /\ ~Running(m) THEN KeyAdvance(m) ELSE m

\* ... whether the key may serve, and when it might recover if it may not.
KeyServes(m) == KeyTouched(m).state = "Healthy"

KeyRecoverAt(m) ==
  IF m.state \in {"Cooling", "PlatformFailed"} /\ Running(m) THEN m.timer ELSE NoTimer
----------------------------------------------------------------------------
(* The credential row, as far as the machine reads it: enabled,             *)
(* failure_type (0 none, 1 temporary, 2 permanent) and where expires_at     *)
(* stands ("none", "ahead", "past").                                        *)

RowUsable(row) == row.enabled /\ row.ft # 2 /\ row.exp # "past"

\* A mutant: the failure_type of the row is not consulted.
KeySyncIgnoresFailureType(m, row) ==
  CASE ~row.enabled                        -> KeyOnRowFact(m, "Disable")
    [] row.enabled /\ row.exp = "past"     -> KeyOnRowFact(m, "Expire")
    [] row.enabled /\ row.exp # "past"     -> KeyFire(m, "Enable", m.timer)

\* Key.Sync: the first row fact that holds is fired; a usable row revives a
\* machine in a dead state and leaves every other machine alone.
KeySync(m, row) ==
  CASE ~row.enabled                                -> KeyOnRowFact(m, "Disable")
    [] row.enabled /\ row.ft = 2                   -> KeyOnRowFact(m, "PermanentFailure")
    [] row.enabled /\ row.ft # 2 /\ row.exp = "past" -> KeyOnRowFact(m, "Expire")
    [] RowUsable(row)                              -> KeyFire(m, "Enable", m.timer)

----------------------------------------------------------------------------
(* The RAPI machine (entity/rapi.go): a model of a platform, with the count *)
(* of consecutive failures its exponential backoff is computed from.        *)

RapiStates == {"Healthy", "Cooling", "PlatformFailed", "Invalidated"}

RapiEvents == {"SessionFailure", "PlatformFailure", "Invalidate", "Revalidate",
               "AllKeysSoft", "AllKeysHard", "Success", "TimerExpired"}

RapiSources ==
  [e \in RapiEvents |->
    CASE e \in {"SessionFailure", "Invalidate", "AllKeysHard", "Success"}
                              -> RapiStates \ {"Invalidated"}
      [] e \in {"PlatformFailure", "AllKeysSoft"} -> {"Healthy", "Cooling"}
      [] e = "TimerExpired"   -> {"Cooling", "PlatformFailed"}
      [] e = "Revalidate"     -> {"Invalidated"}]

RapiTarget ==
  [e \in RapiEvents |->
    CASE e \in {"SessionFailure", "AllKeysSoft"} -> "Cooling"
      [] e = "PlatformFailure"                   -> "PlatformFailed"
      [] e \in {"Invalidate", "AllKeysHard"}     -> "Invalidated"
      [] e \in {"Revalidate", "Success", "TimerExpired"} -> "Healthy"]

RapiMachine(s, t, n) == [state |-> s, timer |-> t, failures |-> n]

RapiFresh == RapiMachine("Healthy", NoTimer, 0)

RapiAccepts(r, e) == r.state \in RapiSources[e]

\* Fire, then the effect: the timer and the failure count it leaves behind.
RapiFire(r, e, t, n) == IF RapiAccepts(r, e) THEN RapiMachine(RapiTarget[e], t, n) ELSE r

\* A mutant: a success is accepted in every state.
RapiOnSuccessAlways(r) == RapiMachine("Healthy", NoTimer, 0)

RapiOnSuccess(r) == RapiFire(r, "Success", NoTimer, 0)
RapiOnInvalidate(r) == RapiFire(r, "Invalidate", NoTimer, r.failures)
RapiOnRevalidate(r) == RapiFire(r, "Revalidate", NoTimer, r.failures)

\* onAllKeysHard touches no timer.
RapiOnAllKeysHard(r) == RapiFire(r, "AllKeysHard", r.timer, r.failures)

RapiAdvance(r) ==
  IF r.timer # 0 THEN r
  ELSE RapiFire([r EXCEPT !.timer = NoTimer], "TimerExpired", NoTimer, r.failures)

RapiAlign(r, at) == IF r.state = "Cooling" THEN [r EXCEPT !.timer = at] ELSE r

RapiTouched(r) ==
  IF r.state \in {"Cooling", "PlatformFailed"} /\ ~Running(r) THEN RapiAdvance(r) ELSE r

RapiServes(r) == RapiTouched(r).state = "Healthy"

RapiRecoverAt(r) ==
  IF r.state \in {"Cooling", "PlatformFailed"} /\ Running(r) THEN r.timer ELSE NoTimer
=============================================================================
