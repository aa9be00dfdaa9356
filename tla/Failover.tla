------------------------------ MODULE Failover ------------------------------
(***************************************************************************)
(* How a request walks the chain of RAPIs of its model: PickAvailable and  *)
(* tryKeyForRAPI of the gateway over the RAPI and Key machines of the      *)
(* scheduler, the rows both are persisted in, and the operators and probes *)
(* that change a row first and tell the scheduler in a second step, or not *)
(* at all.                                                                 *)
(*                                                                         *)
(* Data is abstracted: the cost order of PickAvailable changes with        *)
(* counters and clock, so any RAPI that serves may come first; of a        *)
(* credential row only its usability is kept (KeyHealth has the rest), of  *)
(* Wait only that it ends at `until` or with an error (WaitQueue).  Which  *)
(* keys are blocked for a model is CapabilityBlocks' subject: others block *)
(* and unblock them at any time, so every look finds any of them blocked.  *)
(* Every method of scheduler.Manager is one step; the gateway's code       *)
(* between two of them is not.                                             *)
(***************************************************************************)
EXTENDS EntityFSM, FiniteSets

CONSTANTS
  Rapis, Keys, Reqs,
  PoolOf,           \* the keys of each RAPI (its key_ids, or its platform's)
  Manual,           \* RAPIs with source=manual
  None,
  DefaultCooldown, MaxCooldown,
  MaxRetryAfter,    \* the longest Retry-After an upstream sends
  FailureCap,       \* failures are counted up to here; see BackoffSaturates
  OperatorMoves,    \* what operators, probes and sync do
  MaxPending        \* second steps that may be outstanding at once

ASSUME PoolAssumption ==
  /\ PoolOf \in [Rapis -> (SUBSET Keys) \ {{}}]
  /\ Manual \subseteq Rapis
  /\ None \notin Rapis \cup Keys

ASSUME CooldownAssumption ==
  /\ DefaultCooldown \in Nat \ {0}
  /\ MaxCooldown \in Nat /\ DefaultCooldown <= MaxCooldown
  /\ MaxRetryAfter \in Nat

\* The factor of the backoff after n failures: 1 << min(n - 1, 6).
Factor == <<1, 2, 4, 8, 16, 32, 64>>

\* Counting failures beyond the cap would not change a cooldown.
ASSUME BackoffSaturates ==
  /\ FailureCap \in 1..7
  /\ FailureCap < 7 => DefaultCooldown * Factor[FailureCap] >= MaxCooldown

ASSUME MovesAssumption ==
  /\ OperatorMoves \subseteq
       {"toggle", "save", "restore", "delete", "judge", "fixkey", "bundle"}
  /\ MaxPending \in Nat

VARIABLES
  rapi,     \* machine of each RAPI
  rrow,     \* row of each RAPI: enabled, available
  key,      \* machine of each key
  krow,     \* whether the row of each key is usable
  req,      \* the requests
  pending,  \* second steps to come of operations already visible in rrow
  parted    \* history: RAPIs whose row was made to serve, or whose machine was
            \* frozen, by an operation that leaves it at that

vars == <<rapi, rrow, key, krow, req, pending, parted>>

KeyCooldowns == {DefaultCooldown} \cup 1..MaxRetryAfter

Longest == IF MaxCooldown >= MaxRetryAfter THEN MaxCooldown ELSE MaxRetryAfter

Timers == {NoTimer} \cup 0..Longest

RapiMachines == [state : RapiStates, timer : Timers, failures : 0..FailureCap]

KeyMachines == [state : KeyStates, timer : Timers]

RapiRows == [enabled : BOOLEAN, available : BOOLEAN]

Serving(w) == w.enabled /\ w.available

Idle == [pc |-> "idle", snap |-> {}, usable |-> {}, at |-> None, key |-> None,
         pool |-> {}, until |-> NoTimer]

Requests ==
  [pc     : {"idle", "pick", "picked", "keys", "sent", "answered", "align",
             "judgeTwice", "judge", "waiting", "refused"},
   snap   : SUBSET Rapis,
   usable : SUBSET Keys,
   at     : Rapis \cup {None},
   key    : Keys \cup {None},
   pool   : SUBSET Keys,      \* what tryKeyForRAPI has left of the RAPI's keys
   until  : Timers]

TypeOK ==
  /\ rapi \in [Rapis -> RapiMachines]
  /\ rrow \in [Rapis -> RapiRows]
  /\ key \in [Keys -> KeyMachines]
  /\ krow \in [Keys -> BOOLEAN]
  /\ req \in [Reqs -> Requests]
  /\ pending \subseteq {"invalidate", "revalidate"} \X Rapis
  /\ parted \subseteq Rapis

Init ==
  /\ rapi = [m \in Rapis |-> RapiFresh]
  /\ rrow = [m \in Rapis |-> [enabled |-> TRUE, available |-> TRUE]]
  /\ key = [k \in Keys |-> Fresh]
  /\ krow = [k \in Keys |-> TRUE]
  /\ req = [r \in Reqs |-> Idle]
  /\ pending = {}
  /\ parted = {}

----------------------------------------------------------------------------
(* The RAPI machine's cooldown after a session failure.                     *)

\* A mutant: MaxCooldown bounds the first step only.
BackoffUnclamped(n) == DefaultCooldown * Factor[n]

\* onSessionFailure, with n consecutive failures, this one included.
Backoff(n) ==
  LET c == DefaultCooldown * Factor[n]
  IN  IF c > MaxCooldown THEN MaxCooldown ELSE c

OneMore(n) == IF n < FailureCap THEN n + 1 ELSE n

RapiOnSessionFailure(r) ==
  RapiFire(r, "SessionFailure", Backoff(OneMore(r.failures)), OneMore(r.failures))

\* A mutant: the timer is left to the alignment that may follow.
RapiOnAllKeysSoftNoTimer(r) ==
  RapiFire(r, "AllKeysSoft", r.timer, OneMore(r.failures))

RapiOnAllKeysSoft(r) ==
  RapiFire(r, "AllKeysSoft", Backoff(OneMore(r.failures)), OneMore(r.failures))

----------------------------------------------------------------------------
(* The request.                                                             *)

At(r) == req[r].at

Goto(r, place) == req' = [req EXCEPT ![r].pc = place]

\* GetEnabledRAPIsForLAPI and loadKeysForRAPIs: what the request will know.
Load(r) ==
  /\ req[r].pc = "idle"
  /\ \E m \in Rapis : Serving(rrow[m])
  /\ req' = [req EXCEPT ![r] = [Idle EXCEPT !.pc = "pick",
                                            !.snap = {m \in Rapis : Serving(rrow[m])},
                                            !.usable = {k \in Keys : krow[k]}]]
  /\ UNCHANGED <<rapi, rrow, key, krow, pending, parted>>

\* PickAvailable finds a RAPI.
PickRapi(r) ==
  /\ req[r].pc = "pick"
  /\ \E m \in req[r].snap :
       /\ RapiServes(rapi[m])
       /\ rapi' = [rapi EXCEPT ![m] = RapiTouched(@)]
       /\ req' = [req EXCEPT ![r].pc = "picked", ![r].at = m,
                              ![r].pool = PoolOf[m]]
  /\ UNCHANGED <<rrow, key, krow, pending, parted>>

\* PickAvailable finds none, having advanced whatever was due, and returns the
\* earliest recovery among the snapshot: the request waits for it, or is
\* refused if there is none ("all RAPIs are disabled or unavailable").
PickRapiNone(r) ==
  /\ req[r].pc = "pick"
  /\ \A m \in req[r].snap : ~RapiServes(rapi[m])
  /\ LET next == Earliest({RapiRecoverAt(rapi[m]) : m \in req[r].snap} \ {NoTimer})
     IN  req' = [req EXCEPT ![r].pc = IF next = NoTimer THEN "refused" ELSE "waiting",
                            ![r].until = next, ![r].at = None]
  /\ rapi' = [m \in Rapis |-> IF m \in req[r].snap THEN RapiTouched(rapi[m]) ELSE rapi[m]]
  /\ UNCHANGED <<rrow, key, krow, pending, parted>>

\* Wait returns nil at `until`, and the request picks again, ...
Waited(r) ==
  /\ req[r].pc = "waiting" /\ req[r].until = 0
  /\ req' = [req EXCEPT ![r].pc = "pick", ![r].until = NoTimer]
  /\ UNCHANGED <<rapi, rrow, key, krow, pending, parted>>

\* ... or an error, and the request fails, as it does when it is refused; the
\* client of an answered request may be gone, which no machine hears of.
GiveUp(r) ==
  /\ req[r].pc \in {"waiting", "refused", "answered"}
  /\ req' = [req EXCEPT ![r] = Idle]
  /\ UNCHANGED <<rapi, rrow, key, krow, pending, parted>>

\* No URL for the format, or the conversion fails: MarkFailure.
Unusable(r) ==
  /\ req[r].pc = "picked"
  /\ rapi' = [rapi EXCEPT ![At(r)] = RapiOnSessionFailure(@)]
  /\ req' = [req EXCEPT ![r].pc = "pick", ![r].pool = {}]
  /\ UNCHANGED <<rrow, key, krow, pending, parted>>

(* tryKeyForRAPI.                                                           *)

RowOf(usable) ==
  [enabled |-> TRUE, ft |-> IF usable THEN 0 ELSE 2, exp |-> "none"]

Synced(r, k) == KeySync(key[k], RowOf(k \in req[r].usable))

\* A key of those that filterBlockedKeys leaves.
PickKey(r) ==
  /\ req[r].pc \in {"picked", "keys"}
  /\ \E left \in SUBSET req[r].pool : \E k \in left :
       /\ KeyServes(Synced(r, k))
       /\ \E skipped \in SUBSET {j \in left : ~KeyServes(Synced(r, j))} :
            key' = [j \in Keys |->
                      IF j \in skipped \cup {k} THEN KeyTouched(Synced(r, j)) ELSE key[j]]
       /\ req' = [req EXCEPT ![r].pc = "sent", ![r].key = k, ![r].pool = left]
  /\ UNCHANGED <<rapi, rrow, krow, pending, parted>>

\* None of them serves: with a recovery time the pool is aligned to it next;
\* without one, markPoolExhausted calls handleAllKeysUnavailable and so does its
\* caller.
PickKeyNone(r) ==
  /\ req[r].pc \in {"picked", "keys"}
  /\ \E left \in SUBSET req[r].pool :
       /\ left # {}
       /\ \A k \in left : ~KeyServes(Synced(r, k))
       /\ key' = [k \in Keys |-> IF k \in left THEN KeyTouched(Synced(r, k)) ELSE key[k]]
       /\ LET next == Earliest({KeyRecoverAt(Synced(r, k)) : k \in left} \ {NoTimer})
          IN  req' = [req EXCEPT ![r].pc = IF next = NoTimer THEN "judgeTwice" ELSE "align",
                                 ![r].pool = left, ![r].until = next]
  /\ UNCHANGED <<rapi, rrow, krow, pending, parted>>

\* All of them are blocked for this model.
AllBlocked(r) ==
  /\ req[r].pc \in {"picked", "keys"}
  /\ req' = [req EXCEPT ![r].pc = "judge", ![r].pool = {}]
  /\ UNCHANGED <<rapi, rrow, key, krow, pending, parted>>

\* MarkPoolExhausted: the cooling keys of what is left of the pool and the RAPI
\* itself recover at the earliest recovery among them.
AlignPool(r) ==
  /\ req[r].pc = "align"
  /\ key' = [k \in Keys |->
               IF k \in req[r].pool THEN KeyAlign(key[k], req[r].until) ELSE key[k]]
  /\ rapi' = [rapi EXCEPT ![At(r)] = RapiAlign(RapiOnAllKeysSoft(@), req[r].until)]
  /\ Goto(r, "judge")
  /\ UNCHANGED <<rrow, krow, pending, parted>>

\* A mutant: the machine is frozen and the row is left alone.
PersistDeadNot(m) == UNCHANGED <<rrow, parted>>

\* onAllKeysHard persists what it freezes; a write that fails is ignored.
PersistDead(m) ==
  IF RapiAccepts(rapi[m], "AllKeysHard")
  THEN \/ /\ rrow' = [rrow EXCEPT ![m].available = FALSE]
          /\ parted' = parted \ {m}
       \/ /\ parted' = parted \cup {m}
          /\ UNCHANGED rrow
  ELSE UNCHANGED <<rrow, parted>>

\* KeysHardDead on the rows the request has loaded, of the keys that are not
\* blocked by now; a manual model is never taken for dead.
HardDead(r, left) == left \cap req[r].usable = {} /\ At(r) \notin Manual

\* handleAllKeysUnavailable.
JudgePool(r) ==
  /\ req[r].pc \in {"judgeTwice", "judge"}
  /\ \E left \in SUBSET PoolOf[At(r)] :
       \/ /\ HardDead(r, left)
          /\ rapi' = [rapi EXCEPT ![At(r)] = RapiOnAllKeysHard(@)]
          /\ PersistDead(At(r))
       \/ /\ ~HardDead(r, left)
          /\ rapi' = [rapi EXCEPT ![At(r)] = RapiOnAllKeysSoft(@)]
          /\ UNCHANGED <<rrow, parted>>
  /\ req' = [req EXCEPT ![r].pc = IF @ = "judge" THEN "pick" ELSE "judge",
                        ![r].pool = {}, ![r].until = NoTimer]
  /\ UNCHANGED <<key, krow, pending>>

(* The answers of the upstream.                                             *)

\* MarkKeySuccess; a persisted failure is cleared.  Here and below, a write of
\* the row that fails is ignored.
KeySuccess(r) ==
  LET k == req[r].key
  IN  /\ req[r].pc = "sent"
      /\ key' = [key EXCEPT ![k] = KeyOnSuccess(@)]
      /\ \/ UNCHANGED krow
         \/ krow' = [krow EXCEPT ![k] = @ \/ KeyAccepts(key[k], "Success")]
      /\ req' = [req EXCEPT ![r].pc = "answered", ![r].key = None, ![r].pool = {}]
      /\ UNCHANGED <<rapi, rrow, pending, parted>>

\* MarkKeyFailure, MarkKeyTemporaryFailure: network errors, 429, 5xx.  The
\* failure_type 1 a temporary failure writes makes an unusable row usable.
KeyCools(r) ==
  LET k == req[r].key
  IN  /\ req[r].pc = "sent"
      /\ \E c \in KeyCooldowns : key' = [key EXCEPT ![k] = KeyOnSessionFailure(@, c)]
      /\ \/ UNCHANGED krow
         \/ krow' = [krow EXCEPT ![k] = @ \/ KeyAccepts(key[k], "SessionFailure")]
      /\ req' = [req EXCEPT ![r].pc = "keys", ![r].key = None]
      /\ UNCHANGED <<rapi, rrow, pending, parted>>

\* MarkKeyPlatformFailure: 401, 403, ...
KeyDies(r) ==
  LET k == req[r].key
  IN  /\ req[r].pc = "sent"
      /\ key' = [key EXCEPT ![k] = KeyOnPlatformFailure(@)]
      /\ \/ UNCHANGED krow
         \/ krow' = [krow EXCEPT ![k] = @ /\ ~KeyAccepts(key[k], "PlatformFailure")]
      /\ req' = [req EXCEPT ![r].pc = "keys", ![r].key = None]
      /\ UNCHANGED <<rapi, rrow, pending, parted>>

\* blockKeyForModel: the upstream does not know this model for this key.  No
\* machine hears of it.
KeyBlocked(r) ==
  /\ req[r].pc = "sent"
  /\ req' = [req EXCEPT ![r].pc = "keys", ![r].key = None]
  /\ UNCHANGED <<rapi, rrow, key, krow, pending, parted>>

\* MarkSuccess, once the response has been passed on.
Completed(r) ==
  /\ req[r].pc = "answered"
  /\ rapi' = [rapi EXCEPT ![At(r)] = RapiOnSuccess(@)]
  /\ req' = [req EXCEPT ![r] = Idle]
  /\ UNCHANGED <<rrow, key, krow, pending, parted>>

\* A stream that ended before its first frame: MarkFailure.
EmptyStream(r) ==
  /\ req[r].pc = "answered"
  /\ rapi' = [rapi EXCEPT ![At(r)] = RapiOnSessionFailure(@)]
  /\ Goto(r, "pick")
  /\ UNCHANGED <<rrow, key, krow, pending, parted>>

----------------------------------------------------------------------------
(* The recovery loop and time.                                              *)

RecoveryLoop ==
  /\ rapi' = [m \in Rapis |-> RapiAdvance(rapi[m])]
  /\ key' = [k \in Keys |-> KeyAdvance(key[k])]
  /\ UNCHANGED <<rrow, krow, req, pending, parted>>

CountDown(t) == IF t > 0 THEN t - 1 ELSE t

Tick ==
  /\ rapi' = [m \in Rapis |-> [rapi[m] EXCEPT !.timer = CountDown(@)]]
  /\ key' = [k \in Keys |-> [key[k] EXCEPT !.timer = CountDown(@)]]
  /\ req' = [r \in Reqs |-> [req[r] EXCEPT !.until = CountDown(@)]]
  /\ UNCHANGED <<rrow, krow, pending, parted>>

----------------------------------------------------------------------------
(* Operators, probes and sync.                                              *)

Owe(op, m) ==
  /\ Cardinality(pending) < MaxPending
  /\ <<op, m>> \notin pending
  /\ pending' = pending \cup {<<op, m>>}

\* An operation that ends with its rows: no machine is told of those it has
\* made to serve.
TellsNobody ==
  /\ parted' = {m \in Rapis : Serving(rrow'[m]) /\ (m \in parted \/ ~Serving(rrow[m]))}
  /\ UNCHANGED <<rapi, pending>>

\* /api/rapis/toggle, platform toggle: SetRAPIEnabled.
Toggle(m) ==
  /\ "toggle" \in OperatorMoves
  /\ \E b \in BOOLEAN : /\ rrow' = [rrow EXCEPT ![m].enabled = b]
                        /\ Owe(IF b THEN "revalidate" ELSE "invalidate", m)
                        /\ parted' = IF b THEN parted ELSE parted \ {m}
  /\ UNCHANGED <<rapi, key, krow, req>>

\* PUT /api/rapis: the form overwrites both columns with what the operator saw
\* or chose, and the scheduler is not told.  (For a RAPI that was enabled and
\* unavailable a probe is started, which is Restore.)
SaveModel(m) ==
  /\ "save" \in OperatorMoves
  /\ \E w \in RapiRows : rrow' = [rrow EXCEPT ![m] = w]
  /\ TellsNobody
  /\ UNCHANGED <<key, krow, req>>

\* SetRAPIUnavailableWithReason(id, true): a good probe (recoverRAPIs,
\* /api/rapis/restore, the platform's restore), whether the RAPI is enabled
\* or not, or the catalog finding the model again.  recoverRAPIs goes on when
\* the write fails; /api/rapis/restore ends after it when the write of the
\* formats fails.
Restore(m) ==
  /\ "restore" \in OperatorMoves
  /\ \/ /\ rrow' = [rrow EXCEPT ![m].available = TRUE]
        /\ \/ Owe("revalidate", m) /\ UNCHANGED <<rapi, parted>>
           \/ TellsNobody
     \/ /\ Owe("revalidate", m)
        /\ UNCHANGED <<rapi, rrow, parted>>
  /\ UNCHANGED <<key, krow, req>>

\* DELETE /api/platforms with force freezes the machines of the platform's RAPIs
\* and then fails to delete their rows.
DeleteFails(m) ==
  /\ "delete" \in OperatorMoves
  /\ rapi' = [rapi EXCEPT ![m] = RapiOnInvalidate(@)]
  /\ parted' = IF Serving(rrow[m]) THEN parted \cup {m} ELSE parted
  /\ UNCHANGED <<rrow, key, krow, req, pending>>

\* applyJudgment: the catalog no longer lists the model.  The machine is told
\* only if the row was available; otherwise nothing changes.
CatalogInvalidates(m) ==
  /\ "judge" \in OperatorMoves
  /\ m \notin Manual /\ rrow[m].available
  /\ rrow' = [rrow EXCEPT ![m].available = FALSE]
  /\ Owe("invalidate", m)
  /\ parted' = parted \ {m}
  /\ UNCHANGED <<rapi, key, krow, req>>

InvalidateRAPI(m) ==
  /\ <<"invalidate", m>> \in pending
  /\ rapi' = [rapi EXCEPT ![m] = RapiOnInvalidate(@)]
  /\ pending' = pending \ {<<"invalidate", m>>}
  /\ UNCHANGED <<rrow, key, krow, req, parted>>

RevalidateRAPI(m) ==
  /\ <<"revalidate", m>> \in pending
  /\ rapi' = [rapi EXCEPT ![m] = RapiOnRevalidate(@)]
  /\ pending' = pending \ {<<"revalidate", m>>}
  /\ parted' = parted \ {m}
  /\ UNCHANGED <<rrow, key, krow, req>>

\* clearKeyFailureState: the row and the machine of the key, whose two steps
\* KeyHealth takes apart.  (What it does to the RAPIs is Restore.)
FixKey(k) ==
  /\ "fixkey" \in OperatorMoves
  /\ krow' = [krow EXCEPT ![k] = TRUE]
  /\ key' = [key EXCEPT ![k] = KeyOnSuccess(@)]
  /\ UNCHANGED <<rapi, rrow, req, pending, parted>>

\* ApplyBundle: every row is available again (its other columns are replaced
\* too, which is not modelled), and no machine is told.  Its comment asks the
\* caller to rebuild the scheduler's snapshot, which none does.
ApplyBundle ==
  /\ "bundle" \in OperatorMoves
  /\ rrow' = [m \in Rapis |-> [rrow[m] EXCEPT !.available = TRUE]]
  /\ krow' = [k \in Keys |-> TRUE]
  /\ TellsNobody
  /\ UNCHANGED <<key, req>>

----------------------------------------------------------------------------
Next ==
  \/ \E r \in Reqs : \/ Load(r)
                     \/ PickRapi(r)
                     \/ PickRapiNone(r)
                     \/ Waited(r)
                     \/ GiveUp(r)
                     \/ Unusable(r)
                     \/ PickKey(r)
                     \/ PickKeyNone(r)
                     \/ AllBlocked(r)
                     \/ AlignPool(r)
                     \/ JudgePool(r)
                     \/ KeySuccess(r)
                     \/ KeyCools(r)
                     \/ KeyDies(r)
                     \/ KeyBlocked(r)
                     \/ Completed(r)
                     \/ EmptyStream(r)
  \/ RecoveryLoop
  \/ Tick
  \/ \E m \in Rapis : \/ Toggle(m)
                      \/ SaveModel(m)
                      \/ Restore(m)
                      \/ DeleteFails(m)
                      \/ CatalogInvalidates(m)
                      \/ InvalidateRAPI(m)
                      \/ RevalidateRAPI(m)
  \/ \E k \in Keys : FixKey(k)
  \/ ApplyBundle

Spec == Init /\ [][Next]_vars

----------------------------------------------------------------------------
(* Properties.                                                              *)

\* A request is refused outright ("all RAPIs are disabled or unavailable")
\* only when every RAPI it knows is Invalidated: "not just cooling down", as
\* the gateway says.  As long as one of them has a cooldown to sit out,
\* whatever events set, cut or replaced it, the request waits instead.
HonestRefusal ==
  [][\A r \in Reqs :
       req[r].pc = "pick" /\ req'[r].pc = "refused" =>
         \A m \in req[r].snap : rapi[m].state = "Invalidated"]_vars

\* A RAPI whose row says that it serves is frozen in memory only while an
\* operator's second step is outstanding, or after one of the operations that
\* leave row and machine apart (`parted`): the saved form, the bundle, the
\* restore that ends half way, the platform that was not deleted after all, and
\* a dead pool whose row could not be written.  Whatever requests, probes and
\* the catalog do meanwhile adds no such RAPI: nothing would bring it back, for
\* probes are sent to unavailable rows.  Holds while operators take turns
\* (MaxPending = 1).
InvalidatedHasCause ==
  \A m \in Rapis :
    rapi[m].state = "Invalidated" /\ Serving(rrow[m])
      => \/ m \in parted
         \/ \E op \in {"invalidate", "revalidate"} : <<op, m>> \in pending

\* Late answers do not bring a frozen RAPI back: only RevalidateRAPI does, for
\* an operation that has made the row enabled or available before, or a good
\* probe that tried to.  (MarkSuccess: "Does NOT clear the Invalidated state".)
RevivedByOperator ==
  [][\A m \in Rapis :
       rapi[m].state = "Invalidated" /\ rapi'[m].state # "Invalidated"
         => <<"revalidate", m>> \in pending]_vars

\* "re-checks rapi.Enabled and rapi.Available on every call so that admin
\* changes made mid-request (disable, platform failure write) take effect
\* without waiting for the next DB query" (scheduler.go, PickAvailable).
\* Expected to fail: the flags re-checked are those of the request's own
\* snapshot, and a good probe of a disabled RAPI revalidates its machine.
DisabledNeverPicked ==
  [][\A r \in Reqs :
       req[r].pc = "pick" /\ req'[r].pc = "picked" =>
         LET m == req'[r].at
         IN  rrow[m].enabled \/ <<"invalidate", m>> \in pending]_vars

\* The RAPI's cooldown "is overwritten by the pool-standard moment", so that
\* PickAvailable skips it until the pool has recovered (scheduler.go,
\* MarkPoolExhausted).  Expected to fail: the caller of tryKeyForRAPI then
\* calls handleAllKeysUnavailable, whose soft event sets the short cooldown.
PoolCooldownKept ==
  [][\A r \in Reqs :
       /\ req[r].pc = "judge" /\ req'[r].pc = "pick"
       /\ rapi[At(r)].state = "Cooling" /\ rapi'[At(r)].state = "Cooling"
       => rapi'[At(r)].timer >= rapi[At(r)].timer]_vars
=============================================================================
