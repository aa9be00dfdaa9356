---------------------------- MODULE FailoverProofs ----------------------------
(***************************************************************************)
(* Theorems about Failover, for any RAPIs, keys and requests, any pools,   *)
(* cooldowns and moves of the operators.                                   *)
(*                                                                         *)
(* The inductive invariant Inv types every variable, with two facts more:  *)
(* a machine that cools has a timer, so that there is a moment to wait     *)
(* for, and a request has chosen what its place works on.                  *)
(***************************************************************************)
EXTENDS Failover, NaturalFacts, FiniteSetTheorems

\* Nothing fires PlatformFailure at a RAPI.
SoundRapis ==
  {m \in RapiMachines : /\ m.state # "PlatformFailed"
                        /\ m.state = "Cooling" => m.timer # NoTimer}

SoundRequests ==
  {q \in Requests :
     /\ q.pc \in {"picked", "keys", "sent", "answered", "align", "judgeTwice", "judge"}
          => q.at \in Rapis
     /\ q.pc = "sent" => q.key \in Keys
     /\ q.pc = "align" => q.until # NoTimer}

Inv ==
  /\ rapi \in [Rapis -> SoundRapis]
  /\ rrow \in [Rapis -> RapiRows]
  /\ key \in [Keys -> KeyMachines]
  /\ krow \in [Keys -> BOOLEAN]
  /\ req \in [Reqs -> SoundRequests]
  /\ pending \subseteq {"invalidate", "revalidate"} \X Rapis
  /\ parted \subseteq Rapis

----------------------------------------------------------------------------
(* Timers.                                                                  *)

\* The longest timer.
LEMMA LongestIs == Longest \in Nat /\ MaxCooldown <= Longest /\ MaxRetryAfter <= Longest
BY CooldownAssumption DEF Longest

\* No timer, and an elapsed one, are timers; timers are integers.
LEMMA SpecialTimers == NoTimer \in Timers /\ 0 \in Timers /\ Timers \subseteq Int
BY LongestIs DEF Timers, NoTimer

\* What a key is cooled for is a timer.
LEMMA KeyCooldownsAreTimers == KeyCooldowns \subseteq Timers
BY LongestIs, CooldownAssumption DEF KeyCooldowns, Timers

\* The clock keeps timers timers.
LEMMA CountDownTimers ==
  ASSUME NEW t \in Timers
  PROVE  CountDown(t) \in Timers /\ (CountDown(t) = NoTimer <=> t = NoTimer)
BY LongestIs DEF CountDown, Timers, NoTimer

\* The earliest of a set of times is one of them, or there is none.
LEMMA EarliestIsOne ==
  ASSUME NEW S, S \subseteq Nat
  PROVE  /\ Earliest(S) \in S \cup {NoTimer}
         /\ S # {} => Earliest(S) \in S
<1>1. CASE S = {}
  BY <1>1 DEF Earliest
<1>2. CASE S # {}
  BY <1>2, LeastNatural DEF Earliest
<1> QED
  BY <1>1, <1>2

\* Failures are counted from one to the cap.
LEMMA OneMoreIs ==
  ASSUME NEW n \in 0..FailureCap
  PROVE  OneMore(n) \in 1..FailureCap /\ OneMore(n) \in 0..FailureCap
BY BackoffSaturates DEF OneMore

\* However many failures there were, the backoff is a timer.
LEMMA BackoffIsTimer ==
  ASSUME NEW n \in 1..FailureCap
  PROVE  Backoff(n) \in Timers /\ Backoff(n) # NoTimer
<1>1. n \in {1, 2, 3, 4, 5, 6, 7}
  BY BackoffSaturates
<1>2. Factor[n] \in {1, 2, 4, 8, 16, 32, 64}
  BY <1>1 DEF Factor
<1>3. DefaultCooldown * Factor[n] \in Nat
  BY <1>2, CooldownAssumption
<1> QED
  BY <1>3, LongestIs, CooldownAssumption DEF Backoff, Timers, NoTimer

----------------------------------------------------------------------------
(* The transition tables.                                                   *)

\* The table of a credential.
LEMMA Table ==
  /\ KeySources["SessionFailure"] = {"Healthy", "Cooling"}
  /\ KeySources["PlatformFailure"] = {"Healthy", "Cooling", "PlatformFailed"}
  /\ KeySources["PermanentFailure"] = {"Healthy", "Cooling", "PlatformFailed"}
  /\ KeySources["Disable"] = KeyStates \ {"Disabled"}
  /\ KeySources["Expire"] = KeyStates \ {"Expired"}
  /\ KeySources["Enable"] = KeyDead
  /\ KeySources["Success"] = KeyStates \ {"Disabled", "Expired"}
  /\ KeySources["TimerExpired"] = {"Cooling", "PlatformFailed"}
  /\ KeyTarget["SessionFailure"] = "Cooling"
  /\ KeyTarget["PlatformFailure"] = "PlatformFailed"
  /\ KeyTarget["PermanentFailure"] = "PermanentFailed"
  /\ KeyTarget["Disable"] = "Disabled"
  /\ KeyTarget["Expire"] = "Expired"
  /\ KeyTarget["Enable"] = "Healthy"
  /\ KeyTarget["Success"] = "Healthy"
  /\ KeyTarget["TimerExpired"] = "Healthy"
BY DEF KeySources, KeyTarget, KeyEvents

\* The table of a RAPI.
LEMMA RapiTable ==
  /\ RapiSources["SessionFailure"] = {"Healthy", "Cooling", "PlatformFailed"}
  /\ RapiSources["Invalidate"] = {"Healthy", "Cooling", "PlatformFailed"}
  /\ RapiSources["AllKeysHard"] = {"Healthy", "Cooling", "PlatformFailed"}
  /\ RapiSources["Success"] = {"Healthy", "Cooling", "PlatformFailed"}
  /\ RapiSources["AllKeysSoft"] = {"Healthy", "Cooling"}
  /\ RapiSources["TimerExpired"] = {"Cooling", "PlatformFailed"}
  /\ RapiSources["Revalidate"] = {"Invalidated"}
  /\ RapiTarget["SessionFailure"] = "Cooling"
  /\ RapiTarget["AllKeysSoft"] = "Cooling"
  /\ RapiTarget["Invalidate"] = "Invalidated"
  /\ RapiTarget["AllKeysHard"] = "Invalidated"
  /\ RapiTarget["Revalidate"] = "Healthy"
  /\ RapiTarget["Success"] = "Healthy"
  /\ RapiTarget["TimerExpired"] = "Healthy"
BY DEF RapiSources, RapiTarget, RapiEvents, RapiStates

----------------------------------------------------------------------------
(* RAPIs.                                                                   *)

\* A fresh RAPI is sound.
LEMMA FreshSound == RapiFresh \in SoundRapis
BY SpecialTimers, BackoffSaturates
DEF RapiFresh, RapiMachine, SoundRapis, RapiMachines, RapiStates

\* An event that cools leaves a timer, and so a sound RAPI.
LEMMA CoolingSound ==
  ASSUME NEW m \in SoundRapis
  PROVE  RapiOnSessionFailure(m) \in SoundRapis /\ RapiOnAllKeysSoft(m) \in SoundRapis
<1>1. m.failures \in 0..FailureCap
  BY DEF SoundRapis, RapiMachines
<1> DEFINE n == OneMore(m.failures)
           t == Backoff(n)
<1>2. n \in 0..FailureCap /\ t \in Timers /\ t # NoTimer
  BY <1>1, OneMoreIs, BackoffIsTimer
<1> HIDE DEF n, t
<1>3. \A e \in {"SessionFailure", "AllKeysSoft"} : RapiFire(m, e, t, n) \in SoundRapis
  BY <1>2, RapiTable
  DEF RapiFire, RapiAccepts, RapiMachine, SoundRapis, RapiMachines, RapiStates
<1> QED
  BY <1>3 DEF RapiOnSessionFailure, RapiOnAllKeysSoft, n, t

\* An event that heals or freezes keeps a RAPI sound.
LEMMA EventSound ==
  ASSUME NEW m \in SoundRapis
  PROVE  /\ RapiOnSuccess(m) \in SoundRapis
         /\ RapiOnInvalidate(m) \in SoundRapis
         /\ RapiOnRevalidate(m) \in SoundRapis
         /\ RapiOnAllKeysHard(m) \in SoundRapis
<1>1. 0 \in 0..FailureCap
  BY BackoffSaturates
<1> QED
  BY <1>1, RapiTable, SpecialTimers
  DEF RapiOnSuccess, RapiOnInvalidate, RapiOnRevalidate, RapiOnAllKeysHard, RapiFire,
      RapiAccepts, RapiMachine, SoundRapis, RapiMachines, RapiStates

\* The passing of time keeps a RAPI sound.
LEMMA AdvanceSound ==
  ASSUME NEW m \in SoundRapis
  PROVE  /\ RapiAdvance(m) \in SoundRapis
         /\ RapiTouched(m) \in SoundRapis
         /\ [m EXCEPT !.timer = CountDown(@)] \in SoundRapis
<1>1. RapiAdvance(m) \in SoundRapis
  BY RapiTable, SpecialTimers
  DEF RapiAdvance, RapiFire, RapiAccepts, RapiMachine, SoundRapis, RapiMachines, RapiStates
<1>2. RapiTouched(m) \in SoundRapis
  BY <1>1 DEF RapiTouched
<1>3. [m EXCEPT !.timer = CountDown(m.timer)] \in SoundRapis
  BY CountDownTimers DEF SoundRapis, RapiMachines
<1> QED
  BY <1>1, <1>2, <1>3

\* The alignment to a pool keeps a RAPI sound.
LEMMA AlignSound ==
  ASSUME NEW m \in SoundRapis, NEW t \in Timers, t # NoTimer
  PROVE  RapiAlign(m, t) \in SoundRapis
BY DEF RapiAlign, SoundRapis, RapiMachines

\* A frozen RAPI is frozen for every event but Revalidate.
LEMMA StaysFrozen ==
  ASSUME NEW m \in SoundRapis, m.state = "Invalidated"
  PROVE  /\ RapiOnSessionFailure(m) = m /\ RapiOnAllKeysSoft(m) = m
         /\ RapiOnSuccess(m) = m /\ RapiOnAllKeysHard(m) = m /\ RapiTouched(m) = m
         /\ RapiOnInvalidate(m) = m
         /\ RapiAdvance(m).state = "Invalidated"
         /\ \A t : RapiAlign(m, t) = m
         /\ [m EXCEPT !.timer = CountDown(@)].state = "Invalidated"
<1>1. [m EXCEPT !.timer = CountDown(m.timer)].state = "Invalidated"
  BY DEF SoundRapis, RapiMachines
<1>2. RapiAdvance(m).state = "Invalidated"
  BY RapiTable DEF RapiAdvance, RapiFire, RapiAccepts, SoundRapis, RapiMachines
<1> QED
  BY <1>1, <1>2, RapiTable
  DEF RapiOnSessionFailure, RapiOnAllKeysSoft, RapiOnSuccess, RapiOnAllKeysHard, RapiTouched,
      RapiOnInvalidate, RapiAlign, RapiFire, RapiAccepts

\* A RAPI that does not serve and has nothing to wait for is frozen.
LEMMA FrozenIs ==
  ASSUME NEW m \in SoundRapis, ~RapiServes(m), RapiRecoverAt(m) = NoTimer
  PROVE  m.state = "Invalidated"
<1>1. CASE m.state = "Cooling"
  <2>1. m.timer = 0
    BY <1>1 DEF RapiRecoverAt, Running, SoundRapis, RapiMachines, Timers, NoTimer
  <2>2. RapiTouched(m).state = "Healthy"
    BY <1>1, <2>1, RapiTable
    DEF RapiTouched, Running, RapiAdvance, RapiFire, RapiAccepts, RapiMachine, SoundRapis,
        RapiMachines
  <2> QED
    BY <2>2 DEF RapiServes
<1>2. CASE m.state = "Healthy"
  BY <1>2 DEF RapiServes, RapiTouched
<1> QED
  BY <1>1, <1>2 DEF SoundRapis, RapiMachines, RapiStates

----------------------------------------------------------------------------
(* Keys.                                                                    *)

\* Every operation on the machine of a key keeps its type.
LEMMA KeyTypes ==
  ASSUME NEW m \in KeyMachines
  PROVE  /\ KeyOnSuccess(m) \in KeyMachines
         /\ KeyOnPlatformFailure(m) \in KeyMachines
         /\ KeyAdvance(m) \in KeyMachines
         /\ KeyTouched(m) \in KeyMachines
         /\ \A t \in Timers : /\ KeyOnSessionFailure(m, t) \in KeyMachines
                              /\ KeyAlign(m, t) \in KeyMachines
         /\ [m EXCEPT !.timer = CountDown(@)] \in KeyMachines
<1>1. KeyAdvance(m) \in KeyMachines
  BY Table, SpecialTimers
  DEF KeyAdvance, KeyFire, KeyAccepts, Machine, KeyMachines, KeyStates
<1>2. KeyTouched(m) \in KeyMachines
  BY <1>1 DEF KeyTouched
<1>3. KeyOnSuccess(m) \in KeyMachines /\ KeyOnPlatformFailure(m) \in KeyMachines
  BY Table, SpecialTimers
  DEF KeyOnSuccess, KeyOnPlatformFailure, KeyFire, KeyAccepts, Machine, KeyMachines, KeyStates
<1>4. \A t \in Timers : KeyOnSessionFailure(m, t) \in KeyMachines /\ KeyAlign(m, t) \in KeyMachines
  BY Table
  DEF KeyOnSessionFailure, KeyAlign, KeyFire, KeyAccepts, Machine, KeyMachines, KeyStates
<1>5. [m EXCEPT !.timer = CountDown(m.timer)] \in KeyMachines
  BY CountDownTimers DEF KeyMachines
<1> QED
  BY <1>1, <1>2, <1>3, <1>4, <1>5

\* And so does the reconciliation with its row.
LEMMA SyncedTypes ==
  ASSUME Inv, NEW r \in Reqs, NEW k \in Keys
  PROVE  /\ Synced(r, k) \in KeyMachines
         /\ KeyTouched(Synced(r, k)) \in KeyMachines
         /\ KeyRecoverAt(Synced(r, k)) \in Timers
<1> DEFINE m == key[k]
           w == RowOf(k \in req[r].usable)
<1>1. m \in KeyMachines
  BY DEF Inv
<1>2. w.enabled /\ w.ft \in {0, 2} /\ w.exp = "none"
  BY DEF RowOf
<1> HIDE DEF m, w
<1>3. KeyOnRowFact(m, "PermanentFailure") \in KeyMachines
  BY <1>1, Table, SpecialTimers
  DEF KeyOnRowFact, KeyFire, KeyAccepts, Machine, KeyMachines, KeyStates
<1>4. KeyFire(m, "Enable", m.timer) \in KeyMachines
  BY <1>1, Table DEF KeyFire, KeyAccepts, Machine, KeyMachines, KeyStates
<1>5. KeySync(m, w) \in KeyMachines
  BY <1>2, <1>3, <1>4 DEF KeySync, RowUsable
<1>6. Synced(r, k) \in KeyMachines
  BY <1>5 DEF Synced, m, w
<1>7. KeyRecoverAt(Synced(r, k)) \in Timers
  BY <1>6, SpecialTimers DEF KeyRecoverAt, KeyMachines
<1> QED
  BY <1>6, <1>7, KeyTypes

----------------------------------------------------------------------------
(* The inductive invariant.                                                 *)

\* An idle request is sound.
LEMMA IdleSound == Idle \in SoundRequests /\ Idle.pc = "idle"
BY SpecialTimers DEF Idle, SoundRequests, Requests

\* The inductive invariant holds initially.
LEMMA InvInit == Init => Inv
BY IdleSound, FreshSound, SpecialTimers
DEF Init, Inv, RapiRows, Fresh, Machine, KeyMachines, KeyStates

\* A request that goes to another place with all its place demands.
LEMMA RequestStep ==
  ASSUME Inv, NEW r \in Reqs, NEW q \in SoundRequests, req' = [req EXCEPT ![r] = q],
         rapi' \in [Rapis -> SoundRapis], rrow' \in [Rapis -> RapiRows],
         key' \in [Keys -> KeyMachines], krow' \in [Keys -> BOOLEAN], pending' = pending,
         parted' \subseteq Rapis
  PROVE  Inv'
BY DEF Inv

\* A step of one RAPI's machine leaves the others.
LEMMA OneRapi ==
  ASSUME Inv, NEW m \in Rapis, NEW n \in SoundRapis
  PROVE  [rapi EXCEPT ![m] = n] \in [Rapis -> SoundRapis]
BY DEF Inv

\* The place of a request is one of a RAPI, where it needs one.
LEMMA AtIs ==
  ASSUME Inv, NEW r \in Reqs
  PROVE  /\ req[r] \in SoundRequests /\ req[r] \in Requests
         /\ req[r].pc \in {"picked", "keys", "sent", "answered", "align", "judgeTwice", "judge"}
              => At(r) \in Rapis /\ rapi[At(r)] \in SoundRapis /\ PoolOf[At(r)] \subseteq Keys
         /\ req[r].pc = "sent" => req[r].key \in Keys /\ key[req[r].key] \in KeyMachines
         /\ req[r].pc = "align" => req[r].until \in Timers /\ req[r].until # NoTimer
BY PoolAssumption DEF Inv, SoundRequests, Requests, At

\* The steps of a request that no machine hears of.
LEMMA SilentStep ==
  ASSUME Inv, NEW r \in Reqs,
         Load(r) \/ Waited(r) \/ GiveUp(r) \/ AllBlocked(r) \/ KeyBlocked(r)
  PROVE  Inv'
<1>1. UNCHANGED <<rapi, rrow, key, krow, pending, parted>>
  BY DEF Load, Waited, GiveUp, AllBlocked, KeyBlocked
<1>2. CASE Load(r)
  <2> DEFINE q == [Idle EXCEPT !.pc = "pick", !.snap = {m \in Rapis : Serving(rrow[m])},
                               !.usable = {k \in Keys : krow[k]}]
  <2>1. req' = [req EXCEPT ![r] = q]
    BY <1>2 DEF Load
  <2>2. q \in SoundRequests
    BY SpecialTimers DEF Idle, SoundRequests, Requests
  <2> HIDE DEF q
  <2> QED
    BY <1>1, <2>1, <2>2, RequestStep DEF Inv
<1>3. CASE Waited(r)
  <2> DEFINE q == [req[r] EXCEPT !.pc = "pick", !.until = NoTimer]
  <2>1. req' = [req EXCEPT ![r] = q]
    BY <1>3, AtIs DEF Waited
  <2>2. q \in SoundRequests
    BY AtIs, SpecialTimers DEF SoundRequests, Requests
  <2> HIDE DEF q
  <2> QED
    BY <1>1, <2>1, <2>2, RequestStep DEF Inv
<1>4. CASE GiveUp(r)
  BY <1>1, <1>4, IdleSound, RequestStep DEF Inv, GiveUp
<1>5. CASE AllBlocked(r)
  <2> DEFINE q == [req[r] EXCEPT !.pc = "judge", !.pool = {}]
  <2>1. req' = [req EXCEPT ![r] = q]
    BY <1>5, AtIs DEF AllBlocked
  <2>2. q \in SoundRequests
    BY <1>5, AtIs DEF AllBlocked, SoundRequests, Requests, At
  <2> HIDE DEF q
  <2> QED
    BY <1>1, <2>1, <2>2, RequestStep DEF Inv
<1>6. CASE KeyBlocked(r)
  <2> DEFINE q == [req[r] EXCEPT !.pc = "keys", !.key = None]
  <2>1. req' = [req EXCEPT ![r] = q]
    BY <1>6, AtIs DEF KeyBlocked
  <2>2. q \in SoundRequests
    BY <1>6, AtIs DEF KeyBlocked, SoundRequests, Requests, At
  <2> HIDE DEF q
  <2> QED
    BY <1>1, <2>1, <2>2, RequestStep DEF Inv
<1> QED
  BY <1>2, <1>3, <1>4, <1>5, <1>6

\* Picking a RAPI.
LEMMA PickRapiStep == ASSUME Inv, NEW r \in Reqs, PickRapi(r) PROVE Inv'
<1>1. PICK m \in req[r].snap : /\ rapi' = [rapi EXCEPT ![m] = RapiTouched(@)]
                               /\ req' = [req EXCEPT ![r].pc = "picked", ![r].at = m,
                                                     ![r].pool = PoolOf[m]]
  BY DEF PickRapi
<1> DEFINE q == [req[r] EXCEPT !.pc = "picked", !.at = m, !.pool = PoolOf[m]]
<1>2. m \in Rapis /\ rapi[m] \in SoundRapis /\ PoolOf[m] \subseteq Keys
  BY AtIs, PoolAssumption DEF Requests, Inv
<1>3. req' = [req EXCEPT ![r] = q]
  BY <1>1, AtIs
<1>4. q \in SoundRequests
  BY <1>2, AtIs DEF SoundRequests, Requests
<1>5. rapi' \in [Rapis -> SoundRapis]
  BY <1>1, <1>2, AdvanceSound, OneRapi
<1> HIDE DEF q
<1> QED
  BY <1>3, <1>4, <1>5, RequestStep DEF PickRapi, Inv

\* Finding none.
LEMMA PickRapiNoneStep == ASSUME Inv, NEW r \in Reqs, PickRapiNone(r) PROVE Inv'
<1> DEFINE S == {RapiRecoverAt(rapi[m]) : m \in req[r].snap} \ {NoTimer}
           q == [req[r] EXCEPT !.pc = IF Earliest(S) = NoTimer THEN "refused" ELSE "waiting",
                               !.until = Earliest(S), !.at = None]
<1>1. req' = [req EXCEPT ![r] = q]
  BY AtIs DEF PickRapiNone
<1>2. \A m \in req[r].snap : rapi[m] \in SoundRapis
  BY AtIs DEF Requests, Inv
<1>3. S \subseteq Timers /\ S \subseteq Nat
  BY <1>2, SpecialTimers DEF RapiRecoverAt, SoundRapis, RapiMachines, Timers
<1>4. Earliest(S) \in Timers
  <2> HIDE DEF S
  <2> QED
    BY <1>3, EarliestIsOne, SpecialTimers
<1>5. q \in SoundRequests
  <2> HIDE DEF S
  <2> QED
    BY ZenonT(60), <1>4, AtIs DEF SoundRequests, Requests
<1>6. rapi' \in [Rapis -> SoundRapis]
  BY <1>2, AdvanceSound DEF PickRapiNone, Inv
<1> HIDE DEF q
<1> QED
  BY <1>1, <1>5, <1>6, RequestStep DEF PickRapiNone, Inv

\* The place a request goes to when a RAPI has failed or been judged.
LEMMA MachineStep ==
  ASSUME Inv, NEW r \in Reqs, Unusable(r) \/ EmptyStream(r) \/ Completed(r) PROVE Inv'
<1>1. At(r) \in Rapis /\ rapi[At(r)] \in SoundRapis
      /\ UNCHANGED <<rrow, key, krow, pending, parted>>
  BY AtIs DEF Unusable, EmptyStream, Completed
<1>2. rapi' \in [Rapis -> SoundRapis]
  <2>1. \/ rapi' = [rapi EXCEPT ![At(r)] = RapiOnSessionFailure(rapi[At(r)])]
        \/ rapi' = [rapi EXCEPT ![At(r)] = RapiOnSuccess(rapi[At(r)])]
    BY DEF Unusable, EmptyStream, Completed
  <2> QED
    BY <1>1, <2>1, CoolingSound, EventSound, OneRapi
<1>3. \E q \in SoundRequests : req' = [req EXCEPT ![r] = q]
  <2>1. CASE Completed(r)
    BY <2>1, IdleSound DEF Completed
  <2>2. CASE Goto(r, "pick")
    <3> DEFINE q == [req[r] EXCEPT !.pc = "pick"]
    <3>1. req' = [req EXCEPT ![r] = q] /\ q \in SoundRequests
      BY <2>2, AtIs DEF Goto, SoundRequests, Requests
    <3> QED
      BY <3>1
  <2>3. CASE Unusable(r)
    <3> DEFINE q == [req[r] EXCEPT !.pc = "pick", !.pool = {}]
    <3>1. req' = [req EXCEPT ![r] = q] /\ q \in SoundRequests
      BY <2>3, AtIs DEF Unusable, SoundRequests, Requests
    <3> QED
      BY <3>1
  <2> QED
    BY <2>1, <2>2, <2>3 DEF EmptyStream
<1> QED
  BY <1>1, <1>2, <1>3, RequestStep DEF Inv

\* Picking a key.
LEMMA PickKeyStep == ASSUME Inv, NEW r \in Reqs, PickKey(r) PROVE Inv'
<1>0. req[r].pool \subseteq Keys
  BY AtIs DEF Requests
<1> DEFINE skip(left) == {j \in left : ~KeyServes(Synced(r, j))}
<1>1. PICK left \in SUBSET req[r].pool : \E k \in left :
        /\ KeyServes(Synced(r, k))
        /\ \E skipped \in SUBSET skip(left) :
             key' = [j \in Keys |->
                       IF j \in skipped \cup {k} THEN KeyTouched(Synced(r, j)) ELSE key[j]]
        /\ req' = [req EXCEPT ![r].pc = "sent", ![r].key = k, ![r].pool = left]
  BY DEF PickKey
<1> HIDE DEF skip
<1>2. PICK k \in left :
        /\ req' = [req EXCEPT ![r].pc = "sent", ![r].key = k, ![r].pool = left]
        /\ \E skipped : key' = [j \in Keys |-> IF j \in skipped \cup {k}
                                               THEN KeyTouched(Synced(r, j)) ELSE key[j]]
  BY <1>1
<1> DEFINE q == [req[r] EXCEPT !.pc = "sent", !.key = k, !.pool = left]
<1>3. At(r) \in Rapis /\ k \in Keys /\ left \subseteq Keys
  BY <1>0, AtIs DEF PickKey
<1>4. key' \in [Keys -> KeyMachines]
  BY <1>2, SyncedTypes DEF Inv
<1>5. req' = [req EXCEPT ![r] = q]
  BY <1>2, AtIs
<1>6. q \in SoundRequests
  BY <1>3, AtIs DEF SoundRequests, Requests, At
<1> HIDE DEF q
<1> QED
  BY <1>4, <1>5, <1>6, RequestStep DEF PickKey, Inv

\* Finding none.
LEMMA PickKeyNoneStep == ASSUME Inv, NEW r \in Reqs, PickKeyNone(r) PROVE Inv'
<1>0. req[r].pool \subseteq Keys
  BY AtIs DEF Requests
<1> DEFINE S(left) == {KeyRecoverAt(Synced(r, k)) : k \in left} \ {NoTimer}
<1>1. PICK left \in SUBSET req[r].pool :
        /\ key' = [k \in Keys |-> IF k \in left THEN KeyTouched(Synced(r, k)) ELSE key[k]]
        /\ req' = [req EXCEPT
                     ![r].pc = IF Earliest(S(left)) = NoTimer THEN "judgeTwice" ELSE "align",
                     ![r].pool = left, ![r].until = Earliest(S(left))]
  BY DEF PickKeyNone
<1> DEFINE q == [req[r] EXCEPT
                   !.pc = IF Earliest(S(left)) = NoTimer THEN "judgeTwice" ELSE "align",
                   !.pool = left, !.until = Earliest(S(left))]
<1>2. At(r) \in Rapis /\ left \subseteq Keys
  BY <1>0, AtIs DEF PickKeyNone
<1>3. S(left) \subseteq Timers \ {NoTimer}
  BY <1>2, SyncedTypes
<1>4. S(left) \subseteq Nat
  BY <1>3 DEF Timers
<1>5. Earliest(S(left)) \in Timers
  <2> HIDE DEF S
  <2> QED
    BY <1>3, <1>4, EarliestIsOne, SpecialTimers
<1>6. req' = [req EXCEPT ![r] = q]
  <2> HIDE DEF S
  <2> QED
    BY <1>1, AtIs
<1>7. q \in SoundRequests
  <2> HIDE DEF S
  <2> QED
    BY ZenonT(60), <1>2, <1>5, AtIs DEF SoundRequests, Requests, At
<1>8. key' \in [Keys -> KeyMachines]
  BY <1>1, <1>2, SyncedTypes DEF Inv
<1> HIDE DEF q
<1> QED
  BY <1>6, <1>7, <1>8, RequestStep DEF PickKeyNone, Inv

\* Aligning a pool to a moment that there is.
LEMMA AlignPoolStep == ASSUME Inv, NEW r \in Reqs, AlignPool(r) PROVE Inv'
<1> DEFINE q == [req[r] EXCEPT !.pc = "judge"]
<1>1. /\ At(r) \in Rapis /\ rapi[At(r)] \in SoundRapis
      /\ req[r].until \in Timers /\ req[r].until # NoTimer
  BY AtIs DEF AlignPool
<1>2. key' \in [Keys -> KeyMachines]
  BY <1>1, KeyTypes DEF AlignPool, Inv
<1>3. RapiAlign(RapiOnAllKeysSoft(rapi[At(r)]), req[r].until) \in SoundRapis
  BY <1>1, CoolingSound, AlignSound
<1>4. rapi' \in [Rapis -> SoundRapis]
  BY <1>1, <1>3, OneRapi DEF AlignPool
<1>5. req' = [req EXCEPT ![r] = q] /\ q \in SoundRequests
  BY <1>1, AtIs DEF AlignPool, Goto, SoundRequests, Requests, At
<1> HIDE DEF q
<1> QED
  BY <1>2, <1>4, <1>5, RequestStep DEF AlignPool, Inv

\* Judging a pool.
LEMMA JudgePoolStep == ASSUME Inv, NEW r \in Reqs, JudgePool(r) PROVE Inv'
<1> DEFINE q == [req[r] EXCEPT !.pc = IF req[r].pc = "judge" THEN "pick" ELSE "judge",
                               !.pool = {}, !.until = NoTimer]
<1>1. At(r) \in Rapis /\ rapi[At(r)] \in SoundRapis
  BY AtIs DEF JudgePool
<1>2. rapi' \in [Rapis -> SoundRapis]
  <2>1. \/ rapi' = [rapi EXCEPT ![At(r)] = RapiOnAllKeysHard(rapi[At(r)])]
        \/ rapi' = [rapi EXCEPT ![At(r)] = RapiOnAllKeysSoft(rapi[At(r)])]
    BY DEF JudgePool
  <2> QED
    BY <1>1, <2>1, CoolingSound, EventSound, OneRapi
<1>3. rrow' \in [Rapis -> RapiRows] /\ parted' \subseteq Rapis
  <2>1. \/ rrow' = rrow
        \/ rrow' = [rrow EXCEPT ![At(r)].available = FALSE]
    BY DEF JudgePool, PersistDead
  <2>2. parted' \subseteq parted \cup {At(r)}
    BY DEF JudgePool, PersistDead
  <2> QED
    BY <1>1, <2>1, <2>2 DEF Inv, RapiRows
<1>4. req' = [req EXCEPT ![r] = q]
  BY AtIs DEF JudgePool
<1>5. q \in SoundRequests
  BY ZenonT(60), <1>1, AtIs, SpecialTimers DEF SoundRequests, Requests, At
<1> HIDE DEF q
<1> QED
  BY <1>2, <1>3, <1>4, <1>5, RequestStep DEF JudgePool, Inv

\* The answers of the upstream.
LEMMA AnswerStep ==
  ASSUME Inv, NEW r \in Reqs, KeySuccess(r) \/ KeyCools(r) \/ KeyDies(r) PROVE Inv'
<1> DEFINE k == req[r].key
<1>1. k \in Keys /\ key[k] \in KeyMachines /\ At(r) \in Rapis /\ req[r].pc = "sent"
      /\ UNCHANGED <<rapi, rrow, pending, parted>>
  BY AtIs DEF KeySuccess, KeyCools, KeyDies
<1> DEFINE answered == [req[r] EXCEPT !.pc = "answered", !.key = None, !.pool = {}]
           next == [req[r] EXCEPT !.pc = "keys", !.key = None]
<1>2. \/ req' = [req EXCEPT ![r].pc = "answered", ![r].key = None, ![r].pool = {}]
      \/ req' = [req EXCEPT ![r].pc = "keys", ![r].key = None]
  BY DEF KeySuccess, KeyCools, KeyDies
<1>3. PICK q \in {answered, next} : req' = [req EXCEPT ![r] = q]
  <2>1. req' = [req EXCEPT ![r] = answered] \/ req' = [req EXCEPT ![r] = next]
    BY <1>2
  <2> QED
    BY <2>1
<1>4. q \in SoundRequests
  BY <1>1, AtIs DEF SoundRequests, Requests, At
<1>5. PICK n \in KeyMachines : key' = [key EXCEPT ![k] = n]
  BY <1>1, KeyTypes, KeyCooldownsAreTimers DEF KeySuccess, KeyCools, KeyDies
<1>6. key' \in [Keys -> KeyMachines]
  BY <1>5 DEF Inv
<1>7. krow' \in [Keys -> BOOLEAN]
  <2>1. \E b \in BOOLEAN : krow' = [krow EXCEPT ![k] = b] \/ krow' = krow
    BY DEF KeySuccess, KeyCools, KeyDies
  <2> QED
    BY <2>1 DEF Inv
<1> QED
  BY <1>1, <1>3, <1>4, <1>6, <1>7, RequestStep DEF Inv

\* The recovery loop and the clock.
LEMMA TimeStep == Inv /\ (RecoveryLoop \/ Tick) => Inv'
<1> SUFFICES ASSUME Inv, RecoveryLoop \/ Tick PROVE Inv'
  OBVIOUS
<1>1. rapi' \in [Rapis -> SoundRapis] /\ key' \in [Keys -> KeyMachines]
  <2>1. \A m \in Rapis : /\ RapiAdvance(rapi[m]) \in SoundRapis
                         /\ [rapi[m] EXCEPT !.timer = CountDown(@)] \in SoundRapis
    BY AdvanceSound DEF Inv
  <2>2. \A k \in Keys : /\ KeyAdvance(key[k]) \in KeyMachines
                        /\ [key[k] EXCEPT !.timer = CountDown(@)] \in KeyMachines
    BY KeyTypes DEF Inv
  <2>3. CASE RecoveryLoop
    BY <2>1, <2>2, <2>3 DEF RecoveryLoop
  <2>4. CASE Tick
    BY <2>1, <2>2, <2>4 DEF Tick
  <2> QED
    BY <2>3, <2>4
<1>2. req' \in [Reqs -> SoundRequests]
  <2>1. \A q \in SoundRequests : [q EXCEPT !.until = CountDown(q.until)] \in SoundRequests
    BY CountDownTimers DEF SoundRequests, Requests
  <2> QED
    BY <2>1 DEF RecoveryLoop, Tick, Inv
<1> QED
  BY <1>1, <1>2 DEF RecoveryLoop, Tick, Inv

\* Operators and probes.
LEMMA OperatorStep ==
  ASSUME Inv, NEW m \in Rapis,
         \/ Toggle(m) \/ SaveModel(m) \/ Restore(m) \/ DeleteFails(m) \/ CatalogInvalidates(m)
         \/ InvalidateRAPI(m) \/ RevalidateRAPI(m)
  PROVE  Inv'
<1>1. rrow' \in [Rapis -> RapiRows]
  BY DEF Toggle, SaveModel, Restore, DeleteFails, CatalogInvalidates, InvalidateRAPI,
         RevalidateRAPI, Inv, RapiRows
<1>2. rapi' \in [Rapis -> SoundRapis]
  <2>1. rapi[m] \in SoundRapis
    BY DEF Inv
  <2>2. \/ rapi' = rapi
        \/ rapi' = [rapi EXCEPT ![m] = RapiOnInvalidate(rapi[m])]
        \/ rapi' = [rapi EXCEPT ![m] = RapiOnRevalidate(rapi[m])]
    BY DEF Toggle, SaveModel, Restore, DeleteFails, CatalogInvalidates, InvalidateRAPI,
           RevalidateRAPI, TellsNobody
  <2> QED
    BY <2>1, <2>2, EventSound, OneRapi DEF Inv
<1>3. pending' \subseteq {"invalidate", "revalidate"} \X Rapis
  <2>1. \/ pending' \subseteq pending
        \/ pending' = pending \cup {<<"invalidate", m>>}
        \/ pending' = pending \cup {<<"revalidate", m>>}
    BY DEF Toggle, SaveModel, Restore, DeleteFails, CatalogInvalidates, InvalidateRAPI,
           RevalidateRAPI, TellsNobody, Owe
  <2>2. pending \subseteq {"invalidate", "revalidate"} \X Rapis
    BY DEF Inv
  <2> QED
    BY <2>1, <2>2
<1>4. parted' \subseteq Rapis
  BY DEF Toggle, SaveModel, Restore, DeleteFails, CatalogInvalidates, InvalidateRAPI,
         RevalidateRAPI, TellsNobody, Inv
<1> QED
  BY <1>1, <1>2, <1>3, <1>4
  DEF Toggle, SaveModel, Restore, DeleteFails, CatalogInvalidates, InvalidateRAPI,
      RevalidateRAPI, Inv

\* A key that is repaired, and a bundle.
LEMMA RepairStep == Inv /\ ((\E k \in Keys : FixKey(k)) \/ ApplyBundle) => Inv'
<1> SUFFICES ASSUME Inv, (\E k \in Keys : FixKey(k)) \/ ApplyBundle PROVE Inv'
  OBVIOUS
<1>1. ASSUME NEW k \in Keys, FixKey(k) PROVE Inv'
  <2>1. KeyOnSuccess(key[k]) \in KeyMachines
    BY KeyTypes DEF Inv
  <2> QED
    BY <1>1, <2>1 DEF FixKey, Inv
<1>2. CASE ApplyBundle
  <2>1. \A m \in Rapis : [rrow[m] EXCEPT !.available = TRUE] \in RapiRows
    BY DEF Inv, RapiRows
  <2>2. rrow' \in [Rapis -> RapiRows] /\ krow' \in [Keys -> BOOLEAN]
    BY <1>2, <2>1 DEF ApplyBundle
  <2> QED
    BY <1>2, <2>2 DEF ApplyBundle, TellsNobody, Inv
<1> QED
  BY <1>1, <1>2

\* Every step keeps the inductive invariant.
LEMMA InvNext == Inv /\ [Next]_vars => Inv'
<1> SUFFICES ASSUME Inv, [Next]_vars PROVE Inv'
  OBVIOUS
<1>1. CASE UNCHANGED vars
  BY <1>1 DEF vars, Inv
<1>2. CASE Next
  BY <1>2, SilentStep, PickRapiStep, PickRapiNoneStep, MachineStep, PickKeyStep,
     PickKeyNoneStep, AlignPoolStep, JudgePoolStep, AnswerStep, TimeStep, OperatorStep, RepairStep
  DEF Next
<1> QED
  BY <1>1, <1>2

\* The inductive invariant: types, a timer for whatever cools, and a RAPI and a
\* key where the place of a request needs one.
THEOREM InvInvariant == Spec => []Inv
BY InvInit, InvNext, PTL DEF Spec

\* Every reachable state is of its type; with BackoffIsTimer, no backoff is
\* longer than the longest cooldown.
THEOREM TypeCorrect == Spec => []TypeOK
<1>1. Inv => TypeOK
  BY DEF Inv, TypeOK, SoundRapis, SoundRequests
<1> QED
  BY <1>1, InvInvariant, PTL

----------------------------------------------------------------------------
(* Refusals.                                                                *)

RequestMoves(r) ==
  \/ Load(r) \/ PickRapi(r) \/ PickRapiNone(r) \/ Waited(r) \/ GiveUp(r) \/ Unusable(r)
  \/ PickKey(r) \/ PickKeyNone(r) \/ AlignPool(r) \/ JudgePool(r) \/ KeySuccess(r)
  \/ KeyCools(r) \/ KeyDies(r) \/ Completed(r) \/ EmptyStream(r)
  \/ AllBlocked(r) \/ KeyBlocked(r)

\* A request moves by itself.
LEMMA OneRequest ==
  ASSUME Inv, NEW s \in Reqs, RequestMoves(s), NEW r \in Reqs, r # s
  PROVE  req'[r] = req[r]
<1>1. \E q : req' = [req EXCEPT ![s] = q]
  BY AtIs
  DEF RequestMoves, Load, PickRapi, PickRapiNone, Waited, GiveUp, Unusable, PickKey, PickKeyNone,
      AlignPool, JudgePool, KeySuccess, KeyCools, KeyDies, Completed, EmptyStream,
      AllBlocked, KeyBlocked, Goto
<1> QED
  BY <1>1 DEF Inv

\* Only a request that finds no RAPI is refused.
LEMMA RefusedIs ==
  ASSUME Inv, Next, NEW r \in Reqs, req[r].pc = "pick", req'[r].pc = "refused"
  PROVE  PickRapiNone(r)
<1>1. ASSUME NEW s \in Reqs, RequestMoves(s) PROVE PickRapiNone(r)
  <2>1. CASE s # r
    BY <1>1, <2>1, OneRequest
  <2>2. CASE s = r
    <3>1. CASE PickRapi(r)
      <4>1. \E m : req' = [req EXCEPT ![r].pc = "picked", ![r].at = m, ![r].pool = PoolOf[m]]
        BY <3>1 DEF PickRapi
      <4>2. req'[r].pc = "picked"
        BY <4>1, AtIs DEF Requests, Inv
      <4> QED
        BY <4>2
    <3> QED
      BY <1>1, <2>2, <3>1
      DEF RequestMoves, Load, Waited, GiveUp, Unusable, PickKey, PickKeyNone, AlignPool,
          JudgePool, KeySuccess, KeyCools, KeyDies, Completed, EmptyStream, AllBlocked,
          KeyBlocked
  <2> QED
    BY <2>1, <2>2
<1>2. CASE Tick
  <2>1. req'[r] = [req[r] EXCEPT !.until = CountDown(req[r].until)]
    BY <1>2 DEF Tick
  <2> QED
    BY <2>1, AtIs DEF Requests
<1>3. ASSUME req' = req PROVE PickRapiNone(r)
  BY <1>3
<1> QED
  BY <1>1, <1>2, <1>3
  DEF Next, RequestMoves, RecoveryLoop, Toggle, SaveModel, Restore, DeleteFails,
      CatalogInvalidates, InvalidateRAPI, RevalidateRAPI, FixKey, ApplyBundle

\* A request is refused only if every RAPI it knows is frozen: whatever cools has
\* a timer, so that with one of them cooling there is a moment to wait for.
LEMMA RefusedFrozen ==
  ASSUME Inv, NEW r \in Reqs, PickRapiNone(r), req'[r].pc = "refused", NEW m \in req[r].snap
  PROVE  rapi[m].state = "Invalidated"
<1> DEFINE S == {RapiRecoverAt(rapi[n]) : n \in req[r].snap} \ {NoTimer}
           q == [req[r] EXCEPT !.pc = IF Earliest(S) = NoTimer THEN "refused" ELSE "waiting",
                               !.until = Earliest(S), !.at = None]
<1>1. req' = [req EXCEPT ![r] = q]
  BY AtIs DEF PickRapiNone
<1>2. \A n \in req[r].snap : rapi[n] \in SoundRapis
  BY AtIs DEF Requests, Inv
<1>3. S \subseteq Nat
  BY <1>2, SpecialTimers DEF RapiRecoverAt, SoundRapis, RapiMachines, Timers
<1>4. Earliest(S) = NoTimer
  <2> HIDE DEF S
  <2>1. req'[r] = q
    BY <1>1 DEF Inv
  <2>2. q.pc = IF Earliest(S) = NoTimer THEN "refused" ELSE "waiting"
    BY AtIs DEF Requests
  <2> QED
    BY <2>1, <2>2
<1>5. S = {}
  <2> HIDE DEF S
  <2>1. S # {} => Earliest(S) \in S
    BY <1>3, EarliestIsOne
  <2>2. NoTimer \notin Nat
    BY DEF NoTimer
  <2> QED
    BY <1>3, <1>4, <2>1, <2>2
<1>6. RapiRecoverAt(rapi[m]) = NoTimer
  BY <1>5
<1> QED
  BY <1>2, <1>6, FrozenIs DEF PickRapiNone

\* As long as one of the RAPIs it knows has a cooldown to sit out, a request is
\* not refused.
THEOREM RefusalsHonest == Spec => HonestRefusal
<1> DEFINE Honestly == \A r \in Reqs :
             req[r].pc = "pick" /\ req'[r].pc = "refused" =>
               \A m \in req[r].snap : rapi[m].state = "Invalidated"
<1>1. Inv /\ [Next]_vars => [Honestly]_vars
  BY RefusedIs, RefusedFrozen
<1> QED
  BY <1>1, InvInvariant, PTL DEF Spec, HonestRefusal

----------------------------------------------------------------------------
(* Frozen RAPIs.                                                            *)

\* A step of a request freezes RAPIs, and brings none back.
LEMMA RequestsReviveNone ==
  ASSUME Inv, NEW r \in Reqs, RequestMoves(r), NEW m \in Rapis, rapi[m].state = "Invalidated"
  PROVE  rapi'[m].state = "Invalidated"
<1> DEFINE n == rapi[m]
<1>1. n \in SoundRapis /\ n.state = "Invalidated"
  BY DEF Inv
<1>2. \/ rapi'[m] = n \/ rapi'[m] = RapiTouched(n) \/ rapi'[m] = RapiOnSessionFailure(n)
      \/ rapi'[m] = RapiOnSuccess(n) \/ rapi'[m] = RapiOnAllKeysHard(n)
      \/ rapi'[m] = RapiOnAllKeysSoft(n)
      \/ rapi'[m] = RapiAlign(RapiOnAllKeysSoft(n), req[r].until)
  BY DEF RequestMoves, Load, PickRapi, PickRapiNone, Waited, GiveUp, Unusable, PickKey,
         PickKeyNone, AlignPool, JudgePool, KeySuccess, KeyCools, KeyDies, Completed,
         EmptyStream, AllBlocked, KeyBlocked, Inv
<1> HIDE DEF n
<1> QED
  BY <1>1, <1>2, StaysFrozen DEF n

\* Nor does time.
LEMMA TimeRevivesNone ==
  ASSUME Inv, RecoveryLoop \/ Tick, NEW m \in Rapis, rapi[m].state = "Invalidated"
  PROVE  rapi'[m].state = "Invalidated"
<1>1. rapi[m] \in SoundRapis
  BY DEF Inv
<1>2. rapi'[m] = RapiAdvance(rapi[m]) \/ rapi'[m] = [rapi[m] EXCEPT !.timer = CountDown(@)]
  BY DEF RecoveryLoop, Tick
<1> QED
  BY <1>1, <1>2, StaysFrozen

\* A frozen RAPI comes back by the second step of an operation that has made its
\* row enabled or available, or of a good probe that tried to, never by a late
\* answer or an elapsed timer.
THEOREM RevivalsOrdered == Spec => RevivedByOperator
<1> DEFINE Ordered == \A m \in Rapis :
             rapi[m].state = "Invalidated" /\ rapi'[m].state # "Invalidated"
               => <<"revalidate", m>> \in pending
<1>1. ASSUME Inv, [Next]_vars PROVE [Ordered]_vars
  <2> SUFFICES ASSUME Next, NEW m \in Rapis,
                      rapi[m].state = "Invalidated", rapi'[m].state # "Invalidated"
               PROVE  <<"revalidate", m>> \in pending
    BY <1>1
  <2>1. ~ \E r \in Reqs : RequestMoves(r)
    BY <1>1, RequestsReviveNone
  <2>2. ~RecoveryLoop /\ ~Tick
    BY <1>1, TimeRevivesNone
  <2>3. rapi' # rapi
    OBVIOUS
  <2>4. PICK n \in Rapis : InvalidateRAPI(n) \/ RevalidateRAPI(n) \/ DeleteFails(n)
    BY <2>1, <2>2, <2>3
    DEF Next, RequestMoves, Toggle, SaveModel, TellsNobody, Restore, CatalogInvalidates, FixKey,
        ApplyBundle
  <2>5. n = m
    BY <1>1, <2>4 DEF InvalidateRAPI, RevalidateRAPI, DeleteFails, Inv
  <2>6. ~InvalidateRAPI(n) /\ ~DeleteFails(n)
    <3>1. RapiOnInvalidate(rapi[m]) = rapi[m]
      BY <1>1, StaysFrozen DEF Inv
    <3> QED
      BY <1>1, <2>5, <3>1 DEF InvalidateRAPI, DeleteFails, Inv
  <2> QED
    BY <2>4, <2>5, <2>6 DEF RevalidateRAPI
<1> QED
  BY <1>1, InvInvariant, PTL DEF Spec, RevivedByOperator

----------------------------------------------------------------------------
(* Why a RAPI is frozen.                                                    *)

\* An invalidation that is outstanding finds a row that does not serve, unless
\* an operation that tells nobody has made it serve; operators take turns.
Caused ==
  /\ \E x : pending \subseteq {x}
  /\ \A m \in Rapis : <<"invalidate", m>> \in pending => ~Serving(rrow[m]) \/ m \in parted
  /\ InvalidatedHasCause

\* Whatever does not freeze a RAPI leaves one that is not frozen so.
LEMMA StaysUnfrozen ==
  ASSUME NEW m \in SoundRapis, m.state # "Invalidated"
  PROVE  /\ RapiOnSessionFailure(m).state # "Invalidated"
         /\ RapiOnAllKeysSoft(m).state # "Invalidated"
         /\ RapiOnSuccess(m).state # "Invalidated"
         /\ RapiTouched(m).state # "Invalidated"
         /\ RapiAdvance(m).state # "Invalidated"
         /\ \A t : RapiAlign(RapiOnAllKeysSoft(m), t).state # "Invalidated"
         /\ [m EXCEPT !.timer = CountDown(@)].state # "Invalidated"
<1>1. [m EXCEPT !.timer = CountDown(m.timer)].state # "Invalidated"
  BY DEF SoundRapis, RapiMachines
<1>2. RapiAdvance(m).state # "Invalidated" /\ RapiTouched(m).state # "Invalidated"
  BY RapiTable
  DEF RapiAdvance, RapiTouched, RapiFire, RapiAccepts, RapiMachine, SoundRapis, RapiMachines
<1>3. \A t, n : /\ RapiFire(m, "SessionFailure", t, n).state # "Invalidated"
                /\ RapiFire(m, "AllKeysSoft", t, n).state # "Invalidated"
                /\ RapiFire(m, "Success", t, n).state # "Invalidated"
  BY RapiTable DEF RapiFire, RapiAccepts, RapiMachine
<1>4. /\ RapiOnSessionFailure(m).state # "Invalidated"
      /\ RapiOnAllKeysSoft(m).state # "Invalidated"
      /\ RapiOnSuccess(m).state # "Invalidated"
  BY <1>3 DEF RapiOnSessionFailure, RapiOnAllKeysSoft, RapiOnSuccess
<1>5. RapiOnAllKeysSoft(m) \in SoundRapis
  BY CoolingSound
<1>6. \A t : RapiAlign(RapiOnAllKeysSoft(m), t).state # "Invalidated"
  BY <1>4, <1>5 DEF RapiAlign, SoundRapis, RapiMachines
<1> QED
  BY <1>1, <1>2, <1>4, <1>6

\* A step that owes nothing, and after which a RAPI is parted or has neither been
\* frozen nor been made to serve.
LEMMA StaysCaused ==
  ASSUME Inv, Caused, pending' = pending,
         \A m \in Rapis :
           \/ ~Serving(rrow'[m])
           \/ m \in parted'
           \/ /\ rapi'[m].state = "Invalidated" => rapi[m].state = "Invalidated"
              /\ Serving(rrow[m]) /\ m \notin parted
  PROVE  Caused'
BY DEF Caused, InvalidatedHasCause

\* A pool that is judged dead loses its row with its machine, or is parted.
LEMMA JudgedCaused == ASSUME Inv, Caused, NEW r \in Reqs, JudgePool(r) PROVE Caused'
<1> DEFINE n == rapi[At(r)]
<1>1. At(r) \in Rapis /\ pending' = pending /\ n \in SoundRapis
  BY AtIs DEF JudgePool
<1>2. CASE rapi' = [rapi EXCEPT ![At(r)] = RapiOnAllKeysSoft(n)] /\ UNCHANGED <<rrow, parted>>
  <2>1. n.state # "Invalidated" => RapiOnAllKeysSoft(n).state # "Invalidated"
    BY <1>1, StaysUnfrozen
  <2>2. \A m \in Rapis : rapi'[m].state = "Invalidated" => rapi[m].state = "Invalidated"
    BY <1>1, <1>2, <2>1 DEF Inv
  <2> QED
    BY <1>1, <1>2, <2>2, StaysCaused
<1>3. ASSUME rapi' = [rapi EXCEPT ![At(r)] = RapiOnAllKeysHard(n)]
      PROVE  \A m \in Rapis : m # At(r) => rapi'[m] = rapi[m]
  BY <1>3 DEF Inv
<1>4. CASE /\ rapi' = [rapi EXCEPT ![At(r)] = RapiOnAllKeysHard(n)]
           /\ rrow' = [rrow EXCEPT ![At(r)].available = FALSE]
           /\ parted' = parted \ {At(r)}
  <2>1. ~Serving(rrow'[At(r)])
    BY <1>1, <1>4 DEF Serving, Inv, RapiRows
  <2>2. \A m \in Rapis : m # At(r) => rapi'[m] = rapi[m] /\ rrow'[m] = rrow[m]
    BY <1>3, <1>4 DEF Inv
  <2>3. \A m \in Rapis : m # At(r) => (m \in parted' <=> m \in parted)
    BY <1>4
  <2> QED
    BY <1>1, <2>1, <2>2, <2>3, StaysCaused
<1>5. CASE /\ rapi' = [rapi EXCEPT ![At(r)] = RapiOnAllKeysHard(n)]
           /\ rrow' = rrow /\ parted' = parted \cup {At(r)}
  BY <1>1, <1>3, <1>5, StaysCaused
<1>6. CASE /\ ~RapiAccepts(n, "AllKeysHard")
           /\ rapi' = [rapi EXCEPT ![At(r)] = RapiOnAllKeysHard(n)]
           /\ UNCHANGED <<rrow, parted>>
  <2>1. rapi' = rapi
    BY <1>1, <1>6 DEF RapiOnAllKeysHard, RapiFire, Inv
  <2> QED
    BY <1>1, <1>6, <2>1, StaysCaused
<1> QED
  BY <1>2, <1>4, <1>5, <1>6 DEF JudgePool, PersistDead

\* The other steps of a request, and time, freeze nothing and touch no row.
LEMMA QuietlyCaused ==
  ASSUME Inv, Caused,
         \/ \E r \in Reqs : RequestMoves(r) /\ ~JudgePool(r)
         \/ RecoveryLoop \/ Tick
  PROVE  Caused'
<1>1. UNCHANGED <<rrow, pending, parted>>
  BY DEF RequestMoves, Load, PickRapi, PickRapiNone, Waited, GiveUp, Unusable, PickKey,
         PickKeyNone, AlignPool, KeySuccess, KeyCools, KeyDies, Completed, EmptyStream,
         AllBlocked, KeyBlocked, RecoveryLoop, Tick
<1>2. ASSUME NEW m \in Rapis, rapi[m].state # "Invalidated"
      PROVE  rapi'[m].state # "Invalidated"
  <2> DEFINE n == rapi[m]
  <2>1. n \in SoundRapis
    BY DEF Inv
  <2>2. n.state # "Invalidated"
    BY <1>2
  <2>3. ASSUME NEW r \in Reqs, RequestMoves(r), ~JudgePool(r)
        PROVE  \/ rapi'[m] \in {n, RapiTouched(n), RapiOnSessionFailure(n), RapiOnSuccess(n)}
               \/ rapi'[m] = RapiAlign(RapiOnAllKeysSoft(n), req[r].until)
    BY <2>3
    DEF RequestMoves, Load, PickRapi, PickRapiNone, Waited, GiveUp, Unusable, PickKey,
        PickKeyNone, AlignPool, KeySuccess, KeyCools, KeyDies, Completed, EmptyStream,
        AllBlocked, KeyBlocked, Inv
  <2>4. ASSUME RecoveryLoop \/ Tick
        PROVE  rapi'[m] = RapiAdvance(n) \/ rapi'[m] = [n EXCEPT !.timer = CountDown(@)]
    BY <2>4 DEF RecoveryLoop, Tick
  <2> HIDE DEF n
  <2> QED
    BY <2>1, <2>2, <2>3, <2>4, StaysUnfrozen
<1> QED
  BY <1>1, <1>2, StaysCaused

\* With one operation at a time a new one finds none outstanding.
LEMMA OwedAlone ==
  ASSUME MaxPending = 1, Caused, NEW op \in {"invalidate", "revalidate"}, NEW m \in Rapis,
         Owe(op, m)
  PROVE  pending = {} /\ pending' = {<<op, m>>}
<1>1. PICK x : pending \subseteq {x}
  BY DEF Caused
<1>2. IsFiniteSet(pending)
  BY <1>1, FS_Singleton, FS_Subset
<1>3. Cardinality(pending) \in Nat /\ Cardinality(pending) < 1
  BY <1>2, FS_CardinalityType DEF Owe
<1>4. pending = {}
  BY <1>2, <1>3, FS_EmptySet
<1> QED
  BY <1>4 DEF Owe

\* A restore that goes on to tell the machine.
RestoreTold(m) ==
  /\ Owe("revalidate", m)
  /\ rrow' = [rrow EXCEPT ![m].available = TRUE] \/ UNCHANGED rrow
  /\ UNCHANGED <<rapi, parted, key, krow, req>>

\* The first step of an operator: the row changes, and the machine is to follow.
LEMMA FirstStepCaused ==
  ASSUME MaxPending = 1, Inv, Caused, NEW m \in Rapis,
         Toggle(m) \/ RestoreTold(m) \/ CatalogInvalidates(m)
  PROVE  Caused'
<1>1. PICK op \in {"invalidate", "revalidate"} :
        Owe(op, m) /\ (op = "invalidate" => ~Serving(rrow'[m]))
  BY DEF Toggle, RestoreTold, CatalogInvalidates, Serving, Inv, RapiRows
<1>2. /\ rapi' = rapi
      /\ \A n \in Rapis : n # m => rrow'[n] = rrow[n] /\ (n \in parted' <=> n \in parted)
  BY DEF Toggle, RestoreTold, CatalogInvalidates, Inv
<1>3. pending = {} /\ pending' = {<<op, m>>}
  BY <1>1, OwedAlone
<1>4. \A n \in Rapis : <<"invalidate", n>> \in pending' => n = m /\ op = "invalidate"
  BY <1>3
<1>5. InvalidatedHasCause'
  BY <1>1, <1>2, <1>3 DEF InvalidatedHasCause, Caused
<1> QED
  BY <1>1, <1>3, <1>4, <1>5 DEF Caused

\* The second step: what is frozen has a row that does not serve, and what is
\* revalidated is not frozen.
LEMMA SecondStepCaused ==
  ASSUME Inv, Caused, NEW m \in Rapis, InvalidateRAPI(m) \/ RevalidateRAPI(m)
  PROVE  Caused'
<1>1. /\ rrow' = rrow
      /\ \A n \in Rapis : n # m => rapi'[n] = rapi[n] /\ (n \in parted' <=> n \in parted)
  BY DEF InvalidateRAPI, RevalidateRAPI, Inv
<1>2. \E x : pending' \subseteq {x}
  BY DEF InvalidateRAPI, RevalidateRAPI, Caused
<1>3. \A n \in Rapis \ {m} : rapi'[n].state = "Invalidated" /\ Serving(rrow'[n])
        => \/ n \in parted'
           \/ \E op \in {"invalidate", "revalidate"} : <<op, n>> \in pending'
  BY <1>1 DEF Caused, InvalidatedHasCause, InvalidateRAPI, RevalidateRAPI
<1>4. CASE InvalidateRAPI(m)
  <2>1. pending' = pending \ {<<"invalidate", m>>} /\ <<"invalidate", m>> \in pending
    BY <1>4 DEF InvalidateRAPI
  <2>2. ~Serving(rrow'[m]) \/ m \in parted'
    BY <1>1, <1>4, <2>1 DEF Caused, InvalidateRAPI
  <2>3. InvalidatedHasCause'
    BY <1>3, <2>2 DEF InvalidatedHasCause
  <2>4. \A n \in Rapis : <<"invalidate", n>> \in pending' => ~Serving(rrow'[n]) \/ n \in parted'
    BY <1>1, <1>4, <2>2 DEF Caused, InvalidateRAPI
  <2> QED
    BY <1>2, <2>3, <2>4 DEF Caused
<1>5. CASE RevalidateRAPI(m)
  <2>1. \A n \in Rapis : <<"invalidate", n>> \notin pending'
    <3>1. <<"revalidate", m>> \in pending /\ pending' \subseteq pending
      BY <1>5 DEF RevalidateRAPI
    <3>2. \A n \in Rapis : <<"invalidate", n>> # <<"revalidate", m>>
      OBVIOUS
    <3> QED
      BY <3>1, <3>2 DEF Caused
  <2>2. rapi'[m].state # "Invalidated"
    <3>1. rapi[m] \in SoundRapis /\ rapi'[m] = RapiOnRevalidate(rapi[m])
      BY <1>5 DEF RevalidateRAPI, Inv
    <3>2. \A k \in SoundRapis : RapiOnRevalidate(k).state # "Invalidated"
      BY RapiTable DEF RapiOnRevalidate, RapiFire, RapiAccepts, RapiMachine
    <3> QED
      BY <3>1, <3>2
  <2>3. InvalidatedHasCause'
    BY <1>3, <2>2 DEF InvalidatedHasCause
  <2> QED
    BY <1>2, <2>1, <2>3 DEF Caused
<1> QED
  BY <1>4, <1>5

\* Operations that tell nobody part what they make serve.
LEMMA UntoldCaused ==
  ASSUME Inv, Caused, TellsNobody
  PROVE  Caused'
BY StaysCaused DEF TellsNobody

\* So does a delete that freezes the machine and keeps the row.
LEMMA DeleteCaused ==
  ASSUME Inv, Caused, NEW m \in Rapis, DeleteFails(m)
  PROVE  Caused'
<1>1. pending' = pending /\ rrow' = rrow /\ \A n \in Rapis : n # m => rapi'[n] = rapi[n]
  BY DEF DeleteFails, Inv
<1>2. ~Serving(rrow[m]) \/ m \in parted'
  BY DEF DeleteFails
<1>3. \A n \in Rapis : n # m => (n \in parted' <=> n \in parted)
  BY DEF DeleteFails
<1> QED
  BY <1>1, <1>2, <1>3 DEF Caused, InvalidatedHasCause

\* Every step keeps the causes, as long as operators take turns.
LEMMA CausedNext == MaxPending = 1 /\ Inv /\ Caused /\ [Next]_vars => Caused'
<1> SUFFICES ASSUME MaxPending = 1, Inv, Caused, [Next]_vars PROVE Caused'
  OBVIOUS
<1>1. CASE UNCHANGED vars
  BY <1>1 DEF vars, Caused, InvalidatedHasCause
<1>2. ASSUME NEW k \in Keys, FixKey(k) PROVE Caused'
  BY <1>2 DEF FixKey, Caused, InvalidatedHasCause
<1>3. ASSUME NEW r \in Reqs, RequestMoves(r) PROVE Caused'
  BY <1>3, JudgedCaused, QuietlyCaused
<1>4. ASSUME NEW m \in Rapis, Restore(m) PROVE Caused'
  <2>1. RestoreTold(m) \/ TellsNobody
    BY <1>4 DEF Restore, RestoreTold
  <2> QED
    BY <2>1, FirstStepCaused, UntoldCaused
<1>5. ASSUME (\E m \in Rapis : SaveModel(m)) \/ ApplyBundle PROVE Caused'
  BY <1>5, UntoldCaused DEF SaveModel, ApplyBundle
<1>6. CASE Next
  BY <1>2, <1>3, <1>4, <1>5, <1>6, QuietlyCaused, FirstStepCaused, SecondStepCaused, DeleteCaused
  DEF Next, RequestMoves
<1> QED
  BY <1>1, <1>6

\* No RAPI is frozen in memory with a row that serves, but for an operation that
\* is outstanding or one of those that leave row and machine apart: no request,
\* probe, timer or round of the catalog adds one.
THEOREM CausesKnown == ASSUME MaxPending = 1 PROVE Spec => []InvalidatedHasCause
<1>1. Init => Caused
  BY DEF Init, Caused, InvalidatedHasCause, RapiFresh, RapiMachine
<1>2. Inv /\ Caused /\ [Next]_vars => Caused'
  BY CausedNext
<1>3. Caused => InvalidatedHasCause
  BY DEF Caused
<1> QED
  BY <1>1, <1>2, <1>3, InvInvariant, PTL DEF Spec
=============================================================================
