-------------------------- MODULE KeyHealthProofs --------------------------
(***************************************************************************)
(* Theorems about KeyHealth, for any number of keys and requests, any      *)
(* cooldowns and any moves of the operators.                               *)
(*                                                                         *)
(* The inductive invariant is Inv: every variable has its type and every   *)
(* machine is well-formed, that is, has its type and obeys the discipline  *)
(* of its timer.  The second half is not inductive on the types alone and  *)
(* needs nothing else: each operation on a machine maps well-formed        *)
(* machines to well-formed machines (the lemmas below), whoever calls it.  *)
(***************************************************************************)
EXTENDS KeyHealth, NaturalFacts

Disciplined(m) ==
  /\ m.state = "Cooling" => m.timer # NoTimer
  /\ m.timer # NoTimer => m.state \in {"Cooling", "PlatformFailed"}

WellFormed == {m \in KeyMachines : Disciplined(m)}

----------------------------------------------------------------------------
(* Timers.                                                                  *)

\* Timers are integers.
LEMMA TimersAreIntegers == Timers \subseteq Int
BY DEF Timers, NoTimer

\* Whatever the scheduler cools a key for is a timer.
LEMMA CooldownsAreTimers ==
  \A c \in Cooldowns : c \in Timers /\ c # NoTimer
BY CooldownAssumption DEF Cooldowns, Timers, NoTimer

\* No timer, and an elapsed one, are timers.
LEMMA SpecialTimers == NoTimer \in Timers /\ 0 \in Timers
BY DEF Timers, NoTimer

\* The clock keeps timers timers.
LEMMA CountDownTimers ==
  ASSUME NEW t \in Timers
  PROVE  CountDown(t) \in Timers /\ (CountDown(t) = NoTimer <=> t = NoTimer)
BY CooldownAssumption DEF CountDown, Timers, NoTimer, Cooldowns

\* The earliest of a set of times is one of them, or there is none.
LEMMA EarliestIsOne ==
  ASSUME NEW S, S \subseteq Nat
  PROVE  /\ Earliest(S) \in S \cup {NoTimer}
         /\ S # {} => Earliest(S) \in S
<1>1. CASE S = {}
  BY <1>1 DEF Earliest
<1>2. CASE S # {}
  BY <1>2, LeastNatural DEF Earliest
<1> QED
  BY <1>1, <1>2

\* The earliest of a set of recovery times is one of them, or there is none.
LEMMA EarliestIsTimer ==
  ASSUME NEW S, S \subseteq Timers \ {NoTimer}
  PROVE  Earliest(S) \in S \cup {NoTimer}
<1>1. S \subseteq Nat
  BY DEF Timers
<1> QED
  BY <1>1, EarliestIsOne

----------------------------------------------------------------------------
(* The transition tables.                                                   *)

\* The table of a credential.
LEMMA Table ==
  /\ KeySources["SessionFailure"] = {"Healthy", "Cooling"}
  /\ KeySources["PlatformFailure"] = {"Healthy", "Cooling", "PlatformFailed"}
  /\ KeySources["PermanentFailure"] = {"Healthy", "Cooling", "PlatformFailed"}
  /\ KeySources["Disable"] = KeyStates \ {"Disabled"}
  /\ KeySources["Expire"] = KeyStates \ {"Expired"}
  /\ KeySources["Enable"] = KeyDead
  /\ KeySources["Success"] = KeyStates \ {"Disabled", "Expired"}
  /\ KeySources["TimerExpired"] = {"Cooling", "PlatformFailed"}
  /\ KeyTarget["SessionFailure"] = "Cooling"
  /\ KeyTarget["PlatformFailure"] = "PlatformFailed"
  /\ KeyTarget["PermanentFailure"] = "PermanentFailed"
  /\ KeyTarget["Disable"] = "Disabled"
  /\ KeyTarget["Expire"] = "Expired"
  /\ KeyTarget["Enable"] = "Healthy"
  /\ KeyTarget["Success"] = "Healthy"
  /\ KeyTarget["TimerExpired"] = "Healthy"
BY DEF KeySources, KeyTarget, KeyEvents

----------------------------------------------------------------------------
(* Machines.                                                                *)

\* A fresh machine is well formed.
LEMMA FreshWellFormed == Fresh \in WellFormed
BY SpecialTimers DEF Fresh, Machine, WellFormed, Disciplined, KeyMachines, KeyStates

\* A success keeps a machine well formed.
LEMMA SuccessWellFormed ==
  ASSUME NEW m \in WellFormed
  PROVE  KeyOnSuccess(m) \in WellFormed
BY Table, SpecialTimers
DEF KeyOnSuccess, KeyFire, KeyAccepts, Machine, WellFormed, Disciplined, KeyMachines, KeyStates

\* A session failure keeps a machine well formed.
LEMMA SessionFailureWellFormed ==
  ASSUME NEW m \in WellFormed, NEW c \in Cooldowns
  PROVE  KeyOnSessionFailure(m, c) \in WellFormed
BY Table, CooldownsAreTimers
DEF KeyOnSessionFailure, KeyFire, KeyAccepts, Machine, WellFormed, Disciplined,
    KeyMachines, KeyStates

\* A platform failure keeps a machine well formed.
LEMMA PlatformFailureWellFormed ==
  ASSUME NEW m \in WellFormed
  PROVE  KeyOnPlatformFailure(m) \in WellFormed
BY Table
DEF KeyOnPlatformFailure, KeyFire, KeyAccepts, Machine, WellFormed, Disciplined,
    KeyMachines, KeyStates

\* An elapsed timer keeps a machine well formed.
LEMMA AdvanceWellFormed ==
  ASSUME NEW m \in WellFormed
  PROVE  KeyAdvance(m) \in WellFormed
BY Table, SpecialTimers
DEF KeyAdvance, KeyFire, KeyAccepts, Machine, WellFormed, Disciplined, KeyMachines,
    KeyStates, NoTimer

\* The alignment to a pool keeps a machine well formed.
LEMMA AlignWellFormed ==
  ASSUME NEW m \in WellFormed, NEW t \in Timers, t # NoTimer
  PROVE  KeyAlign(m, t) \in WellFormed
BY DEF KeyAlign, Machine, WellFormed, Disciplined, KeyMachines, KeyStates

\* The lazy advance of Pickable keeps a machine well formed.
LEMMA TouchedWellFormed ==
  ASSUME NEW m \in WellFormed
  PROVE  KeyTouched(m) \in WellFormed
BY AdvanceWellFormed DEF KeyTouched

\* The reconciliation with a row keeps a machine well formed.
LEMMA SyncWellFormed ==
  ASSUME NEW m \in WellFormed, NEW w \in Rows
  PROVE  KeySync(m, w) \in WellFormed
<1>1. \A e \in {"Disable", "Expire", "PermanentFailure"} : KeyOnRowFact(m, e) \in WellFormed
  BY Table, SpecialTimers
  DEF KeyOnRowFact, KeyFire, KeyAccepts, Machine, WellFormed, Disciplined, KeyMachines, KeyStates
<1>2. KeyFire(m, "Enable", m.timer) \in WellFormed
  BY Table
  DEF KeyFire, KeyAccepts, Machine, WellFormed, Disciplined, KeyMachines, KeyStates, KeyDead
<1> QED
  BY <1>1, <1>2 DEF KeySync, RowUsable, Rows

\* The recovery time of a machine is a timer.
LEMMA RecoverAtIsTimer ==
  ASSUME NEW m \in WellFormed
  PROVE  KeyRecoverAt(m) \in Timers
BY SpecialTimers DEF KeyRecoverAt, WellFormed, KeyMachines

\* The clock keeps a machine well formed.
LEMMA CountDownWellFormed ==
  ASSUME NEW m \in WellFormed
  PROVE  Machine(m.state, CountDown(m.timer)) \in WellFormed
BY CountDownTimers DEF Machine, WellFormed, Disciplined, KeyMachines

----------------------------------------------------------------------------
(* The inductive invariant.                                                 *)

Types ==
  /\ row \in [Keys -> Rows]
  /\ req \in [Reqs -> Requests]
  /\ pending \subseteq {"clear", "drop", "rebuild"} \X Keys
  /\ unwritten \subseteq Keys

Inv ==
  /\ key \in [Machines -> WellFormed]
  /\ Types
  /\ \A r \in Reqs : req[r].pc = "sent" => req[r].key \in Machines

\* The constant rows are rows.
LEMMA RowConstants == NoRow \in Rows /\ FreshRow \in Rows
BY DEF NoRow, FreshRow, Rows

\* An idle request is a request.
LEMMA IdleIsRequest == Idle \in Requests
BY RowConstants, SpecialTimers DEF Idle, Requests

\* The inductive invariant holds initially.
LEMMA InvInit == Init => Inv
<1> SUFFICES ASSUME Init PROVE Inv
  OBVIOUS
<1>1. key \in [Machines -> WellFormed]
  BY FreshWellFormed DEF Init
<1>2. [FreshRow EXCEPT !.exp = "ahead"] \in Rows
  BY DEF FreshRow, Rows
<1>3. row \in [Keys -> Rows]
  BY <1>2, RowConstants DEF Init
<1>4. req \in [Reqs -> Requests] /\ \A r \in Reqs : req[r].pc # "sent"
  BY IdleIsRequest DEF Init, Idle
<1> QED
  BY <1>1, <1>3, <1>4 DEF Init, Inv, Types

(* What the steps share.                                                    *)

\* Persisting a failure type keeps the rows rows.
LEMMA PersistTypes ==
  ASSUME Inv, NEW k, NEW f \in {0, 1, 2}, Persist(k, f)
  PROVE  row' \in [Keys -> Rows]
<1>1. \A j \in Keys : [row[j] EXCEPT !.ft = f] \in Rows
  BY DEF Inv, Types, Rows
<1> QED
  BY <1>1 DEF Persist, Inv, Types

\* So does an effect, whether its write fails or not.
LEMMA EffectTypes ==
  ASSUME Inv, NEW k, NEW f \in {0, 1, 2},
         Effect(k, f) \/ UNCHANGED <<row, unwritten>>
  PROVE  row' \in [Keys -> Rows] /\ unwritten' \subseteq Keys
<1>1. CASE Persist(k, f) /\ unwritten' = unwritten \ {k}
  BY <1>1, PersistTypes DEF Inv, Types
<1>2. CASE UNCHANGED row /\ unwritten' \in {unwritten \cup ({k} \cap Keys), unwritten \ {k}}
  BY <1>2 DEF Inv, Types
<1>3. CASE UNCHANGED <<row, unwritten>>
  BY <1>3 DEF Inv, Types
<1> QED
  BY <1>1, <1>2, <1>3 DEF Effect

\* A request chooses among machines, by rows.
LEMMA PoolTypes ==
  ASSUME Inv, NEW r \in Reqs
  PROVE  /\ Pool(r) \subseteq Machines
         /\ \A k \in Machines : SnapRow(r, k) \in Rows
<1>1. req[r].snap \in [Keys -> Rows]
  BY DEF Inv, Types, Requests
<1> QED
  BY <1>1, RowConstants DEF Pool, SnapRow, Machines

\* A machine that a request has synced is well formed.
LEMMA SyncedTypes ==
  ASSUME Inv, NEW r \in Reqs, NEW k \in Machines
  PROVE  Synced(r, k) \in WellFormed /\ KeyTouched(Synced(r, k)) \in WellFormed
<1>1. key[k] \in WellFormed /\ SnapRow(r, k) \in Rows
  BY PoolTypes DEF Inv
<1>2. Synced(r, k) \in WellFormed
  BY <1>1, SyncWellFormed DEF Synced
<1> QED
  BY <1>2, TouchedWellFormed

\* A request that is replaced by one of its type leaves the requests typed.
LEMMA RequestTypes ==
  ASSUME Inv, NEW r \in Reqs, NEW q \in Requests,
         req' = [req EXCEPT ![r] = q], q.pc = "sent" => q.key \in Machines
  PROVE  /\ req' \in [Reqs -> Requests]
         /\ \A s \in Reqs : req'[s].pc = "sent" => req'[s].key \in Machines
BY DEF Inv, Types

\* A request that tries again is a request.
LEMMA RetryTypes ==
  ASSUME Inv, NEW r \in Reqs, Retry(r)
  PROVE  /\ req' \in [Reqs -> Requests]
         /\ \A s \in Reqs : req'[s].pc = "sent" => req'[s].key \in Machines
<1> DEFINE q == [req[r] EXCEPT !.pc = "ready", !.key = NoKey]
<1>1. q \in Requests /\ q.pc = "ready"
  BY DEF Inv, Types, Requests
<1>2. req' = [req EXCEPT ![r] = q]
  BY DEF Retry, Inv, Types
<1> QED
  BY <1>1, <1>2, RequestTypes

\* A machine of the key map is well formed.
LEMMA MachineTypes ==
  ASSUME Inv, NEW k, NEW m \in WellFormed, key' = [key EXCEPT ![k] = m]
  PROVE  key' \in [Machines -> WellFormed]
BY DEF Inv

(* One lemma for the steps of each actor.                                   *)

\* Loading the rows preserves the invariant.
LEMMA LoadStep == ASSUME Inv, NEW r \in Reqs, Load(r) PROVE Inv'
<1> DEFINE q == [Idle EXCEPT !.pc = "ready", !.snap = row]
<1>1. q \in Requests /\ q.pc = "ready"
  BY IdleIsRequest DEF Idle, Requests, Inv, Types
<1>2. req' = [req EXCEPT ![r] = q]
  BY DEF Load
<1> QED
  BY <1>1, <1>2, RequestTypes DEF Load, Inv, Types

\* Picking a key preserves the invariant.
LEMMA PickKeyStep == ASSUME Inv, NEW r \in Reqs, PickKey(r) PROVE Inv'
<1>1. PICK k \in Pool(r) :
        /\ \E skipped \in SUBSET {j \in Pool(r) : ~KeyServes(Synced(r, j))} :
             key' = [j \in Machines |->
                       IF j \in skipped \cup {k} THEN KeyTouched(Synced(r, j)) ELSE key[j]]
        /\ req' = [req EXCEPT ![r].pc = "sent", ![r].key = k]
  BY DEF PickKey
<1>2. key' \in [Machines -> WellFormed]
  BY <1>1, SyncedTypes DEF Inv
<1> DEFINE q == [req[r] EXCEPT !.pc = "sent", !.key = k]
<1>3. q \in Requests /\ q.key \in Machines
  BY PoolTypes DEF Inv, Types, Requests
<1>4. req' = [req EXCEPT ![r] = q]
  BY <1>1 DEF Inv, Types
<1> QED
  BY <1>2, <1>3, <1>4, RequestTypes DEF PickKey, StillUnwritten, Inv, Types

\* Finding no key preserves the invariant.
LEMMA PickNoneStep == ASSUME Inv, NEW r \in Reqs, PickNone(r) PROVE Inv'
<1> DEFINE S == {KeyRecoverAt(Synced(r, k)) : k \in Pool(r)} \ {NoTimer}
<1>1. key' \in [Machines -> WellFormed]
  BY SyncedTypes DEF PickNone, Inv
<1>2. S \subseteq Timers \ {NoTimer}
  BY PoolTypes, SyncedTypes, RecoverAtIsTimer
<1>3. Earliest(S) \in Timers
  <2> HIDE DEF S
  <2>1. Earliest(S) \in S \cup {NoTimer}
    BY <1>2, EarliestIsTimer
  <2> QED
    BY <1>2, <2>1, SpecialTimers
<1> DEFINE q == [req[r] EXCEPT !.pc = "exhausted", !.until = Earliest(S)]
<1>4. q \in Requests /\ q.pc = "exhausted"
  <2> HIDE DEF S
  <2> QED BY <1>3 DEF Inv, Types, Requests
<1>5. req' = [req EXCEPT ![r] = q]
  BY DEF PickNone, Inv, Types
<1> QED
  <2> HIDE DEF q
  <2> QED BY <1>1, <1>4, <1>5, RequestTypes DEF PickNone, StillUnwritten, Inv, Types

\* Aligning the pool preserves the invariant.
LEMMA EscalateStep == ASSUME Inv, NEW r \in Reqs, Escalate(r) PROVE Inv'
<1>1. req[r].until \in Timers
  BY DEF Inv, Types, Requests
<1>2. key' \in [Machines -> WellFormed]
  <2>1. \A k \in Machines : req[r].until # NoTimer
          => KeyAlign(key[k], req[r].until) \in WellFormed
    BY <1>1, AlignWellFormed DEF Inv
  <2> QED
    BY <2>1 DEF Escalate, Inv
<1> DEFINE q == [req[r] EXCEPT !.pc = "ready", !.until = NoTimer]
<1>3. q \in Requests /\ q.pc = "ready"
  BY SpecialTimers DEF Inv, Types, Requests
<1>4. req' = [req EXCEPT ![r] = q] \/ req' = [req EXCEPT ![r] = Idle]
  BY DEF Escalate, Inv, Types
<1>5. Idle.pc # "sent"
  BY DEF Idle
<1> QED
  BY <1>2, <1>3, <1>4, <1>5, IdleIsRequest, RequestTypes DEF Escalate, Inv, Types

\* Every answer of the upstream preserves the invariant.
LEMMA AnswerStep == ASSUME Inv, NEW r \in Reqs, Answer(r) PROVE Inv'
<1> DEFINE k == Held(r)
<1>1. k \in Machines /\ key[k] \in WellFormed
  BY DEF Answer, Success, NetworkFailure, TemporaryFailure, PlatformFailure, Held, Inv
<1>2. CASE Success(r)
  <2>1. key' \in [Machines -> WellFormed]
    BY <1>1, <1>2, SuccessWellFormed, MachineTypes DEF Success, Inv
  <2>2. row' \in [Keys -> Rows] /\ unwritten' \subseteq Keys
    BY <1>2, EffectTypes DEF Success
  <2>3. Idle.pc # "sent"
    BY DEF Idle
  <2> QED
    BY <1>2, <2>1, <2>2, <2>3, IdleIsRequest, RequestTypes DEF Success, Inv, Types
<1>3. CASE NetworkFailure(r)
  <2>1. key' \in [Machines -> WellFormed]
    BY <1>1, <1>3, SessionFailureWellFormed DEF NetworkFailure, Inv, Cooldowns
  <2> QED
    BY <1>3, <2>1, RetryTypes DEF NetworkFailure, Inv, Types
<1>4. CASE TemporaryFailure(r)
  <2>1. key' \in [Machines -> WellFormed]
    BY <1>1, <1>4, SessionFailureWellFormed DEF TemporaryFailure, Inv, Cooldowns
  <2>2. row' \in [Keys -> Rows] /\ unwritten' \subseteq Keys
    BY <1>4, EffectTypes DEF TemporaryFailure
  <2> QED
    BY <1>4, <2>1, <2>2, RetryTypes DEF TemporaryFailure, Inv, Types
<1>5. CASE PlatformFailure(r)
  <2>1. key' \in [Machines -> WellFormed]
    BY <1>1, <1>5, PlatformFailureWellFormed DEF PlatformFailure, Inv
  <2>2. row' \in [Keys -> Rows] /\ unwritten' \subseteq Keys
    BY <1>5, EffectTypes DEF PlatformFailure
  <2> QED
    BY <1>5, <2>1, <2>2, RetryTypes DEF PlatformFailure, Inv, Types
<1> QED
  BY <1>2, <1>3, <1>4, <1>5 DEF Answer

\* Neither the recovery loop nor the clock breaks the invariant.
LEMMA ClockStep == ASSUME Inv, RecoveryLoop \/ Tick PROVE Inv'
<1>1. \A k \in Machines : key[k] \in WellFormed
  BY DEF Inv
<1>2. CASE RecoveryLoop
  BY <1>1, <1>2, AdvanceWellFormed DEF RecoveryLoop, StillUnwritten, Inv, Types
<1>3. CASE Tick
  <2>1. key' \in [Machines -> WellFormed]
    BY <1>1, <1>3, CountDownWellFormed DEF Tick
  <2>2. ASSUME NEW r \in Reqs
        PROVE  /\ req'[r] \in Requests
               /\ req'[r].pc = req[r].pc /\ req'[r].key = req[r].key
    <3>1. req[r] \in Requests /\ CountDown(req[r].until) \in Timers
      BY CountDownTimers DEF Inv, Types, Requests
    <3>2. req'[r] = [req[r] EXCEPT !.until = CountDown(req[r].until)]
      BY <1>3 DEF Tick
    <3> QED
      BY <3>1, <3>2 DEF Requests
  <2> QED
    BY <1>3, <2>1, <2>2 DEF Tick, Inv, Types
<1> QED
  BY <1>2, <1>3

\* A row past its expiry is a row.
LEMMA LapseTypes == ASSUME NEW w \in Rows PROVE Lapse(w) \in Rows
BY DEF Lapse, Rows

\* The expiry of a row preserves the invariant.
LEMMA ExpiryStep == ASSUME Inv, NEW k \in Keys, ExpiryPasses(k) PROVE Inv'
<1>1. row' \in [Keys -> Rows]
  BY LapseTypes DEF ExpiryPasses, Inv, Types
<1>2. ASSUME NEW r \in Reqs
      PROVE  /\ req'[r] = [req[r] EXCEPT !.snap = [req[r].snap EXCEPT ![k] = Lapse(req[r].snap[k])]]
             /\ req'[r] \in Requests
             /\ req'[r].pc = req[r].pc /\ req'[r].key = req[r].key
  <2>1. req[r] \in Requests /\ Lapse(req[r].snap[k]) \in Rows
    BY LapseTypes DEF Inv, Types, Requests
  <2>2. req'[r] = [req[r] EXCEPT !.snap = [req[r].snap EXCEPT ![k] = Lapse(req[r].snap[k])]]
    BY DEF ExpiryPasses, Inv, Types
  <2> QED
    BY <2>1, <2>2 DEF Requests
<1>3. req' = [r \in Reqs |-> req'[r]]
  BY DEF ExpiryPasses
<1> QED
  BY <1>1, <1>2, <1>3 DEF ExpiryPasses, Inv, Types

\* Every operator's move preserves the invariant.
LEMMA OperatorStep ==
  ASSUME Inv, NEW k \in Keys,
         \/ EditKey(k) \/ DeleteRow(k) \/ RemoveKey(k)
         \/ ProbeClearsRow(k) \/ ProbeMarksSuccess(k)
  PROVE  Inv'
<1>1. key[k] \in WellFormed
  BY DEF Inv, Machines
<1>2. CASE EditKey(k)
  <2>1. \A e \in BOOLEAN, x \in {row[k].exp, "none"} :
          [row[k] EXCEPT !.enabled = e, !.exp = x] \in Rows
    BY ZenonT(60) DEF Inv, Types, Rows
  <2>2. row' \in [Keys -> Rows]
    BY <1>2, <2>1 DEF EditKey, Inv, Types
  <2> QED
    BY <1>2, <2>2 DEF EditKey, Inv, Types
<1>3. CASE DeleteRow(k)
  BY <1>3, RowConstants DEF DeleteRow, Inv, Types
<1>4. CASE RemoveKey(k)
  BY <1>4, FreshWellFormed DEF RemoveKey, StillUnwritten, Inv, Types
<1>5. CASE ProbeClearsRow(k)
  BY <1>5, PersistTypes DEF ProbeClearsRow, Inv, Types
<1>6. CASE ProbeMarksSuccess(k)
  <2>1. key' \in [Machines -> WellFormed]
    BY <1>1, <1>6, SuccessWellFormed DEF ProbeMarksSuccess, Inv
  <2>2. row' \in [Keys -> Rows] /\ unwritten' \subseteq Keys
    BY <1>6, EffectTypes DEF ProbeMarksSuccess
  <2> QED
    BY <1>6, <2>1, <2>2 DEF ProbeMarksSuccess, Inv, Types
<1> QED
  BY <1>2, <1>3, <1>4, <1>5, <1>6

\* A bundle preserves the invariant.
LEMMA BundleStep == ASSUME Inv, ApplyBundle PROVE Inv'
<1>1. \A k \in Keys : [row[k] EXCEPT !.ft = 0] \in Rows
  BY DEF Inv, Types, Rows
<1> QED
  BY <1>1 DEF ApplyBundle, Inv, Types

\* Every step preserves the invariant.
LEMMA InvStep == Inv /\ [Next]_vars => Inv'
<1> SUFFICES ASSUME Inv, [Next]_vars PROVE Inv'
  OBVIOUS
<1>1. ASSUME NEW r \in Reqs, Load(r) \/ PickKey(r) \/ PickNone(r) \/ Escalate(r) \/ Answer(r)
      PROVE  Inv'
  BY <1>1, LoadStep, PickKeyStep, PickNoneStep, EscalateStep, AnswerStep
<1>2. ASSUME NEW k \in Keys, \/ ExpiryPasses(k) \/ EditKey(k) \/ DeleteRow(k) \/ RemoveKey(k)
                             \/ ProbeClearsRow(k) \/ ProbeMarksSuccess(k)
      PROVE  Inv'
  BY <1>2, ExpiryStep, OperatorStep
<1>3. CASE UNCHANGED vars
  BY <1>3 DEF vars, Inv, Types
<1> QED
  BY <1>1, <1>2, <1>3, ClockStep, BundleStep DEF Next

----------------------------------------------------------------------------
\* The inductive invariant holds in every reachable state: every variable keeps
\* its type, every machine has a timer exactly where its state asks for one, and
\* a request that has sent holds a key.
THEOREM InvInvariant == Spec => []Inv
BY InvInit, InvStep, PTL DEF Spec

\* Every variable keeps its type whatever requests, operators and sync do.
THEOREM TypeCorrect == Spec => []TypeOK
<1>1. Inv => TypeOK
  BY DEF Inv, Types, TypeOK, WellFormed
<1> QED
  BY <1>1, InvInvariant, PTL

\* No interleaving leaves a key cooling for good, nor arms a timer that would
\* revive a key its row has put out of service.
THEOREM TimersDisciplined == Spec => []TimerDiscipline
<1>1. Inv => TimerDiscipline
  BY DEF Inv, TimerDiscipline, WellFormed, Disciplined
<1> QED
  BY <1>1, InvInvariant, PTL

----------------------------------------------------------------------------
(* What a key handed out is.                                                *)

\* A machine that serves after a sync was given a usable row, had no cooldown
\* running, and is as good as new.
LEMMA ServingMachine ==
  ASSUME NEW m \in WellFormed, NEW w \in Rows, KeyServes(KeySync(m, w))
  PROVE  RowUsable(w) /\ ~Running(m) /\ KeyTouched(KeySync(m, w)) = Fresh
<1>1. ASSUME NEW e \in {"Disable", "Expire", "PermanentFailure"}
      PROVE  ~KeyServes(KeyOnRowFact(m, e))
  BY Table
  DEF KeyOnRowFact, KeyFire, KeyAccepts, KeyServes, KeyTouched, KeyAdvance, Machine,
      WellFormed, Disciplined, KeyMachines, KeyStates, NoTimer
<1>2. RowUsable(w)
  BY <1>1 DEF KeySync, RowUsable, Rows
<1>3. KeySync(m, w) = KeyFire(m, "Enable", m.timer)
  BY <1>2 DEF KeySync, RowUsable, Rows
<1>4. CASE m.state \in KeyDead
  <2>1. m.timer = NoTimer /\ KeySync(m, w) = Fresh
    BY <1>3, <1>4, Table
    DEF KeyFire, KeyAccepts, KeyDead, Fresh, Machine, WellFormed, Disciplined
  <2> QED
    BY <1>2, <2>1 DEF KeyTouched, Running, NoTimer, Fresh, Machine
<1>5. CASE m.state \notin KeyDead
  <2>1. KeySync(m, w) = m
    BY <1>3, <1>5, Table DEF KeyFire, KeyAccepts
  <2>2. m.state = "Healthy" => m = Fresh
    BY DEF WellFormed, Disciplined, KeyMachines, Fresh, Machine
  <2>3. m.state \in {"Cooling", "PlatformFailed"} => ~Running(m) /\ KeyTouched(m) = Fresh
    BY <2>1, Table
    DEF KeyServes, KeyTouched, KeyAdvance, KeyFire, KeyAccepts, Machine, Fresh, WellFormed,
        Disciplined, KeyMachines, KeyStates
  <2>4. m.state \in {"Healthy", "Cooling", "PlatformFailed"}
    BY <1>5 DEF WellFormed, KeyMachines, KeyStates, KeyDead
  <2> QED
    BY <1>2, <2>1, <2>2, <2>3, <2>4 DEF KeyTouched, Running, NoTimer, Fresh, Machine
<1> QED
  BY <1>4, <1>5

\* A request starts to hold a key in one way.
LEMMA OnlyPickSends ==
  ASSUME Inv, [Next]_vars, NEW r \in Reqs, req[r].pc # "sent", req'[r].pc = "sent"
  PROVE  PickKey(r)
<1>1. ASSUME NEW s \in Reqs, Load(s) PROVE req'[r].pc # "sent"
  BY <1>1 DEF Load, Idle, Inv, Types
<1>2. ASSUME NEW s \in Reqs, PickKey(s) PROVE s = r
  BY <1>2 DEF PickKey, Inv, Types
<1>3. ASSUME NEW s \in Reqs, PickNone(s) PROVE req'[r].pc # "sent"
  BY <1>3 DEF PickNone, Inv, Types, Requests
<1>4. ASSUME NEW s \in Reqs, Escalate(s) PROVE req'[r].pc # "sent"
  <2>1. \/ req' = [req EXCEPT ![s].pc = "ready", ![s].until = NoTimer]
        \/ req' = [req EXCEPT ![s] = Idle]
    BY <1>4 DEF Escalate
  <2>2. req \in [Reqs -> Requests] /\ Idle.pc # "sent"
    BY DEF Idle, Inv, Types
  <2>3. CASE req' = [req EXCEPT ![s].pc = "ready", ![s].until = NoTimer]
    BY <2>2, <2>3 DEF Requests
  <2>4. CASE req' = [req EXCEPT ![s] = Idle]
    BY <2>2, <2>4
  <2> QED
    BY <2>1, <2>3, <2>4
<1>5. ASSUME NEW s \in Reqs, Answer(s) PROVE req'[r].pc # "sent"
  BY <1>5 DEF Answer, Success, NetworkFailure, TemporaryFailure, PlatformFailure, Retry,
              Idle, Inv, Types, Requests
<1>6. CASE Tick
  BY <1>6 DEF Tick, Inv, Types, Requests
<1>7. ASSUME NEW k \in Keys, ExpiryPasses(k) PROVE req'[r].pc # "sent"
  BY <1>7 DEF ExpiryPasses, Inv, Types, Requests
<1>8. UNCHANGED req => req'[r].pc # "sent"
  OBVIOUS
<1> QED
  BY <1>1, <1>2, <1>3, <1>4, <1>5, <1>6, <1>7, <1>8
  DEF Next, RecoveryLoop, EditKey, DeleteRow, RemoveKey, ProbeClearsRow, ProbeMarksSuccess,
      ApplyBundle, vars

\* Whatever the other requests did to the machine, a key is handed out only
\* with a row its request believes usable and no cooldown running.
THEOREM ServableKeysOnly == Spec => OnlyServableKeysHandedOut
<1> DEFINE HandsOut(r) == LET k == req'[r].key
                          IN  /\ RowUsable(SnapRow(r, k))
                              /\ ~Running(key[k])
                              /\ key'[k] = Fresh
<1>1. ASSUME Inv, [Next]_vars, NEW r \in Reqs, req[r].pc # "sent", req'[r].pc = "sent"
      PROVE  HandsOut(r)
  <2>1. PickKey(r)
    BY <1>1, OnlyPickSends
  <2>2. PICK k \in Pool(r) :
          /\ KeyServes(Synced(r, k))
          /\ key'[k] = KeyTouched(Synced(r, k))
          /\ req'[r].key = k
    <3>1. PICK k \in Pool(r) :
            /\ KeyServes(Synced(r, k))
            /\ \E skipped \in SUBSET {j \in Pool(r) : ~KeyServes(Synced(r, j))} :
                 key' = [j \in Machines |->
                           IF j \in skipped \cup {k} THEN KeyTouched(Synced(r, j)) ELSE key[j]]
            /\ req' = [req EXCEPT ![r].pc = "sent", ![r].key = k]
      BY <2>1 DEF PickKey
    <3>2. k \in Machines
      BY <1>1, PoolTypes
    <3>3. key'[k] = KeyTouched(Synced(r, k))
      BY <3>1, <3>2
    <3>4. req'[r].key = k
      BY <1>1, <3>1 DEF Inv, Types, Requests
    <3> QED
      BY <3>1, <3>3, <3>4
  <2>3. k \in Machines /\ key[k] \in WellFormed /\ SnapRow(r, k) \in Rows
    BY <1>1, PoolTypes DEF Inv
  <2> QED
    BY <2>2, <2>3, ServingMachine DEF Synced
<1>2. Inv /\ [Next]_vars
      => [\A r \in Reqs : req[r].pc # "sent" /\ req'[r].pc = "sent" => HandsOut(r)]_vars
  BY <1>1
<1> QED
  BY <1>2, InvInvariant, PTL DEF Spec, OnlyServableKeysHandedOut

----------------------------------------------------------------------------
(* Who enters PlatformFailed, and who leaves a dead state.                  *)

\* Syncing and examining a key never puts it into PlatformFailed, and takes it
\* out of a dead state only if the row is usable.
LEMMA ExaminedStates ==
  ASSUME NEW m \in WellFormed, NEW w \in Rows
  PROVE  LET n == KeyTouched(KeySync(m, w))
         IN  /\ n.state = "PlatformFailed" => m.state = "PlatformFailed"
             /\ m.state \in KeyDead /\ n.state \notin KeyDead => RowUsable(w)
<1>1. ASSUME NEW e \in {"Disable", "Expire", "PermanentFailure"}
      PROVE  LET n == KeyOnRowFact(m, e)
             IN  /\ n.state = "PlatformFailed" => m.state = "PlatformFailed"
                 /\ m.state \in KeyDead => n.state \in KeyDead
  BY Table
  DEF KeyOnRowFact, KeyFire, KeyAccepts, Machine, WellFormed, KeyMachines, KeyStates, KeyDead
<1>2. LET n == KeyFire(m, "Enable", m.timer)
      IN  n.state = "PlatformFailed" => m.state = "PlatformFailed"
  BY Table DEF KeyFire, KeyAccepts, Machine
<1>3. LET n == KeySync(m, w)
      IN  /\ n.state = "PlatformFailed" => m.state = "PlatformFailed"
          /\ m.state \in KeyDead /\ n.state \notin KeyDead => RowUsable(w)
  BY <1>1, <1>2 DEF KeySync, RowUsable, Rows
<1>4. ASSUME NEW n \in WellFormed
      PROVE  /\ KeyTouched(n).state = "PlatformFailed" => n.state = "PlatformFailed"
             /\ n.state \in KeyDead => KeyTouched(n) = n
  BY Table DEF KeyTouched, KeyAdvance, KeyFire, KeyAccepts, Machine, KeyDead
<1>5. KeySync(m, w) \in WellFormed
  BY SyncWellFormed
<1> QED
  BY <1>3, <1>4, <1>5

\* The same for the other events, but Success, which revives, and
\* PlatformFailure, which enters.
LEMMA EventStates ==
  ASSUME NEW m \in WellFormed, NEW c \in Timers
  PROVE  \A n \in {KeyOnSessionFailure(m, c), KeyAdvance(m), KeyAlign(m, c),
                   Machine(m.state, c)} :
           /\ n.state = "PlatformFailed" => m.state = "PlatformFailed"
           /\ m.state \in KeyDead => n.state \in KeyDead
BY Table
DEF KeyOnSessionFailure, KeyAdvance, KeyAlign, KeyFire, KeyAccepts, Machine, KeyDead,
    WellFormed, KeyMachines

\* What a step may do to the machine of one key.
Entered(k) == key[k].state # "PlatformFailed" /\ key'[k].state = "PlatformFailed"
Revived(k) == key[k].state \in KeyDead /\ key'[k].state \notin KeyDead

\* The two picks revive a dead key only with a usable row.
LEMMA PickStates ==
  ASSUME Inv, NEW r \in Reqs, PickKey(r) \/ PickNone(r), NEW k \in Machines
  PROVE  /\ ~Entered(k)
         /\ Revived(k) => req[r].pc = "ready" /\ k \in Pool(r) /\ RowUsable(SnapRow(r, k))
<1>1. key[k] \in WellFormed /\ SnapRow(r, k) \in Rows
  BY PoolTypes DEF Inv
<1>2. \/ key'[k] = key[k]
      \/ k \in Pool(r) /\ key'[k] = KeyTouched(KeySync(key[k], SnapRow(r, k)))
  BY DEF PickKey, PickNone, Synced
<1>3. req[r].pc = "ready"
  BY DEF PickKey, PickNone
<1> QED
  BY <1>1, <1>2, <1>3, ExaminedStates DEF Entered, Revived

\* The alignment revives no dead key.
LEMMA EscalateStates ==
  ASSUME Inv, NEW r \in Reqs, Escalate(r), NEW k \in Machines
  PROVE  ~Entered(k) /\ ~Revived(k)
<1>1. key[k] \in WellFormed /\ req[r].until \in Timers
  BY DEF Inv, Types, Requests
<1>2. key'[k] \in {key[k], KeyAlign(key[k], req[r].until)}
  BY DEF Escalate
<1> QED
  BY <1>1, <1>2, EventStates DEF Entered, Revived

\* No failure report revives a dead key.
LEMMA FailureStates ==
  ASSUME Inv, NEW r \in Reqs, NetworkFailure(r) \/ TemporaryFailure(r), NEW k \in Machines
  PROVE  ~Entered(k) /\ ~Revived(k)
<1>1. key[k] \in WellFormed
  BY DEF Inv
<1>2. \E c \in Cooldowns : key'[k] \in {key[k], KeyOnSessionFailure(key[k], c)}
  BY DEF NetworkFailure, TemporaryFailure, Cooldowns, Inv
<1> QED
  BY <1>1, <1>2, CooldownsAreTimers, EventStates DEF Entered, Revived

\* Neither the recovery loop nor the clock revives a dead key.
LEMMA ClockStates ==
  ASSUME Inv, RecoveryLoop \/ Tick, NEW k \in Machines
  PROVE  ~Entered(k) /\ ~Revived(k)
<1>1. key[k] \in WellFormed /\ key[k].timer \in Timers
  BY DEF Inv, WellFormed, KeyMachines
<1>2. key'[k] \in {KeyAdvance(key[k]), Machine(key[k].state, CountDown(key[k].timer))}
  BY DEF RecoveryLoop, Tick
<1> QED
  BY <1>1, <1>2, CountDownTimers, EventStates DEF Entered, Revived

\* A dead key comes back only on evidence.
THEOREM RevivalNeedsEvidence == Spec => RevivedOnEvidence
<1> DEFINE Evidence(k) ==
      \/ \E r \in Reqs : req[r].pc = "ready" /\ k \in Pool(r) /\ RowUsable(SnapRow(r, k))
      \/ \E r \in Reqs : req[r].pc = "sent" /\ Held(r) = k /\ req'[r].pc = "idle"
      \/ pending' # pending
<1>1. ASSUME Inv, [Next]_vars, NEW k \in Machines, Revived(k)
      PROVE  Evidence(k)
  <2>1. ASSUME NEW r \in Reqs, PickKey(r) \/ PickNone(r) PROVE Evidence(k)
    BY <1>1, <2>1, PickStates
  <2>2. ASSUME NEW r \in Reqs, Success(r) PROVE Evidence(k)
    <3>1. k = Held(r)
      BY <1>1, <2>2 DEF Success, Revived, Inv
    <3>2. req[r].pc = "sent" /\ req'[r].pc = "idle"
      BY <1>1, <2>2 DEF Success, Idle, Inv, Types
    <3> QED
      BY <3>1, <3>2
  <2>3. ASSUME NEW r \in Reqs, PlatformFailure(r) PROVE FALSE
    BY <1>1, <2>3, Table
    DEF PlatformFailure, KeyOnPlatformFailure, KeyFire, KeyAccepts, KeyDead, Machine,
        Revived, Inv
  <2>4. ASSUME NEW j \in Keys, RemoveKey(j) \/ ProbeMarksSuccess(j) PROVE Evidence(k)
    BY <2>4 DEF RemoveKey, ProbeMarksSuccess
  <2>5. ~ UNCHANGED key
    BY <1>1 DEF Revived
  <2> QED
    BY <1>1, <2>1, <2>2, <2>3, <2>4, <2>5, EscalateStates, FailureStates, ClockStates
    DEF Next, Answer, Load, ExpiryPasses, EditKey, DeleteRow, ProbeClearsRow, ApplyBundle, vars
<1>2. Inv /\ [Next]_vars => [\A k \in Machines : Revived(k) => Evidence(k)]_vars
  BY <1>1
<1> QED
  BY <1>2, InvInvariant, PTL DEF Spec, RevivedOnEvidence, Revived

\* In memory and on disk a platform failure is one fact.
THEOREM PlatformFailureOnDisk == Spec => []PlatformFailedPersisted
<1> DEFINE Told(k) == /\ <<"clear", k>> \notin pending /\ <<"rebuild", k>> \notin pending
                      /\ k \notin unwritten
<1>1. Init => PlatformFailedPersisted
  BY DEF Init, PlatformFailedPersisted, Fresh, Machine, Machines
<1>2. ASSUME Inv, PlatformFailedPersisted, [Next]_vars
      PROVE  PlatformFailedPersisted'
  <2> SUFFICES ASSUME NEW k \in Keys, key'[k].state = "PlatformFailed", row'[k].present,
                      Told(k)'
               PROVE  row'[k].ft = 2
    BY DEF PlatformFailedPersisted
  <2>0. k \in Machines /\ row[k] \in Rows
    BY <1>2 DEF Machines, Inv, Types
  <2>1. key[k].state = "PlatformFailed" /\ row[k].present /\ Told(k) => row[k].ft = 2
    BY <1>2 DEF PlatformFailedPersisted
  <2>2. ASSUME NEW r \in Reqs, PlatformFailure(r) PROVE row'[k].ft = 2
    BY <1>2, <2>0, <2>1, <2>2, Table
    DEF PlatformFailure, Effect, Persist, KeyOnPlatformFailure, KeyFire, KeyAccepts, Machine,
        Inv, Types, Rows
  <2>3. ASSUME NEW r \in Reqs, Success(r) PROVE row'[k].ft = 2
    BY <1>2, <2>0, <2>1, <2>3, Table
    DEF Success, Effect, Persist, KeyOnSuccess, KeyFire, KeyAccepts, Machine, Inv, Types, Rows
  <2>4. ASSUME NEW r \in Reqs, TemporaryFailure(r) PROVE row'[k].ft = 2
    BY <1>2, <2>0, <2>1, <2>4, Table
    DEF TemporaryFailure, Effect, Persist, KeyOnSessionFailure, KeyFire, KeyAccepts, Machine,
        Inv, Types, Rows
  <2>5. ASSUME NEW r \in Reqs,
               Load(r) \/ PickKey(r) \/ PickNone(r) \/ Escalate(r) \/ NetworkFailure(r)
        PROVE  row'[k].ft = 2
    <3>1. ~Entered(k)
      BY <1>2, <2>0, <2>5, PickStates, EscalateStates, FailureStates DEF Load, Entered
    <3> QED
      BY <2>1, <2>5, <3>1
      DEF Load, PickKey, PickNone, Escalate, NetworkFailure, StillUnwritten, Entered
  <2>6. CASE RecoveryLoop \/ Tick
    BY <1>2, <2>0, <2>1, <2>6, ClockStates DEF RecoveryLoop, Tick, StillUnwritten, Entered
  <2>7. ASSUME NEW j \in Keys, ExpiryPasses(j) \/ EditKey(j) \/ DeleteRow(j)
        PROVE  row'[k].ft = 2
    <3>1. key' = key
      BY <2>7 DEF ExpiryPasses, EditKey, DeleteRow
    <3>2. row'[k].ft = row[k].ft /\ row'[k].present = row[k].present
      <4>1. CASE ExpiryPasses(j)
        BY <1>2, <2>0, <4>1 DEF ExpiryPasses, Lapse, Inv, Types, Rows
      <4>2. CASE EditKey(j)
        <5>1. PICK e \in BOOLEAN, x \in {row[j].exp, "none"} :
                row' = [row EXCEPT ![j] = [row[j] EXCEPT !.enabled = e, !.exp = x]]
          BY ZenonT(60), <1>2, <4>2 DEF EditKey, Inv, Types
        <5>2. row'[k] \in {row[k], [row[k] EXCEPT !.enabled = e, !.exp = x]}
          BY <1>2, <5>1 DEF Inv, Types
        <5> QED
          BY <2>0, <5>2 DEF Rows
      <4>3. CASE DeleteRow(j)
        BY <1>2, <2>0, <4>3 DEF DeleteRow, NoRow, Inv, Types, Rows
      <4> QED
        BY <2>7, <4>1, <4>2, <4>3
    <3>3. Told(k)
      BY <2>7 DEF ExpiryPasses, EditKey, DeleteRow
    <3> QED
      BY <2>1, <3>1, <3>2, <3>3
  <2>8. ASSUME NEW j \in Keys, RemoveKey(j) PROVE row'[k].ft = 2
    BY <1>2, <2>0, <2>1, <2>8 DEF RemoveKey, StillUnwritten, Fresh, Machine, Inv
  <2>9. ASSUME NEW j \in Keys, ProbeClearsRow(j) PROVE row'[k].ft = 2
    BY <1>2, <2>0, <2>1, <2>9 DEF ProbeClearsRow, Persist, Inv, Types, Rows
  <2>10. ASSUME NEW j \in Keys, ProbeMarksSuccess(j) PROVE row'[k].ft = 2
    <3>1. j # k
      BY <1>2, <2>0, <2>10, Table
      DEF ProbeMarksSuccess, KeyOnSuccess, KeyFire, KeyAccepts, KeyStates, Machine, Inv,
          WellFormed, KeyMachines
    <3>2. key'[k] = key[k] /\ row'[k] = row[k]
      BY <1>2, <2>0, <2>10, <3>1 DEF ProbeMarksSuccess, Effect, Persist, Inv, Types
    <3>3. Told(k)
      BY <2>10, <3>1 DEF ProbeMarksSuccess, Effect
    <3> QED
      BY <2>1, <3>2, <3>3
  <2>11. ~ApplyBundle
    BY DEF ApplyBundle
  <2>12. CASE UNCHANGED vars
    BY <2>1, <2>12 DEF vars
  <2> QED
    BY <1>2, <2>2, <2>3, <2>4, <2>5, <2>6, <2>7, <2>8, <2>9, <2>10, <2>11, <2>12
    DEF Next, Answer
<1> QED
  BY <1>1, <1>2, InvInvariant, PTL DEF Spec
=============================================================================
