---------------------------- MODULE ServiceProofs ----------------------------
(***************************************************************************)
(* What holds of the scheduler's wait queues for any number of requests,   *)
(* models and places, of its key cursors for any pool and any sessions,    *)
(* and of the synchronisation with the catalogs of the upstreams, for any  *)
(* credentials, models, bindings and number of confirmations.              *)
(*                                                                         *)
(* The count of a queue is right because a request is counted exactly      *)
(* while it is inside Wait, whichever way it leaves.  That nil is returned *)
(* only at `until`, and to nobody whose queue has been cleared, rests on   *)
(* the mutex: between a waiter's look at the generation and its return no  *)
(* other waiter can clear the queue.                                       *)
(*                                                                         *)
(* A key's turn comes within one round because every pick brings the       *)
(* cursor one place nearer to each key it does not stand at: what a key    *)
(* was passed over and the places that are left never exceed the pool.     *)
(* The limit on the cursors holds because a sweep that finds one too many  *)
(* finds one to drop that is not the platform's.                           *)
(*                                                                         *)
(* A round of the catalog acts on a model several steps after it has       *)
(* judged it.  Its verdicts stay good because what they rest on is kept in *)
(* the round; the streak that confirms a recovery lives in the database    *)
(* and never runs ahead of the judgements, except past the number at which *)
(* it would have been acted on; and a machine is frozen only by somebody   *)
(* who has just taken the row out of service, or was overtaken meanwhile.  *)
(***************************************************************************)
EXTENDS Services, GatewayProofs, DefinitionsProofs, SequenceTheorems, FiniteSetTheorems, NaturalFacts

----------------------------------------------------------------------------
(* The wait queues.                                                         *)

Holders == {"checking", "committed"}

\* One holder of the mutex at a time.
MutualExclusion ==
  \A v, w \in Waiters : pc[v] \in Holders /\ pc[w] \in Holders => v = w

\* Only waiters have a queue to be cleared, and who has passed the test of the
\* generation has not missed a clear.
ClearsSeen ==
  \A w \in cleared : pc[w] \in Inside /\ pc[w] # "committed"

CountExact == \A l \in Lapis : count[l] = Cardinality(WaitersOf(l))

QueueInv ==
  /\ TypeOK
  /\ MutualExclusion
  /\ ClearsSeen
  /\ CountExact

----------------------------------------------------------------------------
(* Queues as sets of waiters.                                               *)

\* A queue is a finite set.
LEMMA QueueFinite ==
  ASSUME NEW l PROVE IsFiniteSet(WaitersOf(l))
BY WaitersAssumption, FS_Subset DEF WaitersOf

\* Counts are naturals.
LEMMA QueueCount ==
  ASSUME NEW l PROVE Cardinality(WaitersOf(l)) \in Nat
BY QueueFinite, FS_CardinalityType

\* Waking the sleepers keeps types, moves nobody in or out of Wait and hands
\* the mutex to nobody.
LEMMA WokenPlaces ==
  ASSUME NEW places \in [Waiters -> {"out"} \cup Inside]
  PROVE  /\ Woken(places) \in [Waiters -> {"out"} \cup Inside]
         /\ \A w \in Waiters : /\ Woken(places)[w] \in Inside <=> places[w] \in Inside
                               /\ Woken(places)[w] \in Holders <=> places[w] \in Holders
                               /\ Woken(places)[w] = "committed" <=> places[w] = "committed"
                               /\ Woken(places)[w] = "out" <=> places[w] = "out"
BY DEF Woken, Inside, Holders

\* A step that moves nobody in or out of Wait and leaves the counts alone keeps
\* them exact.
LEMMA SameQueues ==
  ASSUME QueueInv, UNCHANGED count,
         \A w \in Waiters : pc'[w] \in Inside <=> pc[w] \in Inside
  PROVE  CountExact'
<1>1. \A l : WaitersOf(l)' = WaitersOf(l)
  BY DEF WaitersOf
<1> QED
  BY <1>1 DEF QueueInv, CountExact

\* A request that joins is counted once.
LEMMA JoinCounts ==
  ASSUME QueueInv, NEW w \in Waiters, pc[w] = "out", Join(w)
  PROVE  CountExact'
<1> SUFFICES ASSUME NEW l \in Lapis
             PROVE  count'[l] = Cardinality(WaitersOf(l)')
  BY DEF CountExact
<1>1. LapiOf[w] \in Lapis /\ count[l] = Cardinality(WaitersOf(l)) /\ count[l] \in Nat
  BY WaitersAssumption, QueueAssumption DEF QueueInv, CountExact, TypeOK
<1>2. \A v \in Waiters : pc'[v] = IF v = w THEN "checking" ELSE pc[v]
  BY DEF Join, QueueInv, TypeOK
<1>3. CASE l = LapiOf[w]
  <2>1. WaitersOf(l)' = WaitersOf(l) \cup {w}
    BY <1>2, <1>3 DEF WaitersOf, Inside
  <2>2. w \notin WaitersOf(l)
    BY DEF WaitersOf, Inside
  <2>3. Cardinality(WaitersOf(l)') = Cardinality(WaitersOf(l)) + 1
    BY <2>1, <2>2, QueueFinite, FS_AddElement
  <2>4. count'[l] = count[l] + 1
    BY <1>1, <1>3 DEF Join, QueueInv, TypeOK
  <2> QED
    BY <1>1, <2>3, <2>4
<1>4. CASE l # LapiOf[w]
  <2>1. WaitersOf(l)' = WaitersOf(l)
    BY <1>2, <1>4 DEF WaitersOf, Inside
  <2>2. count'[l] = count[l]
    BY <1>1, <1>4 DEF Join, QueueInv, TypeOK
  <2> QED
    BY <1>1, <2>1, <2>2
<1> QED
  BY <1>3, <1>4

\* A request that returns is taken off the count once, and woken or not the
\* others stay.
LEMMA ReturnCounts ==
  ASSUME QueueInv, NEW w \in Waiters, pc[w] \in Inside,
         NEW r, NEW STATE places, NEW STATE clear,
         places \in [Waiters -> {"out"} \cup Inside],
         \A v \in Waiters : places[v] \in Inside <=> pc[v] \in Inside,
         Return(w, r, places, clear)
  PROVE  CountExact' /\ count' \in [Lapis -> 0..QueueMaxLen]
<1>1. LapiOf[w] \in Lapis
  BY WaitersAssumption
<1>2. \A v \in Waiters : pc'[v] = IF v = w THEN "out" ELSE places[v]
  BY DEF Return
<1>3. count' = [count EXCEPT ![LapiOf[w]] = @ - 1]
  BY DEF Return
<1>4. count \in [Lapis -> 0..QueueMaxLen] /\ QueueMaxLen \in Nat
  BY QueueAssumption DEF QueueInv, TypeOK
<1>5. w \in WaitersOf(LapiOf[w])
  BY DEF WaitersOf
<1>6. WaitersOf(LapiOf[w])' = WaitersOf(LapiOf[w]) \ {w}
  BY <1>2 DEF WaitersOf, Inside
<1>7. Cardinality(WaitersOf(LapiOf[w])') = Cardinality(WaitersOf(LapiOf[w])) - 1
  BY <1>5, <1>6, QueueFinite, FS_RemoveElement
<1>8. Cardinality(WaitersOf(LapiOf[w])) >= 1
  BY <1>5, QueueFinite, QueueCount, FS_EmptySet
<1>9. \A l \in Lapis : l # LapiOf[w] => WaitersOf(l)' = WaitersOf(l)
  BY <1>2 DEF WaitersOf, Inside
<1>10. \A l \in Lapis : count'[l] = Cardinality(WaitersOf(l)')
  <2> TAKE l \in Lapis
  <2>1. count[l] = Cardinality(WaitersOf(l))
    BY DEF QueueInv, CountExact
  <2>2. CASE l = LapiOf[w]
    BY <1>3, <1>4, <1>7, <2>1, <2>2
  <2>3. CASE l # LapiOf[w]
    BY <1>3, <1>4, <1>9, <2>1, <2>3
  <2> QED
    BY <2>2, <2>3
<1>11. count[LapiOf[w]] \in 1..QueueMaxLen
  BY <1>1, <1>4, <1>8 DEF QueueInv, CountExact
<1>12. count[LapiOf[w]] - 1 \in 0..QueueMaxLen
  BY <1>4, <1>11
<1>13. count' \in [Lapis -> 0..QueueMaxLen]
  BY <1>1, <1>3, <1>4, <1>12
<1> QED
  BY <1>10, <1>13 DEF CountExact

----------------------------------------------------------------------------
(* The invariant, step by step.                                             *)

\* The invariant holds initially.
LEMMA QueueInvInit == Init => QueueInv
<1> SUFFICES ASSUME Init PROVE QueueInv
  OBVIOUS
<1>1. TypeOK
  BY QueueAssumption DEF Init, TypeOK, Contexts
<1>2. MutualExclusion /\ ClearsSeen
  BY DEF Init, MutualExclusion, ClearsSeen, Holders
<1>3. \A l \in Lapis : WaitersOf(l) = {}
  BY DEF Init, WaitersOf, Inside
<1>4. CountExact
  BY <1>3, FS_EmptySet DEF Init, CountExact
<1> QED
  BY <1>1, <1>2, <1>4 DEF QueueInv

\* Entering: a refusal changes nothing but the result, and who joins takes a
\* free mutex and a free place.
LEMMA EnterStep == ASSUME QueueInv, NEW w \in Waiters, Enter(w) PROVE QueueInv'
<1>1. CASE UNCHANGED <<pc, due, ctx, watch, armed, count, cleared>>
  <2>1. TypeOK'
    BY <1>1 DEF Enter, Join, QueueInv, TypeOK
  <2>2. MutualExclusion' /\ ClearsSeen'
    BY <1>1 DEF QueueInv, MutualExclusion, ClearsSeen
  <2>3. CountExact'
    BY <1>1, SameQueues
  <2> QED
    BY <2>1, <2>2, <2>3 DEF QueueInv
<1>2. CASE pc[w] = "out" /\ MutexFree /\ count[LapiOf[w]] < QueueMaxLen /\ Join(w)
  <2>1. LapiOf[w] \in Lapis /\ QueueMaxLen \in Nat
    BY WaitersAssumption, QueueAssumption
  <2>2. count[LapiOf[w]] + 1 \in 0..QueueMaxLen
    BY <1>2, <2>1 DEF QueueInv, TypeOK
  <2>3. TypeOK'
    BY <1>2, <2>1, <2>2 DEF Join, QueueInv, TypeOK, Inside, Contexts
  <2>4. \A v \in Waiters : pc'[v] = IF v = w THEN "checking" ELSE pc[v]
    BY <1>2 DEF Join, QueueInv, TypeOK
  <2>5. MutualExclusion'
    BY <1>2, <2>4 DEF MutexFree, MutualExclusion, Holders
  <2>6. ClearsSeen'
    BY <1>2, <2>4 DEF Join, QueueInv, TypeOK, ClearsSeen, Inside
  <2>7. CountExact'
    BY <1>2, JoinCounts
  <2> QED
    BY <2>3, <2>5, <2>6, <2>7 DEF QueueInv
<1> QED
  BY <1>1, <1>2 DEF Enter

\* A holder of the mutex that returns, waking and clearing whom it may.
LEMMA ReturnStep ==
  ASSUME QueueInv, NEW w \in Waiters, pc[w] \in Inside,
         NEW r \in {"nil", "cleared", "timeout", "ctx"},
         NEW STATE places, NEW STATE clear,
         \/ places = pc /\ clear = {}
         \/ places = Woken(pc) /\ clear = ClearQueue(w),
         pc[w] \in Holders,
         Return(w, r, places, clear),
         due' = due, armed' \in [Waiters -> BOOLEAN]
  PROVE  QueueInv'
<1>1. pc \in [Waiters -> {"out"} \cup Inside]
  BY DEF QueueInv, TypeOK
<1>2. /\ places \in [Waiters -> {"out"} \cup Inside]
      /\ \A v \in Waiters : /\ places[v] \in Inside <=> pc[v] \in Inside
                            /\ places[v] \in Holders <=> pc[v] \in Holders
                            /\ places[v] = "committed" <=> pc[v] = "committed"
  BY <1>1, WokenPlaces
<1>3. clear \subseteq Waiters /\ \A v \in clear : pc[v] \in Inside
  BY DEF ClearQueue
<1>4. CountExact' /\ count' \in [Lapis -> 0..QueueMaxLen]
  BY <1>2, ReturnCounts
<1>5. \A v \in Waiters : pc'[v] = IF v = w THEN "out" ELSE places[v]
  BY <1>2 DEF Return
<1>6. pc' \in [Waiters -> {"out"} \cup Inside]
  BY <1>2 DEF Return
<1>7. TypeOK'
  BY <1>3, <1>4, <1>6 DEF Return, QueueInv, TypeOK, Contexts
<1>8. \A v \in Waiters : pc'[v] \notin Holders
  BY <1>2, <1>5 DEF QueueInv, MutualExclusion, Holders
<1>9. MutualExclusion'
  BY <1>8 DEF MutualExclusion
<1>10. ClearsSeen'
  <2> SUFFICES ASSUME NEW v \in cleared'
               PROVE  pc'[v] \in Inside /\ pc'[v] # "committed"
    BY DEF ClearsSeen
  <2>1. v \in cleared \cup clear /\ v # w /\ v \in Waiters
    BY <1>3 DEF Return, QueueInv, TypeOK
  <2>2. pc[v] \in Inside
    BY <1>3, <2>1 DEF QueueInv, ClearsSeen
  <2> QED
    BY <1>2, <1>5, <1>8, <2>1, <2>2 DEF Holders
<1> QED
  BY <1>4, <1>7, <1>9, <1>10 DEF QueueInv

\* The first two tests of the loop preserve the invariant.
LEMMA CheckStep == ASSUME QueueInv, NEW w \in Waiters, Check(w) PROVE QueueInv'
<1>1. /\ pc[w] = "checking" /\ pc[w] \in Inside /\ pc[w] \in Holders
      /\ due' = due /\ armed' \in [Waiters -> BOOLEAN]
  BY DEF Check, Inside, Holders, QueueInv, TypeOK
<1>2. CASE Return(w, "cleared", pc, {}) \/ Return(w, "ctx", pc, {})
  BY <1>1, <1>2, ReturnStep
<1>3. CASE Return(w, "timeout", Woken(pc), ClearQueue(w))
  BY <1>1, <1>3, ReturnStep
<1>4. CASE /\ w \notin cleared
           /\ pc' = [pc EXCEPT ![w] = "committed"]
           /\ UNCHANGED <<due, armed, ctx, count, cleared, watch, result>>
  <2>1. \A v \in Waiters : pc'[v] = IF v = w THEN "committed" ELSE pc[v]
    BY <1>4 DEF QueueInv, TypeOK
  <2>2. TypeOK'
    BY <1>4 DEF QueueInv, TypeOK, Inside
  <2>3. MutualExclusion'
    BY <1>1, <2>1 DEF QueueInv, MutualExclusion, Holders
  <2>4. ClearsSeen'
    BY <1>4, <2>1 DEF QueueInv, ClearsSeen, TypeOK
  <2>5. CountExact'
    BY <1>1, <1>4, <2>1, SameQueues DEF Inside
  <2> QED
    BY <2>2, <2>3, <2>4, <2>5 DEF QueueInv
<1> QED
  BY <1>2, <1>3, <1>4 DEF Check

\* So does the last test, whether the waiter returns or sleeps.
LEMMA CommitStep == ASSUME QueueInv, NEW w \in Waiters, Commit(w) PROVE QueueInv'
<1>1. pc[w] = "committed" /\ pc[w] \in Inside /\ pc[w] \in Holders /\ due' = due
  BY DEF Commit, Inside, Holders
<1>2. CASE Return(w, "nil", pc, {}) /\ UNCHANGED armed
  <2>1. armed' \in [Waiters -> BOOLEAN]
    BY <1>2 DEF QueueInv, TypeOK
  <2> QED
    BY <1>1, <1>2, <2>1, ReturnStep
<1>3. CASE /\ pc' = [pc EXCEPT ![w] = "asleep"]
           /\ armed' = [armed EXCEPT ![w] = TRUE]
           /\ UNCHANGED <<due, ctx, count, cleared, watch, result>>
  <2>1. \A v \in Waiters : pc'[v] = IF v = w THEN "asleep" ELSE pc[v]
    BY <1>3 DEF QueueInv, TypeOK
  <2>2. TypeOK'
    BY <1>3 DEF QueueInv, TypeOK, Inside
  <2>3. MutualExclusion' /\ ClearsSeen'
    BY <1>3, <2>1 DEF QueueInv, MutualExclusion, ClearsSeen, Holders, Inside, TypeOK
  <2>4. CountExact'
    BY <1>1, <1>3, <2>1, SameQueues DEF Inside
  <2> QED
    BY <2>2, <2>3, <2>4 DEF QueueInv
<1> QED
  BY <1>2, <1>3 DEF Commit

\* A waiter that gets the mutex back finds no other holder.
LEMMA RelockStep == ASSUME QueueInv, NEW w \in Waiters, Relock(w) PROVE QueueInv'
<1>1. \A v \in Waiters : pc'[v] = IF v = w THEN "checking" ELSE pc[v]
  BY DEF Relock, QueueInv, TypeOK
<1>2. TypeOK'
  BY DEF Relock, QueueInv, TypeOK, Inside
<1>3. MutualExclusion'
  BY <1>1 DEF Relock, MutexFree, MutualExclusion, Holders
<1>4. ClearsSeen'
  BY <1>1 DEF Relock, QueueInv, ClearsSeen, Inside, TypeOK
<1>5. CountExact'
  BY <1>1, SameQueues DEF Relock, Inside
<1> QED
  BY <1>2, <1>3, <1>4, <1>5 DEF QueueInv

\* A broadcast, with whatever its sender notes besides.
LEMMA BroadcastStep ==
  ASSUME QueueInv, pc' = Woken(pc),
         watch' \in [Waiters -> {"none", "watching", "fired"}],
         armed' \in [Waiters -> BOOLEAN],
         UNCHANGED <<due, ctx, count, cleared, result>>
  PROVE  QueueInv'
<1>1. pc \in [Waiters -> {"out"} \cup Inside]
  BY DEF QueueInv, TypeOK
<1>2. /\ pc' \in [Waiters -> {"out"} \cup Inside]
      /\ \A v \in Waiters : /\ pc'[v] \in Inside <=> pc[v] \in Inside
                            /\ pc'[v] \in Holders <=> pc[v] \in Holders
                            /\ pc'[v] = "committed" <=> pc[v] = "committed"
  BY <1>1, WokenPlaces
<1>3. TypeOK'
  BY <1>2 DEF QueueInv, TypeOK
<1>4. MutualExclusion'
  BY <1>2 DEF QueueInv, MutualExclusion
<1>5. ClearsSeen'
  BY <1>2 DEF QueueInv, ClearsSeen, TypeOK
<1>6. CountExact'
  BY <1>2, SameQueues
<1> QED
  BY <1>3, <1>4, <1>5, <1>6 DEF QueueInv

\* Time and the context touch neither places nor queues.
LEMMA EnvironmentStep ==
  ASSUME QueueInv, NEW w \in Waiters, UntilReached(w) \/ ContextEnds(w)
  PROVE  QueueInv'
<1>1. UNCHANGED <<pc, watch, armed, count, cleared, result>>
  BY DEF UntilReached, ContextEnds
<1>2. TypeOK'
  BY DEF UntilReached, ContextEnds, QueueInv, TypeOK
<1>3. MutualExclusion' /\ ClearsSeen'
  BY <1>1 DEF QueueInv, MutualExclusion, ClearsSeen
<1>4. CountExact'
  BY <1>1, SameQueues
<1> QED
  BY <1>2, <1>3, <1>4 DEF QueueInv

\* Every step preserves the invariant.
LEMMA QueueInvStep == QueueInv /\ [Next]_vars => QueueInv'
<1> SUFFICES ASSUME QueueInv, [Next]_vars PROVE QueueInv'
  OBVIOUS
<1>1. ASSUME NEW w \in Waiters, TimerFires(w) \/ WatcherFires(w) PROVE QueueInv'
  <2>1. /\ pc' = Woken(pc) /\ UNCHANGED <<due, ctx, count, cleared, result>>
        /\ watch' \in [Waiters -> {"none", "watching", "fired"}]
        /\ armed' \in [Waiters -> BOOLEAN]
    BY <1>1 DEF TimerFires, WatcherFires, QueueInv, TypeOK
  <2> QED
    BY <2>1, BroadcastStep
<1>2. CASE EntityChanged
  <2>1. /\ watch' \in [Waiters -> {"none", "watching", "fired"}]
        /\ armed' \in [Waiters -> BOOLEAN]
    BY <1>2 DEF EntityChanged, QueueInv, TypeOK
  <2> QED
    BY <1>2, <2>1, BroadcastStep DEF EntityChanged
<1>3. CASE UNCHANGED vars
  <2>1. TypeOK' /\ MutualExclusion' /\ ClearsSeen'
    BY <1>3 DEF vars, QueueInv, TypeOK, MutualExclusion, ClearsSeen
  <2>2. CountExact'
    BY <1>3, SameQueues DEF vars
  <2> QED
    BY <2>1, <2>2 DEF QueueInv
<1> QED
  BY <1>1, <1>2, <1>3, EnterStep, CheckStep, CommitStep, RelockStep, EnvironmentStep
  DEF Next

----------------------------------------------------------------------------
(* The theorems.                                                            *)

\* The inductive invariant holds in every reachable state: types, one holder of
\* the mutex, no clear unseen by a waiter about to return, exact counts.
THEOREM QueueInvariant == Spec => []QueueInv
BY QueueInvInit, QueueInvStep, PTL DEF Spec

\* Every variable of the wait queues keeps its type; no count exceeds the limit.
THEOREM QueueTypeCorrect == Spec => []TypeOK
<1>1. QueueInv => TypeOK
  BY DEF QueueInv
<1> QED
  BY <1>1, QueueInvariant, PTL

\* The count a queue is limited by is the number of requests in it, and never
\* more than the limit, however requests enter, leave and are cleared.
THEOREM CountsExact == Spec => []QueueCountExact
<1>1. QueueInv => QueueCountExact
  BY QueueAssumption DEF QueueInv, TypeOK, CountExact, QueueCountExact
<1> QED
  BY <1>1, QueueInvariant, PTL

\* Wait returns nil only at `until` and only to a request whose queue has not
\* been cleared.
THEOREM NilMeansDue == Spec => NilOnlyWhenDue
<1> DEFINE Leaves(w) == pc[w] \in Inside /\ pc'[w] = "out" /\ result'[w] = "nil"
<1>1. ASSUME QueueInv, Next, NEW w \in Waiters, Leaves(w)
      PROVE  due[w] /\ w \notin cleared
  <2>0. pc \in [Waiters -> {"out"} \cup Inside] /\ w \in DOMAIN result
    BY <1>1 DEF QueueInv, TypeOK
  <2>1. CASE Commit(w)
    BY <1>1, <2>0, <2>1 DEF Commit, QueueInv, ClearsSeen, Inside
  <2>2. ASSUME NEW v \in Waiters, Enter(v) PROVE FALSE
    BY <1>1, <2>0, <2>2 DEF Enter, Join, Inside
  <2>3. ASSUME NEW v \in Waiters, Check(v) PROVE FALSE
    BY <1>1, <2>0, <2>3, WokenPlaces DEF Check, Return, Inside
  <2>4. ASSUME NEW v \in Waiters, Commit(v), v # w PROVE FALSE
    BY <1>1, <2>0, <2>4 DEF Commit, Return, Inside
  <2>5. ASSUME NEW v \in Waiters, Relock(v) PROVE FALSE
    BY <1>1, <2>0, <2>5 DEF Relock, Inside
  <2>6. ASSUME pc' = Woken(pc) PROVE FALSE
    BY <1>1, <2>0, <2>6, WokenPlaces DEF Inside
  <2>7. ASSUME NEW v \in Waiters, UntilReached(v) \/ ContextEnds(v) PROVE FALSE
    BY <1>1, <2>7 DEF UntilReached, ContextEnds, Inside
  <2> QED
    BY <1>1, <2>1, <2>2, <2>3, <2>4, <2>5, <2>6, <2>7
    DEF Next, TimerFires, WatcherFires, EntityChanged
<1>2. QueueInv /\ [Next]_vars => [\A w \in Waiters : Leaves(w) => due[w] /\ w \notin cleared]_vars
  BY <1>1
<1> QED
  BY <1>2, QueueInvariant, PTL DEF Spec, NilOnlyWhenDue

\* A queue is cleared by nothing but a deadline of one of its own requests.
THEOREM OnlyDeadlinesClear == Spec => ClearedByDeadline
<1> DEFINE Cause(w) == \E v \in Waiters : /\ LapiOf[v] = LapiOf[w]
                                         /\ pc[v] \in Inside /\ ctx[v] = "deadline"
                                         /\ result'[v] = "timeout"
<1>1. ASSUME QueueInv, Next, NEW w \in cleared' \ cleared PROVE Cause(w)
  <2>0. result \in [Waiters -> {"none", "nil", "full", "cleared", "timeout", "ctx"}]
    BY <1>1 DEF QueueInv, TypeOK
  <2>1. ASSUME NEW v \in Waiters, Check(v) PROVE Cause(w)
    <3>1. /\ pc[v] \in Inside /\ ctx[v] = "deadline"
          /\ Return(v, "timeout", Woken(pc), ClearQueue(v))
      BY <1>1, <2>1 DEF Check, Return, Inside
    <3>2. result'[v] = "timeout" /\ w \in ClearQueue(v)
      BY <1>1, <2>0, <3>1 DEF Return
    <3> QED
      BY <3>1, <3>2 DEF ClearQueue
  <2>2. ASSUME NEW v \in Waiters, Commit(v) PROVE FALSE
    BY <1>1, <2>2 DEF Commit, Return
  <2>3. ASSUME UNCHANGED cleared PROVE FALSE
    BY <1>1, <2>3
  <2> QED
    BY <1>1, <2>1, <2>2, <2>3
    DEF Next, Enter, Join, Relock, TimerFires, WatcherFires, EntityChanged,
        UntilReached, ContextEnds
<1>2. QueueInv /\ [Next]_vars
        => [\A w \in cleared' \ cleared :
              \E v \in Waiters : /\ LapiOf[v] = LapiOf[w]
                                 /\ pc[v] \in Inside /\ ctx[v] = "deadline"
                                 /\ result'[v] = "timeout"]_vars
  BY <1>1
<1> QED
  BY <1>2, QueueInvariant, PTL DEF Spec, ClearedByDeadline

----------------------------------------------------------------------------
(* The cursors as sequences.                                                *)

\* No two cursors of a sequence have one identifier.
Distinct(cs) == \A i, j \in DOMAIN cs : cs[i].id = cs[j].id => i = j

Members(cs) == {cs[i] : i \in DOMAIN cs}

\* What is left of the first i cursors, as Without computes it.
IsLeft(cs, ids, f) ==
  f = [i \in 0..Len(cs) |->
         IF i = 0 THEN <<>>
         ELSE IF cs[i].id \in ids THEN f[i - 1] ELSE Append(f[i - 1], cs[i])]

\* There is such a function: the one on the first n is continued on n + 1.
LEMMA LeftExists ==
  ASSUME NEW S, NEW cs \in Seq(S), NEW ids
  PROVE  \E f : IsLeft(cs, ids, f)
<1> DEFINE Upto(n, f) == f = [i \in 0..n |->
               IF i = 0 THEN <<>>
               ELSE IF cs[i].id \in ids THEN f[i - 1] ELSE Append(f[i - 1], cs[i])]
           done == {n \in 0..Len(cs) : \E f : Upto(n, f)}
<1>1. Len(cs) \in Nat
  OBVIOUS
<1>2. 0 \in done
  <2> DEFINE f == [i \in 0..0 |-> <<>>]
  <2>1. Upto(0, f)
    OBVIOUS
  <2>2. \E g : Upto(0, g)
    BY <2>1
  <2>3. 0 \in 0..Len(cs)
    BY <1>1
  <2> QED
    BY <2>2, <2>3
<1>3. ASSUME NEW n \in 0..Len(cs), n \in done, n < Len(cs) PROVE n + 1 \in done
  <2>1. PICK f : Upto(n, f)
    BY <1>3
  <2> DEFINE g == [i \in 0..(n + 1) |->
        IF i <= n THEN f[i]
        ELSE IF cs[n + 1].id \in ids THEN f[n] ELSE Append(f[n], cs[n + 1])]
  <2>2. \A i \in 0..n : f[i] = IF i = 0 THEN <<>>
               ELSE IF cs[i].id \in ids THEN f[i - 1] ELSE Append(f[i - 1], cs[i])
    BY <2>1
  <2>3. \A i \in 0..(n + 1) : g[i] = IF i = 0 THEN <<>>
               ELSE IF cs[i].id \in ids THEN g[i - 1] ELSE Append(g[i - 1], cs[i])
    BY <2>2
  <2>4. Upto(n + 1, g)
    BY <2>3
  <2>5. n + 1 \in 0..Len(cs)
    BY <1>1, <1>3
  <2> QED
    BY <2>4, <2>5
<1> HIDE DEF done
<1>4. 0..Len(cs) \subseteq done
  BY <1>1, <1>2, <1>3, InductionUpTo
<1>5. Len(cs) \in done
  BY <1>1, <1>4
<1> QED
  BY <1>5 DEF done, IsLeft

\* Without is the last value of that function.
LEMMA WithoutIs ==
  ASSUME NEW S, NEW cs \in Seq(S), NEW ids
  PROVE  \E f : IsLeft(cs, ids, f) /\ Without(cs, ids) = f[Len(cs)]
<1> DEFINE F == CHOOSE f : IsLeft(cs, ids, f)
<1>1. IsLeft(cs, ids, F)
  BY LeftExists
<1>2. Without(cs, ids) = F[Len(cs)]
  BY DEF Without, IsLeft
<1> QED
  BY <1>1, <1>2

\* A sequence with one more at its end.
LEMMA OneMore ==
  ASSUME NEW S, NEW w \in Seq(S), NEW c \in S
  PROVE  /\ Append(w, c) \in Seq(S) /\ Len(Append(w, c)) = Len(w) + 1
         /\ DOMAIN Append(w, c) = 1..(Len(w) + 1) /\ DOMAIN w = 1..Len(w) /\ Len(w) \in Nat
         /\ \A i \in 1..Len(w) : Append(w, c)[i] = w[i]
         /\ Append(w, c)[Len(w) + 1] = c
         /\ Members(Append(w, c)) = Members(w) \cup {c}
<1>1. Len(Append(w, c)) = Len(w) + 1 /\ Append(w, c) \in Seq(S) /\ Len(w) \in Nat
  OBVIOUS
<1>2. DOMAIN Append(w, c) = 1..(Len(w) + 1) /\ DOMAIN w = 1..Len(w)
  OBVIOUS
<1>3. \A i \in 1..Len(w) : Append(w, c)[i] = w[i]
  OBVIOUS
<1>4. Append(w, c)[Len(w) + 1] = c
  OBVIOUS
<1>5. 1..(Len(w) + 1) = 1..Len(w) \cup {Len(w) + 1}
  BY <1>1
<1>6. Members(Append(w, c)) = Members(w) \cup {c}
  BY <1>2, <1>3, <1>4, <1>5 DEF Members
<1> QED
  BY <1>1, <1>2, <1>3, <1>4, <1>6

\* And no identifier twice, if the new one is not there yet.
LEMMA OneMoreDistinct ==
  ASSUME NEW S, NEW w \in Seq(S), NEW c \in S, Distinct(w), \A d \in Members(w) : d.id # c.id
  PROVE  Distinct(Append(w, c))
<1>1. \A i \in 1..Len(w) : w[i] \in Members(w)
  BY OneMore DEF Members
<1>2. SUFFICES ASSUME NEW i \in 1..(Len(w) + 1), NEW j \in 1..(Len(w) + 1),
                      Append(w, c)[i].id = Append(w, c)[j].id
               PROVE  i = j
  BY OneMore DEF Distinct
<1>3. Len(w) \in Nat /\ DOMAIN w = 1..Len(w)
  OBVIOUS
<1>4. CASE i \in 1..Len(w) /\ j \in 1..Len(w)
  BY <1>2, <1>3, <1>4, OneMore DEF Distinct
<1>5. CASE i \in 1..Len(w) /\ j = Len(w) + 1
  BY <1>1, <1>2, <1>5, OneMore
<1>6. CASE i = Len(w) + 1 /\ j \in 1..Len(w)
  BY <1>1, <1>2, <1>6, OneMore
<1> QED
  BY <1>3, <1>4, <1>5, <1>6

\* What Without leaves: the cursors that are not among the identifiers, in a
\* sequence that is shorter if there were any.
LEMMA WithoutLeaves ==
  ASSUME NEW S, NEW cs \in Seq(S), NEW ids, NEW w, w = Without(cs, ids)
  PROVE  /\ w \in Seq(S) /\ Len(w) \in Nat /\ Len(w) <= Len(cs)
         /\ Members(w) = {c \in Members(cs) : c.id \notin ids}
         /\ Distinct(cs) => Distinct(w)
         /\ (\E c \in Members(cs) : c.id \in ids) => Len(w) < Len(cs)
<1>1. PICK f : IsLeft(cs, ids, f) /\ w = f[Len(cs)]
  BY WithoutIs
<1> DEFINE first(n) == {cs[i] : i \in 1..n}
           good == {n \in 0..Len(cs) :
                      /\ f[n] \in Seq(S) /\ Len(f[n]) <= n
                      /\ Members(f[n]) = {c \in first(n) : c.id \notin ids}
                      /\ Distinct(cs) => Distinct(f[n])
                      /\ (\E c \in first(n) : c.id \in ids) => Len(f[n]) < n}
<1>2. Len(cs) \in Nat /\ DOMAIN cs = 1..Len(cs) /\ \A i \in 1..Len(cs) : cs[i] \in S
  OBVIOUS
<1>3. f[0] = <<>>
  BY <1>1, <1>2 DEF IsLeft
<1>4. \A n \in 1..Len(cs) : f[n] = IF cs[n].id \in ids THEN f[n - 1] ELSE Append(f[n - 1], cs[n])
  <2> TAKE n \in 1..Len(cs)
  <2>1. n \in 0..Len(cs) /\ n # 0
    BY <1>2
  <2> DEFINE g == f
  <2>2. f = [i \in 0..Len(cs) |-> IF i = 0 THEN <<>>
               ELSE IF cs[i].id \in ids THEN g[i - 1] ELSE Append(g[i - 1], cs[i])]
    BY <1>1 DEF IsLeft
  <2> HIDE DEF g
  <2>3. f[n] = IF cs[n].id \in ids THEN g[n - 1] ELSE Append(g[n - 1], cs[n])
    BY <2>1, <2>2
  <2> QED
    BY <2>3 DEF g
<1>5. 0 \in good
  <2>1. first(0) = {} /\ Members(<<>>) = {} /\ Distinct(<<>>) /\ Len(<<>>) = 0 /\ <<>> \in Seq(S)
    BY DEF Members, Distinct
  <2>2. 0 \in 0..Len(cs)
    BY <1>2
  <2>3. Members(f[0]) = {c \in first(0) : c.id \notin ids} /\ ~ \E c \in first(0) : c.id \in ids
    BY <1>3, <2>1
  <2>4. f[0] \in Seq(S) /\ Len(f[0]) <= 0 /\ Distinct(f[0])
    BY <1>3, <2>1
  <2> HIDE DEF first
  <2> QED
    BY <2>2, <2>3, <2>4
<1>6. ASSUME NEW n \in 0..Len(cs), n \in good, n < Len(cs) PROVE n + 1 \in good
  <2>1. n + 1 \in 1..Len(cs) /\ n + 1 \in 0..Len(cs) /\ n \in Nat
    BY <1>2, <1>6
  <2>2. 1..(n + 1) = 1..n \cup {n + 1}
    BY <2>1
  <2>3. first(n + 1) = first(n) \cup {cs[n + 1]}
    BY <2>2
  <2>4. /\ f[n] \in Seq(S) /\ Len(f[n]) <= n
        /\ Members(f[n]) = {c \in first(n) : c.id \notin ids}
        /\ Distinct(cs) => Distinct(f[n])
        /\ (\E c \in first(n) : c.id \in ids) => Len(f[n]) < n
    BY <1>6
  <2>5. Len(f[n]) \in Nat
    BY <2>4
  <2>6. f[n + 1] = IF cs[n + 1].id \in ids THEN f[n] ELSE Append(f[n], cs[n + 1])
    BY <1>4, <2>1
  <2>7. CASE cs[n + 1].id \in ids
    <3>1. f[n + 1] = f[n]
      BY <2>6, <2>7
    <3>2. {c \in first(n + 1) : c.id \notin ids} = {c \in first(n) : c.id \notin ids}
      BY <2>3, <2>7
    <3> HIDE DEF first
    <3> QED
      BY <2>1, <2>4, <2>5, <3>1, <3>2
  <2>8. CASE cs[n + 1].id \notin ids
    <3>1. f[n + 1] = Append(f[n], cs[n + 1]) /\ cs[n + 1] \in S
      BY <1>2, <2>1, <2>6, <2>8
    <3>2. /\ f[n + 1] \in Seq(S) /\ Len(f[n + 1]) = Len(f[n]) + 1
          /\ Members(f[n + 1]) = Members(f[n]) \cup {cs[n + 1]}
      BY <2>4, <3>1, OneMore
    <3>3. {c \in first(n + 1) : c.id \notin ids} = {c \in first(n) : c.id \notin ids} \cup {cs[n + 1]}
      BY <2>3, <2>8
    <3>4. ASSUME Distinct(cs) PROVE Distinct(f[n + 1])
      <4>1. \A i \in 1..n : cs[i].id # cs[n + 1].id
        BY <1>2, <2>1, <3>4 DEF Distinct
      <4>2. \A d \in first(n) : d.id # cs[n + 1].id
        BY <4>1
      <4> HIDE DEF first
      <4> QED
        BY <2>4, <3>1, <3>4, <4>2, OneMoreDistinct
    <3>5. (\E c \in first(n + 1) : c.id \in ids) => \E c \in first(n) : c.id \in ids
      BY <2>3, <2>8
    <3> HIDE DEF first
    <3> QED
      BY <2>1, <2>4, <2>5, <3>2, <3>3, <3>4, <3>5
  <2> QED
    BY <2>7, <2>8
<1>7. 0..Len(cs) \subseteq good
  <2> HIDE DEF good
  <2> QED
    BY <1>2, <1>5, <1>6, InductionUpTo
<1>8. Len(cs) \in good
  <2> HIDE DEF good
  <2> QED
    BY <1>2, <1>7
<1>9. first(Len(cs)) = Members(cs)
  BY <1>2 DEF Members
<1> HIDE DEF first
<1> QED
  BY <1>1, <1>2, <1>8, <1>9

\* A sequence with one more at its head.
LEMMA OneAhead ==
  ASSUME NEW S, NEW w \in Seq(S), NEW c \in S, Distinct(w), \A d \in Members(w) : d.id # c.id,
         NEW v, v = <<c>> \o w
  PROVE  v \in Seq(S) /\ Len(v) = Len(w) + 1 /\ Distinct(v) /\ Members(v) = {c} \cup Members(w)
<1>1. v \in Seq(S) /\ Len(v) = Len(w) + 1 /\ Len(w) \in Nat
      /\ DOMAIN v = 1..(Len(w) + 1) /\ DOMAIN w = 1..Len(w)
  OBVIOUS
<1>2. v[1] = c /\ \A i \in 1..Len(w) : v[i + 1] = w[i]
  OBVIOUS
<1>3. \A i \in 2..(Len(w) + 1) : i - 1 \in 1..Len(w) /\ v[i] = w[i - 1]
  BY <1>1, <1>2
<1>4. Members(v) \subseteq Members(w) \cup {c}
  <2> SUFFICES ASSUME NEW i \in 1..(Len(w) + 1) PROVE v[i] \in Members(w) \cup {c}
    BY <1>1 DEF Members
  <2>1. i = 1 \/ i \in 2..(Len(w) + 1)
    BY <1>1
  <2> QED
    BY <1>1, <1>2, <1>3, <2>1 DEF Members
<1>5. Members(w) \subseteq Members(v)
  <2> SUFFICES ASSUME NEW i \in 1..Len(w) PROVE w[i] \in Members(v)
    BY <1>1 DEF Members
  <2>1. i + 1 \in 1..(Len(w) + 1) /\ v[i + 1] = w[i]
    BY <1>1, <1>2
  <2> QED
    BY <1>1, <2>1 DEF Members
<1>6. c \in Members(v)
  <2>1. 1 \in 1..(Len(w) + 1)
    BY <1>1
  <2> QED
    BY <1>1, <1>2, <2>1 DEF Members
<1>7. \A i \in 1..Len(w) : w[i] \in Members(w)
  BY <1>1 DEF Members
<1>8. Distinct(v)
  <2> SUFFICES ASSUME NEW i \in 1..(Len(w) + 1), NEW j \in 1..(Len(w) + 1), v[i].id = v[j].id
               PROVE  i = j
    BY <1>1 DEF Distinct
  <2>1. CASE i \in 2..(Len(w) + 1) /\ j \in 2..(Len(w) + 1)
    <3>1. i - 1 = j - 1
      BY <1>1, <1>3, <2>1 DEF Distinct
    <3> QED
      BY <3>1
  <2>2. CASE i = 1 /\ j \in 2..(Len(w) + 1)
    BY <1>2, <1>3, <1>7, <2>2
  <2>3. CASE i \in 2..(Len(w) + 1) /\ j = 1
    BY <1>2, <1>3, <1>7, <2>3
  <2> QED
    BY <1>1, <2>1, <2>2, <2>3
<1> QED
  BY <1>1, <1>4, <1>5, <1>6, <1>8

\* The identifiers of a sequence's members.
LEMMA KeptIs == ASSUME NEW cs PROVE Kept(cs) = {c.id : c \in Members(cs)}
BY DEF Kept, Members

\* A sweep of at most one cursor more than the limit leaves no more than the
\* limit: one that is dropped is not the platform's, and there is one to drop,
\* since at most one of two cursors is the platform's.
LEMMA SweptBounded ==
  ASSUME NEW cs \in Seq(Cursors), Distinct(cs), Len(cs) <= MaxSessionCursors + 1
  PROVE  /\ Swept(cs) \in Seq(Cursors) /\ Distinct(Swept(cs))
         /\ Members(Swept(cs)) \subseteq Members(cs)
         /\ Len(Swept(cs)) <= MaxSessionCursors
         /\ Platform \in Kept(cs) => Platform \in Kept(Swept(cs))
<1> DEFINE kept == Without(cs, Stale(cs) \ {Platform})
           quiet == Without(kept, {Platform})
           drop == Len(kept) - MaxSessionCursors
           left == Without(kept, Excess(kept))
<1>1. /\ MaxSessionCursors \in Nat /\ MaxSessionCursors >= 1 /\ SweepThreshold \in Nat
      /\ SweepThreshold <= MaxSessionCursors /\ Len(cs) \in Nat
  BY CursorAssumption
<1>2. CASE Len(cs) < SweepThreshold
  <2>1. Swept(cs) = cs
    BY <1>2 DEF Swept
  <2> QED
    BY <1>1, <1>2, <2>1
<1>3. CASE ~ (Len(cs) < SweepThreshold)
  <2>1. Swept(cs) = left
    BY <1>3 DEF Swept
  <2>2. /\ kept \in Seq(Cursors) /\ Len(kept) \in Nat /\ Len(kept) <= Len(cs) /\ Distinct(kept)
        /\ Members(kept) = {c \in Members(cs) : c.id \notin Stale(cs) \ {Platform}}
    BY WithoutLeaves
  <2>3. Excess(kept) = {quiet[i].id : i \in {j \in DOMAIN quiet : j <= drop}}
    BY DEF Excess
  <2> HIDE DEF kept
  <2>4. /\ quiet \in Seq(Cursors) /\ Len(quiet) \in Nat
        /\ Members(quiet) = {c \in Members(kept) : c.id \notin {Platform}}
    BY <2>2, WithoutLeaves
  <2>5. /\ left \in Seq(Cursors) /\ Len(left) \in Nat /\ Len(left) <= Len(kept) /\ Distinct(left)
        /\ Members(left) = {c \in Members(kept) : c.id \notin Excess(kept)}
        /\ (\E c \in Members(kept) : c.id \in Excess(kept)) => Len(left) < Len(kept)
    BY <2>2, WithoutLeaves
  <2> HIDE DEF quiet, left
  <2>6. Platform \notin Excess(kept)
    BY <2>3, <2>4 DEF Members
  <2>7. Platform \in Kept(cs) => Platform \in Kept(left)
    BY <2>2, <2>5, <2>6, KeptIs
  <2>8. Len(left) <= MaxSessionCursors
    <3>1. CASE Len(kept) <= MaxSessionCursors
      BY <1>1, <2>2, <2>5, <3>1
    <3>2. CASE Len(kept) = MaxSessionCursors + 1
      <4>1. 1 \in DOMAIN kept /\ 2 \in DOMAIN kept /\ kept[1] \in Members(kept) /\ kept[2] \in Members(kept)
        <5>1. DOMAIN kept = 1..Len(kept) /\ 1 \in 1..Len(kept) /\ 2 \in 1..Len(kept)
          BY <1>1, <2>2, <3>2
        <5> QED
          BY <5>1 DEF Members
      <4>2. kept[1].id # kept[2].id
        BY <2>2, <4>1 DEF Distinct
      <4>3. Members(quiet) # {}
        BY <2>4, <4>1, <4>2
      <4>4. PICK q \in DOMAIN quiet : quiet[q] \in Members(quiet)
        BY <4>3 DEF Members
      <4>5. 1 \in DOMAIN quiet
        BY <2>4, <4>4
      <4>6. quiet[1].id \in Excess(kept) /\ quiet[1] \in Members(kept)
        <5>1. 1 <= drop
          BY <1>1, <3>2
        <5>2. quiet[1] \in Members(quiet)
          BY <4>5 DEF Members
        <5> QED
          BY <2>3, <2>4, <4>5, <5>1, <5>2
      <4> QED
        BY <1>1, <2>2, <2>5, <3>2, <4>6
    <3> QED
      BY <1>1, <2>2, <3>1, <3>2
  <2> QED
    BY <2>1, <2>2, <2>5, <2>7, <2>8
<1> QED
  BY <1>2, <1>3

----------------------------------------------------------------------------

\* How many places before the p-th key a scan from n visits.
Ahead(n, p) == IF p > n THEN p - 1 - n ELSE p - 1 - n + Size

\* A key has been passed over no more often than the cursor has moved since it
\* could have had its turn.
Passed ==
  \A c \in Members(cursors) : \A p \in 1..Size :
    unseen[c.id][Pool[p]] <= Size - 1 - Ahead(c.n, p)

Forgotten == \A i \in Ids : i \notin Kept(cursors) => \A k \in ToSet(Pool) : unseen[i][k] = 0

CursorInv ==
  /\ CursorTypeOK
  /\ Len(cursors) <= MaxSessionCursors
  /\ Forgotten
  /\ Passed

\* The pool.
LEMMA PoolIs ==
  /\ Size \in Nat /\ Size >= 1 /\ DOMAIN Pool = 1..Size
  /\ ToSet(Pool) = {Pool[p] : p \in 1..Size}
  /\ \A p, q \in 1..Size : Pool[p] = Pool[q] => p = q
<1>1. Pool \in Seq(ToSet(Pool)) /\ Pool # <<>>
  BY CursorAssumption
<1>2. Size \in Nat /\ DOMAIN Pool = 1..Size
  BY <1>1 DEF Size
<1> QED
  BY <1>1, <1>2, CursorAssumption DEF IsInjective, ToSet, Size

\* The next place, around the pool.
LEMMA AdvancedIs ==
  ASSUME NEW n \in 0..(Size - 1)
  PROVE  /\ Advanced(n) = IF n = Size - 1 THEN 0 ELSE n + 1
         /\ Advanced(n) \in 0..(Size - 1)
         /\ Rotated(n)[1] = Pool[n + 1]
<1>1. Size \in Nat /\ Size >= 1
  BY PoolIs
<1>2. Advanced(n) = IF n = Size - 1 THEN 0 ELSE n + 1
  BY <1>1 DEF Advanced
<1>3. Rotated(n)[1] = Pool[((n + 1 - 1) % Size) + 1]
  BY <1>1 DEF Rotated
<1>4. (n + 1 - 1) % Size = n
  BY <1>1
<1> QED
  BY <1>1, <1>2, <1>3, <1>4

\* The cursor moves to the next place: whichever key is chosen, each of the
\* others comes one place nearer.
LEMMA MovesOn ==
  ASSUME NEW n \in 0..(Size - 1), NEW p \in 1..Size
  PROVE  /\ Ahead(n, p) \in 0..(Size - 1) /\ Ahead(Advanced(n), p) \in 0..(Size - 1)
         /\ p # n + 1 => Ahead(Advanced(n), p) = Ahead(n, p) - 1
<1>1. Size \in Nat /\ Size >= 1 /\ Advanced(n) = IF n = Size - 1 THEN 0 ELSE n + 1
  BY PoolIs, AdvancedIs
<1> QED
  BY <1>1 DEF Ahead

\* If the key at the cursor serves, it is the one that is chosen.
LEMMA FirstIsChosen ==
  ASSUME NEW n \in 0..(Size - 1), Pool[n + 1] \in serves
  PROVE  FirstServing(n) = Pool[n + 1]
<1> DEFINE found == {i \in 1..Size : Rotated(n)[i] \in serves}
<1>1. 1 \in found /\ \A i \in found : i \in Int /\ 1 <= i
  BY PoolIs, AdvancedIs
<1>2. Min(found) = 1
  <2>1. Min(found) = CHOOSE x \in found : \A y \in found : x <= y
    BY DEF Min
  <2> HIDE DEF found
  <2>2. \E x \in found : \A y \in found : x <= y
    BY <1>1
  <2>3. Min(found) \in found /\ \A y \in found : Min(found) <= y
    BY <2>1, <2>2
  <2> QED
    BY <1>1, <2>3
<1>3. FirstServing(n) = IF found = {} THEN NoKey ELSE Rotated(n)[Min(found)]
  BY DEF FirstServing
<1> QED
  BY <1>1, <1>2, <1>3, AdvancedIs

----------------------------------------------------------------------------
(* The steps.                                                               *)

\* What the types say, part by part.
LEMMA CursorTypes ==
  ASSUME CursorInv
  PROVE  /\ conns \subseteq Sessions /\ fresh \subseteq Sessions
         /\ request \in [Sessions -> Ids \cup {NoKey}]
         /\ cursors \in Seq(Cursors) /\ Distinct(cursors) /\ Len(cursors) \in Nat
         /\ DOMAIN cursors = 1..Len(cursors)
         /\ Members(cursors) \subseteq Cursors
         /\ serves \subseteq ToSet(Pool)
         /\ unseen \in [Ids -> [ToSet(Pool) -> Nat]]
<1>1. cursors \in Seq(Cursors) /\ Len(cursors) \in Nat /\ DOMAIN cursors = 1..Len(cursors)
  BY DEF CursorInv, CursorTypeOK
<1>2. Members(cursors) \subseteq Cursors
  BY <1>1 DEF Members
<1> QED
  BY <1>1, <1>2 DEF CursorInv, CursorTypeOK, Distinct

\* Initially there are no cursors.
LEMMA CursorInitInv == CursorInit => CursorInv
<1> SUFFICES ASSUME CursorInit PROVE CursorInv
  OBVIOUS
<1>1. Members(cursors) = {} /\ cursors \in Seq(Cursors) /\ Len(cursors) = 0 /\ DOMAIN cursors = {}
  BY DEF CursorInit, Members
<1>2. Len(cursors) <= MaxSessionCursors
  BY <1>1, CursorAssumption
<1>3. CursorTypeOK
  BY <1>1 DEF CursorInit, CursorTypeOK
<1>4. Forgotten
  BY DEF CursorInit, Forgotten
<1>5. Passed
  BY <1>1 DEF Passed
<1> QED
  BY <1>2, <1>3, <1>4, <1>5 DEF CursorInv

\* The sessions' steps touch no cursor.
LEMMA SessionsKeep ==
  ASSUME CursorInv, UNCHANGED <<cursors, serves, unseen>>,
         conns' \subseteq Sessions, fresh' \subseteq Sessions,
         request' \in [Sessions -> Ids \cup {NoKey}]
  PROVE  CursorInv'
BY DEF CursorInv, CursorTypeOK, Forgotten, Passed, Members, Kept

\* A key that stops or starts to serve is waited for anew.
LEMMA ServiceKeeps ==
  ASSUME CursorInv, NEW k \in ToSet(Pool), ServiceChanges(k)
  PROVE  CursorInv'
<1>1. /\ serves' \subseteq ToSet(Pool)
      /\ unseen' = [i \in Ids |-> [unseen[i] EXCEPT ![k] = 0]]
      /\ UNCHANGED <<conns, fresh, request, cursors>>
  BY CursorTypes DEF ServiceChanges, sessionVars
<1>2. \A i \in Ids : \A l \in ToSet(Pool) : unseen'[i][l] = IF l = k THEN 0 ELSE unseen[i][l]
  BY <1>1, CursorTypes
<1>3. unseen' \in [Ids -> [ToSet(Pool) -> Nat]]
  BY <1>1, CursorTypes
<1>4. CursorTypeOK'
  BY <1>1, <1>3 DEF CursorInv, CursorTypeOK
<1>5. Members(cursors)' = Members(cursors) /\ Kept(cursors)' = Kept(cursors)
  BY <1>1 DEF Members, Kept
<1>6. Forgotten'
  BY <1>2, <1>5 DEF CursorInv, Forgotten
<1>7. Passed'
  <2> SUFFICES ASSUME NEW c \in Members(cursors), NEW p \in 1..Size
               PROVE  unseen'[c.id][Pool[p]] <= Size - 1 - Ahead(c.n, p)
    BY <1>5 DEF Passed
  <2>1. c.id \in Ids /\ c.n \in 0..(Size - 1) /\ Pool[p] \in ToSet(Pool)
    BY CursorTypes, PoolIs DEF Cursors
  <2>2. Ahead(c.n, p) \in 0..(Size - 1) /\ Size \in Nat
    BY <2>1, MovesOn, PoolIs
  <2>3. unseen[c.id][Pool[p]] <= Size - 1 - Ahead(c.n, p)
    BY DEF CursorInv, Passed
  <2> QED
    BY <1>2, <2>1, <2>2, <2>3
<1> QED
  BY <1>1, <1>4, <1>6, <1>7 DEF CursorInv

\* Time changes no position.
LEMMA AgeKeeps ==
  ASSUME CursorInv, Age
  PROVE  /\ CursorInv'
         /\ Len(cursors') = Len(cursors) /\ Kept(cursors') = Kept(cursors)
<1>1. UNCHANGED <<conns, fresh, request, serves, unseen>>
  BY DEF Age, sessionVars
<1>2. PICK i \in DOMAIN cursors :
        cursors' = [j \in DOMAIN cursors |-> [cursors[j] EXCEPT !.stale = @ \/ j <= i]]
  BY DEF Age
<1>3. \A j \in DOMAIN cursors : cursors[j] \in Cursors
  BY CursorTypes DEF Members
<1>4. \A j \in DOMAIN cursors :
        /\ cursors'[j] = [cursors[j] EXCEPT !.stale = @ \/ j <= i]
        /\ cursors'[j] \in Cursors
        /\ cursors'[j].id = cursors[j].id /\ cursors'[j].n = cursors[j].n
  BY <1>2, <1>3 DEF Cursors
<1>5. cursors' \in Seq(Cursors) /\ Len(cursors') = Len(cursors) /\ DOMAIN cursors' = DOMAIN cursors
  BY <1>2, <1>4, CursorTypes
<1>6. CursorTypeOK'
  BY <1>1, <1>4, <1>5 DEF CursorInv, CursorTypeOK
<1>7. Kept(cursors') = Kept(cursors)
  BY <1>4, <1>5 DEF Kept
<1>8. Forgotten'
  BY <1>1, <1>7 DEF CursorInv, Forgotten
<1>9. Passed'
  <2> SUFFICES ASSUME NEW j \in DOMAIN cursors, NEW p \in 1..Size
               PROVE  unseen[cursors'[j].id][Pool[p]] <= Size - 1 - Ahead(cursors'[j].n, p)
    BY <1>1, <1>5 DEF Passed, Members
  <2>1. cursors[j] \in Members(cursors)
    BY DEF Members
  <2>2. cursors'[j].id = cursors[j].id /\ cursors'[j].n = cursors[j].n
    BY <1>4
  <2> QED
    BY <2>1, <2>2 DEF CursorInv, Passed
<1> QED
  BY <1>5, <1>6, <1>7, <1>8, <1>9 DEF CursorInv

\* What a sweep keeps when the cursor of another session has been added.
LEMMA SweptWithNew ==
  ASSUME CursorInv, NEW c \in Cursors, c.id \notin Kept(cursors)
  PROVE  LET kept == Swept(<<c>> \o cursors)
         IN  /\ kept \in Seq(Cursors) /\ Distinct(kept)
             /\ Len(kept) <= MaxSessionCursors
             /\ Members(kept) \subseteq Members(cursors) \cup {c}
             /\ Platform \in Kept(cursors) => Platform \in Kept(kept)
<1>1. cursors \in Seq(Cursors) /\ Distinct(cursors) /\ Len(cursors) \in Nat
  BY CursorTypes
<1>2. \A d \in Members(cursors) : d.id # c.id
  BY KeptIs
<1>3. Len(cursors) <= MaxSessionCursors /\ MaxSessionCursors \in Nat
  BY CursorAssumption DEF CursorInv
<1> SUFFICES ASSUME NEW longer, longer = <<c>> \o cursors
             PROVE  LET kept == Swept(longer)
                    IN  /\ kept \in Seq(Cursors) /\ Distinct(kept)
                        /\ Len(kept) <= MaxSessionCursors
                        /\ Members(kept) \subseteq Members(cursors) \cup {c}
                        /\ Platform \in Kept(cursors) => Platform \in Kept(kept)
  OBVIOUS
<1>4. /\ longer \in Seq(Cursors) /\ Len(longer) = Len(cursors) + 1 /\ Distinct(longer)
      /\ Members(longer) = {c} \cup Members(cursors)
  BY <1>1, <1>2, OneAhead, Zenon
<1>5. Len(longer) <= MaxSessionCursors + 1
  BY <1>1, <1>3, <1>4
<1>6. Platform \in Kept(cursors) => Platform \in Kept(longer)
  BY <1>4, KeptIs
<1> QED
  BY <1>4, <1>5, <1>6, SweptBounded

\* A pick appends the cursor it moved, unless it was swept, and drops none of
\* the platform's.
LEMMA PickMoves ==
  ASSUME CursorInv, NEW s \in Sessions, Pick(s)
  PROVE  \E n \in 0..(Size - 1) :
           LET id == request[s]
               moved == [id |-> id, n |-> Advanced(n), stale |-> FALSE]
           IN  /\ cursors' \in Seq(Cursors) /\ Distinct(cursors')
               /\ Len(cursors') <= MaxSessionCursors
               /\ Platform \in Kept(cursors) => Platform \in Kept(cursors')
               /\ \A c \in Members(cursors') :
                    c = moved \/ (c.id # id /\ c \in Members(cursors))
               /\ id \in Kept(cursors) => \E c \in Members(cursors) : c.id = id /\ c.n = n
               /\ id \notin Kept(cursors) => n = 0
               /\ unseen' = [i \in Ids |->
                    IF i \notin Kept(cursors')
                    THEN [k \in ToSet(Pool) |-> 0]
                    ELSE IF i # id THEN unseen[i]
                    ELSE [k \in ToSet(Pool) |->
                            IF k = FirstServing(n) \/ k \notin serves THEN 0 ELSE unseen[i][k] + 1]]
<1> DEFINE id == request[s]
           new == id \notin Kept(cursors)
           first == [id |-> id, n |-> 0, stale |-> TRUE]
           longer == <<first>> \o cursors
           kept == IF new THEN Swept(longer) ELSE cursors
           n == IF new THEN 0 ELSE cursors[At(id)].n
           moved == [id |-> id, n |-> Advanced(n), stale |-> FALSE]
           others == Without(kept, {id})
<1>1. /\ cursors' = IF id \in Kept(kept) THEN Append(others, moved) ELSE kept
      /\ unseen' = [i \in Ids |->
           IF i \notin Kept(cursors')
           THEN [k \in ToSet(Pool) |-> 0]
           ELSE IF i # id THEN unseen[i]
           ELSE [k \in ToSet(Pool) |->
                   IF k = FirstServing(n) \/ k \notin serves THEN 0 ELSE unseen[i][k] + 1]]
  BY DEF Pick
<1>2. id \in Ids
  BY CursorTypes DEF Pick
<1>3. /\ Size \in Nat /\ Size >= 1 /\ MaxSessionCursors \in Nat /\ MaxSessionCursors >= 1
      /\ Len(cursors) <= MaxSessionCursors
  BY PoolIs, CursorAssumption DEF CursorInv
<1>4. first \in Cursors
  BY <1>2, <1>3 DEF Cursors
<1>5. ~new => \E c \in Members(cursors) : c.id = id /\ c.n = n
  <2> SUFFICES ASSUME ~new PROVE \E c \in Members(cursors) : c.id = id /\ c.n = n
    OBVIOUS
  <2>1. \E i \in DOMAIN cursors : cursors[i].id = id
    BY DEF Kept
  <2>2. At(id) \in DOMAIN cursors /\ cursors[At(id)].id = id
    BY <2>1 DEF At
  <2>3. cursors[At(id)] \in Members(cursors)
    BY <2>2 DEF Members
  <2> QED
    BY <2>2, <2>3
<1>6. n \in 0..(Size - 1)
  <2>1. CASE new
    BY <1>3, <2>1
  <2>2. CASE ~new
    BY <1>5, <2>2, CursorTypes DEF Cursors
  <2> QED
    BY <2>1, <2>2
<1>7. moved \in Cursors /\ moved.id = id
  BY <1>2, <1>6, AdvancedIs DEF Cursors
<1> HIDE DEF n
<1>8. /\ kept \in Seq(Cursors) /\ Len(kept) \in Nat /\ Distinct(kept)
      /\ Len(kept) <= MaxSessionCursors
      /\ Members(kept) \subseteq Members(cursors) \cup {first}
      /\ Platform \in Kept(cursors) => Platform \in Kept(kept)
  <2>1. CASE new
    <3>1. first.id \notin Kept(cursors)
      BY <2>1
    <3>2. kept = Swept(<<first>> \o cursors)
      BY <2>1
    <3> HIDE DEF kept, longer, new, first
    <3>3. /\ kept \in Seq(Cursors) /\ Distinct(kept)
          /\ Len(kept) <= MaxSessionCursors
          /\ Members(kept) \subseteq Members(cursors) \cup {first}
          /\ Platform \in Kept(cursors) => Platform \in Kept(kept)
      BY <1>4, <3>1, <3>2, SweptWithNew
    <3> QED
      BY <3>3
  <2>2. CASE ~new
    <3>1. kept = cursors
      BY <2>2
    <3> HIDE DEF kept, new, first
    <3> QED
      BY <1>3, <3>1, CursorTypes
  <2> QED
    BY <2>1, <2>2
<1>9. new \/ kept = cursors
  OBVIOUS
<1>10. first.id = id
  OBVIOUS
<1> HIDE DEF kept, first, new
<1>11. /\ cursors' \in Seq(Cursors) /\ Distinct(cursors') /\ Len(cursors') <= MaxSessionCursors
       /\ Platform \in Kept(kept) => Platform \in Kept(cursors')
       /\ \A c \in Members(cursors') : c = moved \/ (c.id # id /\ c \in Members(kept))
  <2>1. CASE id \in Kept(kept)
    <3>1. PICK d \in Members(kept) : d.id = id
      BY <2>1, KeptIs
    <3>2. /\ others \in Seq(Cursors) /\ Len(others) \in Nat /\ Distinct(others)
          /\ Members(others) = {c \in Members(kept) : c.id \notin {id}}
          /\ Len(others) < Len(kept)
      BY <1>8, <3>1, WithoutLeaves
    <3>3. cursors' = Append(others, moved)
      BY <1>1, <2>1
    <3> HIDE DEF others, moved, id
    <3>4. /\ cursors' \in Seq(Cursors) /\ Len(cursors') = Len(others) + 1
          /\ Members(cursors') = Members(others) \cup {moved}
      BY <1>7, <3>2, <3>3, OneMore
    <3>5. Distinct(cursors')
      BY <1>7, <3>2, <3>3, OneMoreDistinct
    <3>6. Platform \in Kept(kept) => Platform \in Kept(cursors')
      BY <1>7, <3>2, <3>4, KeptIs
    <3> QED
      BY <1>3, <1>7, <1>8, <3>2, <3>4, <3>5, <3>6
  <2>2. CASE id \notin Kept(kept)
    <3>1. cursors' = kept
      BY <1>1, <2>2
    <3>2. \A c \in Members(kept) : c.id # id
      BY <2>2, KeptIs
    <3> HIDE DEF others, moved, id
    <3> QED
      BY <1>8, <3>1, <3>2
  <2> QED
    BY <2>1, <2>2
<1>12. \A c \in Members(cursors') : c = moved \/ (c.id # id /\ c \in Members(cursors))
  BY <1>8, <1>10, <1>11
<1>13. new => n = 0
  BY DEF n, new
<1>14. new <=> id \notin Kept(cursors)
  BY DEF new
<1> WITNESS n \in 0..(Size - 1)
<1> QED
  BY <1>1, <1>5, <1>8, <1>11, <1>12, <1>13, <1>14

\* A pick passes over the keys that serve at most once per place.
LEMMA PickKeeps ==
  ASSUME CursorInv, NEW s \in Sessions, Pick(s)
  PROVE  /\ CursorInv'
         /\ Platform \in Kept(cursors) => Platform \in Kept(cursors')
<1> DEFINE id == request[s]
<1>1. PICK n \in 0..(Size - 1) :
        /\ cursors' \in Seq(Cursors) /\ Distinct(cursors')
        /\ Len(cursors') <= MaxSessionCursors
        /\ Platform \in Kept(cursors) => Platform \in Kept(cursors')
        /\ \A c \in Members(cursors') :
             c = [id |-> id, n |-> Advanced(n), stale |-> FALSE] \/ (c.id # id /\ c \in Members(cursors))
        /\ id \in Kept(cursors) => \E c \in Members(cursors) : c.id = id /\ c.n = n
        /\ id \notin Kept(cursors) => n = 0
        /\ unseen' = [i \in Ids |->
             IF i \notin Kept(cursors')
             THEN [k \in ToSet(Pool) |-> 0]
             ELSE IF i # id THEN unseen[i]
             ELSE [k \in ToSet(Pool) |->
                     IF k = FirstServing(n) \/ k \notin serves THEN 0 ELSE unseen[i][k] + 1]]
  BY PickMoves
<1>2. UNCHANGED <<conns, fresh, request, serves>> /\ id \in Ids
  BY CursorTypes DEF Pick, sessionVars
<1> HIDE DEF id
<1>3. \A i \in Ids : \A k \in ToSet(Pool) :
        unseen'[i][k] = IF i \notin Kept(cursors') THEN 0
                        ELSE IF i # id THEN unseen[i][k]
                        ELSE IF k = FirstServing(n) \/ k \notin serves THEN 0 ELSE unseen[i][k] + 1
  BY <1>1
<1>4. \A i \in Ids : \A k \in ToSet(Pool) : unseen[i][k] \in Nat
  BY CursorTypes
<1>5. unseen' \in [Ids -> [ToSet(Pool) -> Nat]]
  <2>1. \A i \in Ids : unseen'[i] \in [ToSet(Pool) -> Nat]
    <3> TAKE i \in Ids
    <3>1. CASE i \notin Kept(cursors')
      BY <1>1, <3>1
    <3>2. CASE i \in Kept(cursors') /\ i # id
      BY <1>1, <3>2, CursorTypes
    <3>3. CASE i \in Kept(cursors') /\ i = id
      <4>1. unseen'[i] = [k \in ToSet(Pool) |->
              IF k = FirstServing(n) \/ k \notin serves THEN 0 ELSE unseen[i][k] + 1]
        BY <1>1, <3>3
      <4> QED
        BY <1>4, <4>1
    <3> QED
      BY <3>1, <3>2, <3>3
  <2> QED
    BY <1>1, <2>1
<1>6. CursorTypeOK'
  BY <1>1, <1>2, <1>5 DEF CursorInv, CursorTypeOK, Distinct
<1>7. Forgotten'
  BY <1>3 DEF Forgotten
<1>8. Passed'
  <2> SUFFICES ASSUME NEW c \in Members(cursors'), NEW p \in 1..Size
               PROVE  unseen'[c.id][Pool[p]] <= Size - 1 - Ahead(c.n, p)
    BY DEF Passed, Members
  <2>1. Pool[p] \in ToSet(Pool) /\ Size \in Nat
    BY PoolIs
  <2>2. CASE c.id # id /\ c \in Members(cursors)
    <3>1. c.id \in Ids /\ c.n \in 0..(Size - 1) /\ c.id \in Kept(cursors')
      BY <2>2, CursorTypes, KeptIs DEF Cursors
    <3>2. unseen'[c.id][Pool[p]] = unseen[c.id][Pool[p]]
      BY <1>3, <2>1, <2>2, <3>1
    <3> QED
      BY <2>2, <3>2 DEF CursorInv, Passed
  <2>3. CASE c = [id |-> id, n |-> Advanced(n), stale |-> FALSE]
    <3>1. c.id = id /\ c.n = Advanced(n)
      BY <2>3
    <3>2. /\ Ahead(n, p) \in 0..(Size - 1) /\ Ahead(Advanced(n), p) \in 0..(Size - 1)
          /\ p # n + 1 => Ahead(Advanced(n), p) = Ahead(n, p) - 1
      BY MovesOn
    <3>3. unseen[id][Pool[p]] <= Size - 1 - Ahead(n, p)
      <4>1. CASE id \in Kept(cursors)
        BY <1>1, <4>1 DEF CursorInv, Passed
      <4>2. CASE id \notin Kept(cursors)
        <5>1. unseen[id][Pool[p]] = 0
          BY <1>2, <2>1, <4>2 DEF CursorInv, Forgotten
        <5> QED
          BY <2>1, <3>2, <5>1
      <4> QED
        BY <4>1, <4>2
    <3>4. CASE Pool[p] = FirstServing(n) \/ Pool[p] \notin serves
      <4>1. unseen'[id][Pool[p]] = 0
        BY <1>2, <1>3, <2>1, <3>1, <3>4, KeptIs
      <4> QED
        BY <2>1, <3>1, <3>2, <4>1
    <3>5. CASE Pool[p] # FirstServing(n) /\ Pool[p] \in serves
      <4>1. p # n + 1
        BY <3>5, FirstIsChosen
      <4>2. unseen'[id][Pool[p]] = unseen[id][Pool[p]] + 1
        BY <1>2, <1>3, <2>1, <3>1, <3>5, KeptIs
      <4> QED
        BY <1>2, <1>4, <2>1, <3>1, <3>2, <3>3, <4>1, <4>2
    <3> QED
      BY <3>4, <3>5
  <2> QED
    BY <1>1, <2>2, <2>3
<1> QED
  BY <1>1, <1>6, <1>7, <1>8 DEF CursorInv

\* Every step keeps the invariant, the limit and the platform's cursor.
LEMMA CursorStep ==
  ASSUME CursorInv, [CursorNext]_cursorVars
  PROVE  /\ CursorInv'
         /\ Platform \in Kept(cursors) => Platform \in Kept(cursors')
<1>1. CASE UNCHANGED cursorVars
  <2>1. /\ UNCHANGED <<cursors, serves, unseen>>
        /\ conns' \subseteq Sessions /\ fresh' \subseteq Sessions
        /\ request' \in [Sessions -> Ids \cup {NoKey}]
    BY <1>1, CursorTypes DEF cursorVars
  <2> QED
    BY <2>1, SessionsKeep
<1>2. ASSUME NEW s \in Sessions, Connect(s) \/ Arrive(s) \/ Leave(s) \/ Close(s)
      PROVE  CursorInv' /\ UNCHANGED cursors
  <2>1. UNCHANGED <<cursors, serves, unseen>> /\ conns' \subseteq Sessions /\ fresh' \subseteq Sessions
    BY <1>2, CursorTypes DEF Connect, Arrive, Leave, Close
  <2>2. s \in Ids /\ Platform \in Ids
    BY DEF Ids
  <2>3. request' \in [Sessions -> Ids \cup {NoKey}]
    BY <1>2, <2>2, CursorTypes DEF Connect, Arrive, Leave, Close
  <2> QED
    BY <2>1, <2>3, SessionsKeep
<1>3. ASSUME NEW k \in ToSet(Pool), ServiceChanges(k) PROVE CursorInv' /\ UNCHANGED cursors
  BY <1>3, ServiceKeeps DEF ServiceChanges
<1>4. CASE Age
  BY <1>4, AgeKeeps
<1>5. ASSUME NEW s \in Sessions, Pick(s)
      PROVE  CursorInv' /\ (Platform \in Kept(cursors) => Platform \in Kept(cursors'))
  BY <1>5, PickKeeps
<1> QED
  BY <1>1, <1>2, <1>3, <1>4, <1>5 DEF CursorNext

\* The invariant holds of the cursors.
THEOREM CursorInvariant == CursorSpec => []CursorInv
<1>1. CursorInv /\ [CursorNext]_cursorVars => CursorInv'
  BY CursorStep
<1> QED
  BY <1>1, CursorInitInv, PTL DEF CursorSpec

\* The cursors, the sessions and the history have their types.
THEOREM CursorTypeCorrect == CursorSpec => []CursorTypeOK
<1>1. CursorInv => CursorTypeOK
  BY DEF CursorInv
<1> QED
  BY <1>1, CursorInvariant, PTL

\* While a cursor is retained, a key that serves is passed over less often than
\* the pool has keys, whatever the other keys and the other sessions do.
THEOREM EveryKeyInTurn == CursorSpec => []PoolCovered
<1>1. CursorInv => PoolCovered
  <2> SUFFICES ASSUME CursorInv, NEW i \in Ids, NEW k \in ToSet(Pool) PROVE unseen[i][k] < Size
    BY DEF PoolCovered
  <2>1. PICK p \in 1..Size : k = Pool[p]
    BY PoolIs
  <2>2. Size \in Nat /\ Size >= 1 /\ unseen[i][k] \in Nat
    BY PoolIs, CursorTypes
  <2>3. CASE i \notin Kept(cursors)
    BY <2>2, <2>3 DEF CursorInv, Forgotten
  <2>4. CASE i \in Kept(cursors)
    <3>1. PICK c \in Members(cursors) : c.id = i
      BY <2>4, KeptIs
    <3>2. c.n \in 0..(Size - 1)
      BY CursorTypes DEF Cursors
    <3>3. Ahead(c.n, p) \in 0..(Size - 1)
      BY <3>2, MovesOn
    <3>4. unseen[i][k] <= Size - 1 - Ahead(c.n, p)
      BY <2>1, <3>1 DEF CursorInv, Passed
    <3> QED
      BY <2>2, <3>3, <3>4
  <2> QED
    BY <2>3, <2>4
<1> QED
  BY <1>1, CursorInvariant, PTL

\* No pick leaves more cursors than the limit, and none takes the platform's.
THEOREM SweepsBound == CursorSpec => CursorsBounded
<1>1. CursorInv /\ [CursorNext]_cursorVars =>
        [/\ Len(cursors') <= MaxSessionCursors
         /\ Platform \in Kept(cursors) => Platform \in Kept(cursors')]_cursorVars
  BY CursorStep DEF CursorInv
<1> QED
  BY <1>1, CursorInvariant, PTL DEF CursorSpec, CursorsBounded

----------------------------------------------------------------------------
(* The catalog.                                                             *)

Rounds ==
  [pc : {"idle", "probe", "judge", "was", "write", "tell"},
   todo : SUBSET Credentials, state : [Credentials -> {"good", "off", "dead"}],
   answer : [Credentials -> Offers], rapis : SUBSET Rapis, rapi : Rapis \cup {NoRapi},
   verdict : {"invalidate", "recover", "hold"}, was : BOOLEAN]

\* Between the judgement of a RAPI and the last step that rests on it.
Acting == round.pc \in {"was", "write", "tell"}

\* A streak goes past the confirmations only by rounds that are disturbed before
\* they end it.
Paced ==
  \A m \in Rapis :
    streak[m] <= (Confirmations - 1) + (Disturbances - budget)
                   + (IF round.pc = "was" /\ round.rapi = m THEN 1 ELSE 0)

\* The streak, which lives in the database, does not run ahead of the judgements,
\* unless one of them could not end it.
Counted ==
  \A m \in Rapis : m \in unreset \/ streak[m] <= confirmed[m] \/ confirmed[m] >= Confirmations

\* What a judgement rests on stays until its last step.
Judged ==
  /\ Acting => round.rapi \in Rapis /\ round.verdict # "hold"
  /\ RecoveryConfirmed
  /\ AbsenceProven

\* A row that was seen in service, or was just taken out of it, is no cause for
\* its machine to be thawed, or frozen, later, unless it was overtaken.
Caused ==
  /\ FrozenHasCause
  /\ round.pc = "write" /\ round.was /\ frozen[round.rapi] =>
       probe[round.rapi] = "written" \/ overtaken[round.rapi]
  /\ round.pc = "tell" /\ round.verdict = "invalidate" =>
       ~available[round.rapi] \/ overtaken[round.rapi]

CatalogInv ==
  /\ CatalogTypeOK
  /\ Paced
  /\ Counted
  /\ Judged
  /\ Caused

----------------------------------------------------------------------------
(* Types.                                                                   *)

\* What the types say, part by part.
LEMMA CatalogTypes ==
  ASSUME CatalogInv
  PROVE  /\ available \in [Rapis -> BOOLEAN] /\ frozen \in [Rapis -> BOOLEAN]
         /\ streak \in [Rapis -> 0..(Confirmations + Disturbances)]
         /\ key \in [Credentials -> {"good", "off", "dead"}]
         /\ offer \in [Credentials -> Offers]
         /\ probed \in BOOLEAN
         /\ round \in Rounds
         /\ probe \in [Rapis -> {"none", "running", "written"}]
         /\ confirmed \in [Rapis -> Nat] /\ unreset \subseteq Rapis /\ overtaken \in [Rapis -> BOOLEAN]
         /\ budget \in 0..Disturbances
BY DEF CatalogInv, CatalogTypeOK, Rounds

\* The constants are numbers.
LEMMA CatalogNumbers ==
  /\ Confirmations \in Nat /\ Confirmations >= 1 /\ Disturbances \in Nat
  /\ NoRapi \notin Rapis
BY CatalogAssumption

\* A listing that was not made says nothing.
LEMMA SilentIs == Silent \in Offers
BY DEF Silent, Offers

\* A round that has not begun, and one that begins.
LEMMA RestingIs ==
  /\ Resting \in Rounds /\ Resting.pc = "idle" /\ Resting.verdict = "hold"
  /\ \A ks \in SUBSET Credentials : \A s \in [Credentials -> {"good", "off", "dead"}] :
       LET r == [Resting EXCEPT !.pc = "probe", !.todo = ks, !.rapis = Rapis, !.state = s]
       IN  r \in Rounds /\ r.pc = "probe"
BY SilentIs DEF Resting, Rounds

\* A judgement that has ended.
LEMMA AfterRapiIs ==
  ASSUME CatalogInv, NEW m
  PROVE  AfterRapi(m) \in Rounds /\ AfterRapi(m).pc = "judge"
BY CatalogTypes DEF AfterRapi, Rounds

----------------------------------------------------------------------------
(* Steps that touch neither rows, machines nor counts.                      *)

\* A step of the round outside a judgement.
LEMMA CatalogOutside ==
  ASSUME CatalogInv, round' \in Rounds, round'.pc \in {"idle", "probe", "judge"},
         probed' \in BOOLEAN, round.pc # "was", round.pc # "tell",
         UNCHANGED <<available, streak, frozen, key, offer, probe, confirmed, unreset, overtaken, budget>>
  PROVE  CatalogInv'
<1>1. CatalogTypeOK'
  BY CatalogTypes DEF CatalogTypeOK, Rounds
<1>2. Paced' /\ Counted'
  BY CatalogTypes DEF CatalogInv, Paced, Counted
<1>3. Judged'
  BY DEF Judged, Acting, RecoveryConfirmed, AbsenceProven
<1>4. Caused'
  BY DEF CatalogInv, Caused, FrozenHasCause
<1> QED
  BY <1>1, <1>2, <1>3, <1>4 DEF CatalogInv

\* A round begins.
LEMMA StartStep == ASSUME CatalogInv, Start PROVE CatalogInv'
<1>1. round' \in Rounds /\ round'.pc = "probe"
  BY CatalogTypes, RestingIs DEF Start
<1> QED
  BY <1>1, CatalogOutside, CatalogTypes DEF Start

\* A key's models are listed.
LEMMA ListStep == ASSUME CatalogInv, NEW k \in Credentials, List(k) PROVE CatalogInv'
<1>1. round' \in Rounds /\ round'.pc \in {"probe", "judge"}
  BY CatalogTypes DEF List, Rounds
<1> QED
  BY <1>1, CatalogOutside, CatalogTypes DEF List

\* A round ends.
LEMMA FinishStep == ASSUME CatalogInv, Finish PROVE CatalogInv'
<1>1. round' \in Rounds /\ round'.pc = "idle"
  BY RestingIs DEF Finish
<1> QED
  BY <1>1, CatalogOutside, CatalogTypes DEF Finish

----------------------------------------------------------------------------
(* The judgement of a RAPI.                                                 *)

\* The verdict is what the answers show, and the streak counts the rounds that
\* found the model.
LEMMA JudgesStep ==
  ASSUME CatalogInv, round.pc = "judge", NEW m \in round.rapis,
         NEW from \in {0, streak[m]}, Judges(m, from),
         budget' \in 0..Disturbances, budget' <= budget,
         UNCHANGED <<available, frozen, probed, key, offer, probe, overtaken>>
  PROVE  CatalogInv'
<1> DEFINE v == Verdict(m)
           ready == v = "recover" /\ from + 1 >= Confirmations
           act == v = "invalidate" \/ ready
<1>1. /\ streak' = [streak EXCEPT ![m] = IF v = "recover" THEN from + 1 ELSE 0]
      /\ unreset' = IF v = "recover" /\ from > 0 THEN unreset ELSE unreset \ {m}
      /\ round' = IF act THEN [round EXCEPT !.pc = "was", !.rapi = m, !.verdict = v]
                  ELSE AfterRapi(m)
      /\ Counts(m, v)
  BY DEF Judges
<1>2. m \in Rapis /\ round \in Rounds
  BY CatalogTypes DEF Rounds
<1>3. v \in {"recover", "hold", "invalidate"}
  BY DEF Verdict
<1>4. v = "invalidate" => \A k \in Binding[m] : round.state[k] = "good" =>
        Informative(round.answer[k]) /\ m \notin round.answer[k].models
  BY DEF Verdict, Found, Alive
<1> HIDE DEF v
<1>5. /\ unreset' \subseteq Rapis /\ \A n \in Rapis : n # m => (n \in unreset' <=> n \in unreset)
      /\ m \in unreset' <=> m \in unreset /\ v = "recover" /\ from > 0
  BY <1>1, CatalogTypes DEF v
<1>6. /\ round' \in Rounds
      /\ act => /\ round'.pc = "was" /\ round'.rapi = m /\ round'.verdict = v
                /\ round'.state = round.state /\ round'.answer = round.answer
      /\ ~act => round'.pc = "judge"
  <2>1. CASE act
    BY <1>1, <1>2, <1>3, <2>1 DEF Rounds, v
  <2>2. CASE ~act
    BY <1>1, <2>2, AfterRapiIs DEF v
  <2> QED
    BY <2>1, <2>2
<1>7. /\ streak' = [streak EXCEPT ![m] = IF v = "recover" THEN from + 1 ELSE 0]
      /\ confirmed' = [confirmed EXCEPT ![m] = IF v = "recover"
                          THEN IF confirmed[m] < Confirmations THEN confirmed[m] + 1 ELSE confirmed[m]
                          ELSE 0]
  BY <1>1 DEF Counts, v
<1>8. /\ \A n \in Rapis : streak[n] <= (Confirmations - 1) + (Disturbances - budget)
      /\ \A n \in Rapis : streak[n] \in Nat /\ confirmed[n] \in Nat
      /\ \A n \in Rapis : n \in unreset \/ streak[n] <= confirmed[n] \/ confirmed[n] >= Confirmations
      /\ from \in Nat /\ from <= streak[m]
  BY <1>2, CatalogTypes, CatalogNumbers DEF CatalogInv, Paced, Counted
<1>9. /\ \A n \in Rapis : n # m => streak'[n] = streak[n] /\ confirmed'[n] = confirmed[n]
      /\ streak'[m] = IF v = "recover" THEN from + 1 ELSE 0
      /\ confirmed'[m] = IF v = "recover"
                         THEN IF confirmed[m] < Confirmations THEN confirmed[m] + 1 ELSE confirmed[m]
                         ELSE 0
  BY <1>2, <1>7, CatalogTypes
<1>10. Paced'
  <2>1. ready => streak'[m] <= Confirmations + (Disturbances - budget)
    BY <1>2, <1>8, <1>9, CatalogTypes, CatalogNumbers
  <2>2. ~ready => streak'[m] <= Confirmations - 1 + (Disturbances - budget)
    BY <1>2, <1>8, <1>9, CatalogTypes, CatalogNumbers
  <2> QED
    BY <1>2, <1>5, <1>6, <1>8, <1>9, <2>1, <2>2, CatalogTypes, CatalogNumbers DEF Paced
<1>11. Counted'
  BY <1>2, <1>5, <1>8, <1>9, CatalogNumbers DEF Counted
<1>12. CatalogTypeOK'
  <2>1. \A n \in Rapis : streak'[n] \in 0..(Confirmations + Disturbances) /\ confirmed'[n] \in Nat
    BY <1>2, <1>5, <1>8, <1>9, <1>10, CatalogTypes, CatalogNumbers DEF Paced
  <2>2. streak' \in [Rapis -> 0..(Confirmations + Disturbances)] /\ confirmed' \in [Rapis -> Nat]
    BY <1>7, <2>1, CatalogTypes
  <2> QED
    BY <1>5, <1>6, <2>2, CatalogTypes DEF CatalogTypeOK, Rounds
<1>13. Judged'
  <2>1. act /\ v = "recover" => confirmed'[m] >= Confirmations \/ m \in unreset'
    BY <1>2, <1>5, <1>8, <1>9, CatalogNumbers
  <2>2. RecoveryConfirmed'
    BY <1>6, <2>1 DEF RecoveryConfirmed
  <2>3. AbsenceProven'
    BY <1>4, <1>6 DEF AbsenceProven
  <2> QED
    BY <1>2, <1>6, <2>2, <2>3 DEF Judged, Acting
<1>14. Caused'
  BY <1>2, <1>5, <1>6 DEF CatalogInv, Caused, FrozenHasCause
<1> QED
  BY <1>10, <1>11, <1>12, <1>13, <1>14 DEF CatalogInv

\* The streak is read, or counts as zero.
LEMMA JudgeStep == ASSUME CatalogInv, Judge \/ JudgeUnread PROVE CatalogInv'
<1>1. CASE Judge
  BY <1>1, JudgesStep, CatalogTypes, CatalogNumbers DEF Judge
<1>2. CASE JudgeUnread
  <2>1. budget' \in 0..Disturbances /\ budget' <= budget
    BY <1>2, CatalogTypes, CatalogNumbers DEF JudgeUnread, Disturb
  <2> QED
    BY <1>2, <2>1, JudgesStep DEF JudgeUnread
<1> QED
  BY <1>1, <1>2

\* The streak cannot be written: what it counted stays.
LEMMA JudgeUnwrittenStep == ASSUME CatalogInv, JudgeUnwritten PROVE CatalogInv'
<1>1. PICK m \in round.rapis :
        /\ round' = AfterRapi(m) /\ Counts(m, Verdict(m))
        /\ unreset' = IF Verdict(m) = "recover" THEN unreset ELSE unreset \cup {m}
  BY DEF JudgeUnwritten
<1> DEFINE v == Verdict(m)
<1>2. /\ m \in Rapis /\ round.pc = "judge" /\ round' \in Rounds /\ round'.pc = "judge"
      /\ UNCHANGED <<available, streak, frozen, probed, key, offer, probe, overtaken>>
      /\ budget > 0 /\ budget' = budget - 1
  BY <1>1, CatalogTypes, AfterRapiIs DEF JudgeUnwritten, Disturb, Rounds
<1>3. /\ unreset' \subseteq Rapis /\ unreset \subseteq unreset'
      /\ m \in unreset' \/ v = "recover"
  BY <1>1, <1>2, CatalogTypes DEF v
<1>4. confirmed' = [confirmed EXCEPT ![m] = IF v = "recover"
                       THEN IF confirmed[m] < Confirmations THEN confirmed[m] + 1 ELSE confirmed[m]
                       ELSE 0]
  BY <1>1 DEF Counts, v
<1> HIDE DEF v
<1>5. /\ \A n \in Rapis : n # m => confirmed'[n] = confirmed[n]
      /\ v = "recover" => confirmed'[m] >= confirmed[m]
      /\ \A n \in Rapis : confirmed[n] \in Nat /\ confirmed'[n] \in Nat /\ streak[n] \in Nat
  BY <1>2, <1>4, CatalogTypes, CatalogNumbers
<1>6. CatalogTypeOK'
  <2>1. confirmed' \in [Rapis -> Nat]
    BY <1>4, <1>5, CatalogTypes
  <2>2. budget' \in 0..Disturbances
    BY <1>2, CatalogTypes, CatalogNumbers
  <2> QED
    BY <1>2, <1>3, <2>1, <2>2, CatalogTypes DEF CatalogTypeOK, Rounds
<1>7. Paced'
  BY <1>2, CatalogTypes, CatalogNumbers DEF CatalogInv, Paced
<1>8. Counted'
  BY <1>2, <1>3, <1>5, CatalogNumbers DEF CatalogInv, Counted
<1>9. Judged' /\ Caused'
  BY <1>2
  DEF CatalogInv, Judged, Acting, RecoveryConfirmed, AbsenceProven, Caused, FrozenHasCause
<1> QED
  BY <1>6, <1>7, <1>8, <1>9 DEF CatalogInv

\* The count ends, and the row is seen.
LEMMA ReadWasStep == ASSUME CatalogInv, ReadWas PROVE CatalogInv'
<1> DEFINE m == round.rapi
<1>1. /\ round \in Rounds /\ round.pc = "was" /\ m \in Rapis /\ round.verdict # "hold"
      /\ UNCHANGED <<available, frozen, probed, key, offer, probe, confirmed, unreset, overtaken, budget>>
  BY CatalogTypes DEF ReadWas, CatalogInv, Judged, Acting
<1>2. streak' = [streak EXCEPT ![m] = 0]
  BY DEF ReadWas
<1>3. /\ round' \in Rounds /\ round'.pc = "write" /\ round'.rapi = m
      /\ round'.verdict = round.verdict /\ round'.was = available[m]
      /\ round'.state = round.state /\ round'.answer = round.answer
  BY <1>1, CatalogTypes DEF ReadWas, Rounds
<1>4. /\ streak' \in [Rapis -> 0..(Confirmations + Disturbances)] /\ streak'[m] = 0
      /\ \A n \in Rapis : n # m => streak'[n] = streak[n]
  BY <1>1, <1>2, CatalogTypes, CatalogNumbers
<1>5. CatalogTypeOK'
  BY <1>1, <1>3, <1>4, CatalogTypes DEF CatalogTypeOK, Rounds
<1>6. Paced' /\ Counted'
  BY <1>1, <1>3, <1>4, CatalogTypes, CatalogNumbers DEF CatalogInv, Paced, Counted
<1>7. Judged'
  BY <1>1, <1>3 DEF CatalogInv, Judged, Acting, RecoveryConfirmed, AbsenceProven
<1>8. Caused'
  BY <1>1, <1>3 DEF CatalogInv, Caused, FrozenHasCause
<1> QED
  BY <1>5, <1>6, <1>7, <1>8 DEF CatalogInv

\* The row becomes what the verdict says; the scheduler is to be told if it was
\* something else.
LEMMA WriteStep == ASSUME CatalogInv, Write PROVE CatalogInv'
<1> DEFINE m == round.rapi
<1>1. /\ round \in Rounds /\ round.pc = "write" /\ m \in Rapis /\ round.verdict # "hold"
      /\ UNCHANGED <<streak, frozen, probed, key, offer, probe, confirmed, unreset, overtaken, budget>>
  BY CatalogTypes DEF Write, CatalogInv, Judged, Acting
<1>2. available' = [available EXCEPT ![m] = (round.verdict = "recover")]
  BY DEF Write
<1>3. /\ round' \in Rounds
      /\ \/ /\ round'.pc = "tell" /\ round'.rapi = m /\ round'.verdict = round.verdict
            /\ round'.state = round.state /\ round'.answer = round.answer
            /\ round.was # (round.verdict = "recover")
         \/ round'.pc = "judge" /\ round.was = (round.verdict = "recover")
  <2>1. CASE round.was # (round.verdict = "recover")
    BY <1>1, <2>1 DEF Write, Rounds
  <2>2. CASE round.was = (round.verdict = "recover")
    BY <2>2, AfterRapiIs DEF Write
  <2> QED
    BY <2>1, <2>2
<1>4. /\ available' \in [Rapis -> BOOLEAN] /\ available'[m] = (round.verdict = "recover")
      /\ \A n \in Rapis : n # m => available'[n] = available[n]
  BY <1>1, <1>2, CatalogTypes
<1>5. CatalogTypeOK'
  BY <1>1, <1>3, <1>4, CatalogTypes DEF CatalogTypeOK, Rounds
<1>6. Paced' /\ Counted'
  BY <1>1, <1>3, CatalogTypes, CatalogNumbers DEF CatalogInv, Paced, Counted
<1>7. Judged'
  BY <1>1, <1>3 DEF CatalogInv, Judged, Acting, RecoveryConfirmed, AbsenceProven
<1>8. FrozenHasCause'
  <2> SUFFICES ASSUME NEW n \in Rapis, frozen[n], available'[n]
               PROVE  \/ probe[n] = "written"
                      \/ round'.pc = "tell" /\ round'.rapi = n /\ round'.verdict = "recover"
                      \/ overtaken[n]
    BY <1>1 DEF FrozenHasCause
  <2>1. CASE n # m
    BY <1>1, <1>4, <2>1 DEF CatalogInv, Caused, FrozenHasCause
  <2>2. CASE n = m
    BY <1>1, <1>3, <1>4, <2>2 DEF CatalogInv, Caused
  <2> QED
    BY <2>1, <2>2
<1>9. Caused'
  BY <1>1, <1>3, <1>4, <1>8 DEF Caused
<1> QED
  BY <1>5, <1>6, <1>7, <1>9 DEF CatalogInv

\* The scheduler is told.
LEMMA TellStep == ASSUME CatalogInv, Tell PROVE CatalogInv'
<1> DEFINE m == round.rapi
<1>1. /\ round \in Rounds /\ round.pc = "tell" /\ m \in Rapis
      /\ round.verdict \in {"invalidate", "recover"}
      /\ UNCHANGED <<available, streak, probed, key, offer, probe, confirmed, unreset, budget>>
  BY CatalogTypes DEF Tell, CatalogInv, Judged, Acting, Rounds
<1>2. round' \in Rounds /\ round'.pc = "judge"
  BY AfterRapiIs DEF Tell
<1>3. /\ frozen' \in [Rapis -> BOOLEAN] /\ overtaken' \in [Rapis -> BOOLEAN]
      /\ frozen'[m] = (round.verdict = "invalidate")
      /\ overtaken'[m] = (overtaken[m] /\ round.verdict = "invalidate")
      /\ \A n \in Rapis : n # m => frozen'[n] = frozen[n] /\ overtaken'[n] = overtaken[n]
  BY <1>1, CatalogTypes DEF Tell
<1>4. CatalogTypeOK'
  BY <1>1, <1>2, <1>3, CatalogTypes DEF CatalogTypeOK, Rounds
<1>5. Paced' /\ Counted' /\ Judged'
  BY <1>1, <1>2, CatalogTypes, CatalogNumbers
  DEF CatalogInv, Paced, Counted, Judged, Acting, RecoveryConfirmed, AbsenceProven
<1>6. Caused'
  BY <1>1, <1>2, <1>3 DEF CatalogInv, Caused, FrozenHasCause
<1> QED
  BY <1>4, <1>5, <1>6 DEF CatalogInv

\* A statement fails: what was counted stays.
LEMMA StatementFailsStep == ASSUME CatalogInv, StatementFails PROVE CatalogInv'
<1>1. /\ round' \in Rounds /\ round'.pc = "judge" /\ round.pc \in {"was", "write"}
      /\ budget > 0 /\ budget' = budget - 1
      /\ UNCHANGED <<available, streak, frozen, probed, key, offer, probe, confirmed, unreset, overtaken>>
  BY AfterRapiIs DEF StatementFails, Disturb
<1>2. CatalogTypeOK'
  <2>1. budget' \in 0..Disturbances
    BY <1>1, CatalogTypes, CatalogNumbers
  <2> QED
    BY <1>1, <2>1, CatalogTypes DEF CatalogTypeOK, Rounds
<1>3. Paced' /\ Counted'
  BY <1>1, CatalogTypes, CatalogNumbers DEF CatalogInv, Paced, Counted
<1>4. Judged' /\ Caused'
  BY <1>1
  DEF CatalogInv, Judged, Acting, RecoveryConfirmed, AbsenceProven, Caused, FrozenHasCause
<1> QED
  BY <1>2, <1>3, <1>4 DEF CatalogInv

----------------------------------------------------------------------------
(* The gateway, the upstreams, the process.                                 *)

\* What changes no count and leaves the round where it is.
LEMMA CatalogAside ==
  ASSUME CatalogInv, budget' \in {budget, budget - 1}, budget' >= 0,
         UNCHANGED <<streak, probed, round, confirmed, unreset>>,
         available' \in [Rapis -> BOOLEAN], frozen' \in [Rapis -> BOOLEAN],
         probe' \in [Rapis -> {"none", "running", "written"}],
         overtaken' \in [Rapis -> BOOLEAN],
         key' \in [Credentials -> {"good", "off", "dead"}], offer' \in [Credentials -> Offers],
         Caused'
  PROVE  CatalogInv'
<1>1. CatalogTypeOK'
  <2>1. budget' \in 0..Disturbances
    BY CatalogTypes, CatalogNumbers
  <2> QED
    BY <2>1, CatalogTypes DEF CatalogTypeOK, Rounds
<1>2. Paced' /\ Counted'
  BY CatalogTypes, CatalogNumbers DEF CatalogInv, Paced, Counted
<1>3. Judged'
  BY DEF CatalogInv, Judged, Acting, RecoveryConfirmed, AbsenceProven
<1> QED
  BY <1>1, <1>2, <1>3 DEF CatalogInv

\* Requests and probes, which the judgement does not wait for.
LEMMA GatewayStep ==
  ASSUME CatalogInv, NEW m \in Rapis,
         PoolDies(m) \/ ProbeFails(m) \/ ProbeRestores(m) \/ ProbeRevalidates(m)
  PROVE  CatalogInv'
<1>1. CASE PoolDies(m)
  <2>1. /\ available' = [available EXCEPT ![m] = FALSE] /\ frozen' = [frozen EXCEPT ![m] = TRUE]
        /\ overtaken' = [overtaken EXCEPT
             ![m] = overtaken[m] \/ (round.rapi = m /\ round.pc \in {"write", "tell"})]
        /\ UNCHANGED <<streak, probed, key, offer, round, probe, confirmed, unreset>>
        /\ budget > 0 /\ budget' = budget - 1
    BY <1>1 DEF PoolDies, Overtakes, Disturb
  <2>2. Caused'
    BY <2>1, CatalogTypes DEF CatalogInv, Caused, FrozenHasCause, Judged, Acting
  <2> QED
    BY <2>1, <2>2, CatalogTypes, CatalogAside
<1>2. CASE ProbeFails(m)
  <2>1. /\ probe[m] = "running" /\ probe' = [probe EXCEPT ![m] = "none"]
        /\ UNCHANGED <<available, streak, frozen, probed, key, offer, round, confirmed,
                       unreset, overtaken, budget>>
    BY <1>2 DEF ProbeFails
  <2>2. Caused'
    BY <2>1, CatalogTypes DEF CatalogInv, Caused, FrozenHasCause, Judged, Acting
  <2> QED
    BY <2>1, <2>2, CatalogTypes, CatalogAside
<1>3. CASE ProbeRestores(m)
  <2>1. /\ available' = [available EXCEPT ![m] = TRUE] /\ probe' = [probe EXCEPT ![m] = "written"]
        /\ overtaken' = [overtaken EXCEPT
             ![m] = overtaken[m] \/ (round.rapi = m /\ round.pc \in {"write", "tell"})]
        /\ UNCHANGED <<streak, frozen, probed, key, offer, round, confirmed, unreset, budget>>
    BY <1>3 DEF ProbeRestores, Overtakes
  <2>2. Caused'
    BY <2>1, CatalogTypes DEF CatalogInv, Caused, FrozenHasCause, Judged, Acting
  <2> QED
    BY <2>1, <2>2, CatalogTypes, CatalogAside
<1>4. CASE ProbeRevalidates(m)
  <2>1. /\ frozen' = [frozen EXCEPT ![m] = FALSE] /\ probe' = [probe EXCEPT ![m] = "none"]
        /\ overtaken' = [overtaken EXCEPT
             ![m] = round.rapi = m /\ round.pc \in {"write", "tell"}]
        /\ UNCHANGED <<available, streak, probed, key, offer, round, confirmed, unreset, budget>>
    BY <1>4 DEF ProbeRevalidates
  <2>2. Caused'
    BY <2>1, CatalogTypes DEF CatalogInv, Caused, FrozenHasCause, Judged, Acting
  <2> QED
    BY <2>1, <2>2, CatalogTypes, CatalogAside
<1> QED
  BY <1>1, <1>2, <1>3, <1>4

\* Probes begin only when none runs: no row is between its two halves.
LEMMA ProbesBeginStep == ASSUME CatalogInv, ProbesBegin PROVE CatalogInv'
<1>1. /\ \A m \in Rapis : probe[m] = "none"
      /\ probe' \in [Rapis -> {"none", "running", "written"}]
      /\ UNCHANGED <<available, streak, frozen, probed, key, offer, round, confirmed,
                     unreset, overtaken, budget>>
  BY DEF ProbesBegin
<1>2. Caused'
  BY <1>1 DEF CatalogInv, Caused, FrozenHasCause, Judged, Acting
<1> QED
  BY <1>1, <1>2, CatalogTypes, CatalogAside

\* A credential or what is listed for it changes.
LEMMA WorldStep ==
  ASSUME CatalogInv, NEW k \in Credentials, CredentialChanges(k) \/ UpstreamChanges(k)
  PROVE  CatalogInv'
<1>1. /\ key' \in [Credentials -> {"good", "off", "dead"}]
      /\ offer' \in [Credentials -> Offers]
      /\ budget > 0 /\ budget' = budget - 1
      /\ UNCHANGED <<available, streak, frozen, probed, round, probe, confirmed, unreset, overtaken>>
  BY CatalogTypes DEF CredentialChanges, UpstreamChanges, Disturb
<1>2. Caused'
  BY <1>1 DEF CatalogInv, Caused, FrozenHasCause
<1> QED
  BY <1>1, <1>2, CatalogTypes, CatalogAside

\* A restart forgets the round and the machines, and keeps the streaks.
LEMMA RestartCatalogStep == ASSUME CatalogInv, RestartCatalog PROVE CatalogInv'
<1>1. /\ round' \in Rounds /\ round'.pc = "idle"
      /\ budget > 0 /\ budget' = budget - 1
      /\ frozen' = [m \in Rapis |-> FALSE] /\ overtaken' = [m \in Rapis |-> FALSE]
      /\ probe' = [m \in Rapis |-> "none"]
      /\ UNCHANGED <<available, streak, probed, key, offer, confirmed, unreset>>
  BY RestingIs DEF RestartCatalog, Disturb
<1>2. CatalogTypeOK'
  <2>1. budget' \in 0..Disturbances
    BY <1>1, CatalogTypes, CatalogNumbers
  <2> QED
    BY <1>1, <2>1, CatalogTypes DEF CatalogTypeOK, Rounds
<1>3. Paced' /\ Counted'
  BY <1>1, CatalogTypes, CatalogNumbers DEF CatalogInv, Paced, Counted
<1>4. Judged' /\ Caused'
  BY <1>1 DEF Judged, Acting, RecoveryConfirmed, AbsenceProven, Caused, FrozenHasCause
<1> QED
  BY <1>2, <1>3, <1>4 DEF CatalogInv

----------------------------------------------------------------------------
(* The invariant.                                                           *)

\* It holds initially.
LEMMA CatalogInvInit == CatalogInit => CatalogInv
<1> SUFFICES ASSUME CatalogInit PROVE CatalogInv
  OBVIOUS
<1>1. CatalogTypeOK
  <2>1. 0 \in 0..(Confirmations + Disturbances) /\ 0 \in Nat /\ Disturbances \in 0..Disturbances
    BY CatalogNumbers
  <2>2. streak \in [Rapis -> 0..(Confirmations + Disturbances)] /\ confirmed \in [Rapis -> Nat]
    BY <2>1 DEF CatalogInit
  <2>3. round \in Rounds /\ budget \in 0..Disturbances
    BY <2>1, RestingIs DEF CatalogInit
  <2> QED
    BY <2>2, <2>3 DEF CatalogInit, CatalogTypeOK, Rounds
<1>2. Paced /\ Counted
  <2>1. round.pc = "idle" /\ budget = Disturbances /\ \A m \in Rapis : streak[m] = 0 /\ confirmed[m] = 0
    BY RestingIs DEF CatalogInit
  <2> QED
    BY <2>1, CatalogNumbers DEF Paced, Counted
<1>3. Judged /\ Caused
  BY RestingIs
  DEF CatalogInit, Judged, Acting, RecoveryConfirmed, AbsenceProven, Caused, FrozenHasCause
<1> QED
  BY <1>1, <1>2, <1>3 DEF CatalogInv

\* Every step keeps it.
LEMMA CatalogInvNext == CatalogInv /\ [CatalogNext]_catalogVars => CatalogInv'
<1> SUFFICES ASSUME CatalogInv, [CatalogNext]_catalogVars PROVE CatalogInv'
  OBVIOUS
<1>1. CASE UNCHANGED catalogVars
  BY <1>1
  DEF catalogVars, CatalogInv, CatalogTypeOK, Paced, Counted, Judged, Acting,
      RecoveryConfirmed, AbsenceProven, Caused, FrozenHasCause
<1>2. CASE RoundStep
  BY <1>2, ListStep, JudgeStep, ReadWasStep, WriteStep, TellStep, FinishStep DEF RoundStep
<1>3. CASE CatalogNext
  BY <1>2, <1>3, StartStep, JudgeStep, JudgeUnwrittenStep, StatementFailsStep, GatewayStep,
     ProbesBeginStep, WorldStep, RestartCatalogStep
  DEF CatalogNext
<1> QED
  BY <1>1, <1>3

\* The inductive invariant of the catalog synchronisation, over every statement
\* that may fail: a streak is ahead of the judgements only where one of them could
\* not end it, and what a judgement rests on stays until its last step.
THEOREM CatalogInvariant == CatalogSpec => []CatalogInv
BY CatalogInvInit, CatalogInvNext, PTL DEF CatalogSpec

\* Rounds, rows and machines are of their types, and a streak never exceeds the
\* confirmations by more than the disturbances there were.
THEOREM CatalogTypeCorrect == CatalogSpec => []CatalogTypeOK
<1>1. CatalogInv => CatalogTypeOK
  BY DEF CatalogInv
<1> QED
  BY <1>1, CatalogInvariant, PTL

\* However rounds fail and processes restart, what comes back by the catalog was
\* found by as many judgements in a row as are asked for, unless one that found
\* otherwise could not end the streak.
THEOREM RecoveriesConfirmed == CatalogSpec => []RecoveryConfirmed
<1>1. CatalogInv => RecoveryConfirmed
  BY DEF CatalogInv, Judged
<1> QED
  BY <1>1, CatalogInvariant, PTL

\* The catalog takes nothing out of service that a key whose listing failed, or
\* named nothing, might serve.
THEOREM AbsencesProven == CatalogSpec => []AbsenceProven
<1>1. CatalogInv => AbsenceProven
  BY DEF CatalogInv, Judged
<1> QED
  BY <1>1, CatalogInvariant, PTL

\* A frozen machine has a row out of service, or the second half of a recovery
\* is still to come, or somebody overtook a judgement.
THEOREM FrozenForCause == CatalogSpec => []FrozenHasCause
<1>1. CatalogInv => FrozenHasCause
  BY DEF CatalogInv, Caused
<1> QED
  BY <1>1, CatalogInvariant, PTL

----------------------------------------------------------------------------
(* The composition.                                                         *)

\* What is proved of each component holds of the specification that explores them
\* one at a time.
THEOREM PartsOfTheServices ==
  ServicesSpec =>
    Spec /\ CursorSpec /\ BlocksSpec /\ CatalogSpec /\ StreamSpec /\ DefinitionsSpec
<1>1. ServicesInit =>
        Init /\ CursorInit /\ BlocksInit /\ CatalogInit /\ StreamInit /\ DefinitionsInit
  BY DEF ServicesInit
<1>2. [ServicesNext]_servicesVars =>
        /\ [Next]_vars /\ [CursorNext]_cursorVars /\ [BlocksNext]_blockVars
        /\ [CatalogNext]_catalogVars /\ [StreamNext]_streamVars
        /\ [DefinitionsNext]_definitionVars
  BY DEF ServicesNext, servicesVars
<1> QED
  BY <1>1, <1>2, PTL DEF ServicesSpec, Spec, CursorSpec, BlocksSpec, CatalogSpec, StreamSpec,
     DefinitionsSpec

\* The state of every component is of its type, in whatever part is explored: indices
\* stay within the pool, blocks within their TTL, streaks within the rounds there
\* were, the blocks of a message within its chunks, rows within what there may be.
THEOREM ServicesTypesHold == ServicesSpec => []ServicesTypeOK
<1>1. ServicesInit => part \in Parts
  BY DEF ServicesInit
<1>2. part \in Parts /\ [ServicesNext]_servicesVars => (part \in Parts)'
  BY DEF ServicesNext, servicesVars, Parts
<1>3. ServicesSpec => [](part \in Parts)
  BY <1>1, <1>2, PTL DEF ServicesSpec
<1>4. /\ part \in Parts /\ TypeOK
      /\ CursorTypeOK /\ BlocksTypeOK /\ CatalogTypeOK /\ StreamTypeOK /\ DefinitionsTypeOK
      => ServicesTypeOK
  BY DEF ServicesTypeOK
<1> QED
  BY <1>3, <1>4, PartsOfTheServices, QueueTypeCorrect, CursorTypeCorrect, BlocksTypeCorrect,
     CatalogTypeCorrect, StreamTypeCorrect, DefinitionsTypeCorrect, PTL
=============================================================================
