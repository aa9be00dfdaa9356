----------------------------- MODULE WaitQueue -----------------------------
(***************************************************************************)
(* Manager.Wait of the scheduler: requests that found every RAPI of their  *)
(* model cooling sleep here until the earliest recovery.                   *)
(*                                                                         *)
(* One mutex and one condition variable serve the queues of all models.    *)
(* A waiter holds the mutex from the head of its loop until cond.Wait,     *)
(* which joins the wait list BEFORE it releases the mutex.  Three others   *)
(* can wake it: its timer and the Mark... methods, which broadcast under   *)
(* the mutex, and its context watcher, which broadcasts without it and so  *)
(* can come between the waiter's look at ctx.Err() and cond.Wait.          *)
(*                                                                         *)
(* The context of a call ends once: by cancellation (the client is gone)   *)
(* or by a deadline, which may be RequestMaxWait, started anew by every    *)
(* call, or the response timeout of the request.  The generation of a      *)
(* queue only grows and is only compared with the one read on entry, so    *)
(* the model keeps the set of waiters whose queue has been cleared since   *)
(* they entered.                                                           *)
(***************************************************************************)
EXTENDS Integers, FiniteSets

CONSTANTS
  Waiters,       \* the requests
  Lapis,         \* the models requests ask for
  LapiOf,        \* the model each request asks for
  QueueMaxLen

ASSUME WaitersAssumption ==
  /\ IsFiniteSet(Waiters)
  /\ LapiOf \in [Waiters -> Lapis]

\* NewManager replaces a limit that is not positive.
ASSUME QueueAssumption == QueueMaxLen \in Nat \ {0}

VARIABLES
  pc,        \* where each request is: see Places
  due,       \* whether `until` has been reached
  ctx,       \* the context of the call
  watch,     \* the goroutine that waits for ctx.Done()
  armed,     \* whether the timer of this round is pending
  count,     \* length of each queue
  cleared,   \* waiters whose queue's generation has moved on
  result     \* what the last call returned

vars == <<pc, due, ctx, watch, armed, count, cleared, result>>

\* checking, committed: holding the mutex, before and after the look at ctx.
Inside == {"checking", "committed", "asleep", "awake"}

Contexts == {"live", "deadline", "cancelled"}

TypeOK ==
  /\ pc \in [Waiters -> {"out"} \cup Inside]
  /\ due \in [Waiters -> BOOLEAN]
  /\ ctx \in [Waiters -> Contexts]
  /\ watch \in [Waiters -> {"none", "watching", "fired"}]
  /\ armed \in [Waiters -> BOOLEAN]
  /\ count \in [Lapis -> 0..QueueMaxLen]
  /\ cleared \subseteq Waiters
  /\ result \in [Waiters -> {"none", "nil", "full", "cleared", "timeout", "ctx"}]

Init ==
  /\ pc = [w \in Waiters |-> "out"]
  /\ due = [w \in Waiters |-> FALSE]
  /\ ctx = [w \in Waiters |-> "live"]
  /\ watch = [w \in Waiters |-> "none"]
  /\ armed = [w \in Waiters |-> FALSE]
  /\ count = [l \in Lapis |-> 0]
  /\ cleared = {}
  /\ result = [w \in Waiters |-> "none"]

MutexFree == \A w \in Waiters : pc[w] \notin {"checking", "committed"}

\* cond.Broadcast seen from the places: everyone on the wait list wakes.
Woken(places) == [w \in Waiters |-> IF places[w] = "asleep" THEN "awake" ELSE places[w]]

----------------------------------------------------------------------------
(* The waiter.                                                              *)

\* A call begins, with any context its request may have by then, joins the
\* queue and starts its watcher.
Join(w) ==
  /\ pc' = [pc EXCEPT ![w] = "checking"]
  /\ result' = [result EXCEPT ![w] = "none"]
  /\ count' = [count EXCEPT ![LapiOf[w]] = @ + 1]
  /\ watch' = [watch EXCEPT ![w] = "watching"]
  /\ \E c \in Contexts : ctx' = [ctx EXCEPT ![w] = c]
  /\ due' = [due EXCEPT ![w] = FALSE]
  /\ UNCHANGED <<armed, cleared>>

\* A mutant: the deferred decrement also runs for a request that was refused.
EnterRefusalLeaves(w) ==
  /\ pc[w] = "out" /\ MutexFree
  /\ \/ /\ count[LapiOf[w]] >= QueueMaxLen
        /\ result' = [result EXCEPT ![w] = "full"]
        /\ count' = [count EXCEPT ![LapiOf[w]] = @ - 1]
        /\ UNCHANGED <<pc, due, ctx, watch, armed, cleared>>
     \/ count[LapiOf[w]] < QueueMaxLen /\ Join(w)

\* The head of Wait: the request is refused by a full queue, or joins.
Enter(w) ==
  /\ pc[w] = "out" /\ MutexFree
  /\ \/ /\ count[LapiOf[w]] >= QueueMaxLen
        /\ result' = [result EXCEPT ![w] = "full"]
        /\ UNCHANGED <<pc, due, ctx, watch, armed, count, cleared>>
     \/ count[LapiOf[w]] < QueueMaxLen /\ Join(w)

\* The deferred calls: stop the watcher, leave the queue, unlock, drop the
\* context.
Return(w, r, places, clear) ==
  /\ pc' = [places EXCEPT ![w] = "out"]
  /\ result' = [result EXCEPT ![w] = r]
  /\ count' = [count EXCEPT ![LapiOf[w]] = @ - 1]
  /\ watch' = [watch EXCEPT ![w] = "none"]
  /\ ctx' = [ctx EXCEPT ![w] = "live"]
  /\ cleared' = (cleared \cup clear) \ {w}

\* clearQueueLocked: whoever waits for the same model now, w included.
ClearQueue(w) == {v \in Waiters : pc[v] \in Inside /\ LapiOf[v] = LapiOf[w]}

\* A mutant: any end of the context clears the queue.
CheckClearsOnCancel(w) ==
  /\ pc[w] = "checking"
  /\ \/ w \in cleared /\ Return(w, "cleared", pc, {})
     \/ w \notin cleared /\ ctx[w] # "live" /\ Return(w, "timeout", Woken(pc), ClearQueue(w))
     \/ /\ w \notin cleared /\ ctx[w] = "live"
        /\ pc' = [pc EXCEPT ![w] = "committed"]
        /\ UNCHANGED <<ctx, count, cleared, watch, result>>
  /\ UNCHANGED <<due, armed>>

\* The first two tests of the loop.
Check(w) ==
  /\ pc[w] = "checking"
  /\ \/ w \in cleared /\ Return(w, "cleared", pc, {})
     \/ w \notin cleared /\ ctx[w] = "deadline" /\ Return(w, "timeout", Woken(pc), ClearQueue(w))
     \/ w \notin cleared /\ ctx[w] = "cancelled" /\ Return(w, "ctx", pc, {})
     \/ /\ w \notin cleared /\ ctx[w] = "live"
        /\ pc' = [pc EXCEPT ![w] = "committed"]
        /\ UNCHANGED <<ctx, count, cleared, watch, result>>
  /\ UNCHANGED <<due, armed>>

\* The last test; if it is still early, arm the timer and sleep.
Commit(w) ==
  /\ pc[w] = "committed"
  /\ \/ due[w] /\ Return(w, "nil", pc, {}) /\ UNCHANGED armed
     \/ /\ ~due[w]
        /\ pc' = [pc EXCEPT ![w] = "asleep"]
        /\ armed' = [armed EXCEPT ![w] = TRUE]
        /\ UNCHANGED <<ctx, count, cleared, watch, result>>
  /\ UNCHANGED due

\* A mutant: a woken waiter returns without another look at its condition.
RelockWithoutLoop(w) ==
  /\ pc[w] = "awake" /\ MutexFree
  /\ Return(w, "nil", pc, {})
  /\ armed' = [armed EXCEPT ![w] = FALSE]
  /\ UNCHANGED due

\* cond.Wait returns with the mutex; timer.Stop().
Relock(w) ==
  /\ pc[w] = "awake" /\ MutexFree
  /\ pc' = [pc EXCEPT ![w] = "checking"]
  /\ armed' = [armed EXCEPT ![w] = FALSE]
  /\ UNCHANGED <<due, ctx, watch, count, cleared, result>>

----------------------------------------------------------------------------
(* Those who wake waiters, and time.                                        *)

\* A mutant: cond.Signal, which wakes one of the waiters.
TimerSignals(w) ==
  /\ armed[w] /\ due[w] /\ MutexFree
  /\ \E v \in Waiters : pc[v] = "asleep" /\ pc' = [pc EXCEPT ![v] = "awake"]
  /\ armed' = [armed EXCEPT ![w] = FALSE]
  /\ UNCHANGED <<due, ctx, watch, count, cleared, result>>

\* time.AfterFunc(until): locks, broadcasts, unlocks.
TimerFires(w) ==
  /\ armed[w] /\ due[w] /\ MutexFree
  /\ pc' = Woken(pc)
  /\ armed' = [armed EXCEPT ![w] = FALSE]
  /\ UNCHANGED <<due, ctx, watch, count, cleared, result>>

\* The watcher: broadcasts once, without the mutex.
WatcherFires(w) ==
  /\ watch[w] = "watching" /\ ctx[w] # "live"
  /\ pc' = Woken(pc)
  /\ watch' = [watch EXCEPT ![w] = "fired"]
  /\ UNCHANGED <<due, ctx, armed, count, cleared, result>>

\* Mark..., InvalidateRAPI, RevalidateRAPI and the recovery loop, which
\* broadcast whenever an entity has changed.
EntityChanged ==
  /\ MutexFree
  /\ pc' = Woken(pc)
  /\ UNCHANGED <<due, ctx, watch, armed, count, cleared, result>>

UntilReached(w) ==
  /\ pc[w] \in Inside /\ ~due[w]
  /\ due' = [due EXCEPT ![w] = TRUE]
  /\ UNCHANGED <<pc, ctx, watch, armed, count, cleared, result>>

\* A deadline passes or the client goes away.
ContextEnds(w) ==
  /\ pc[w] \in Inside /\ ctx[w] = "live"
  /\ \E e \in Contexts \ {"live"} : ctx' = [ctx EXCEPT ![w] = e]
  /\ UNCHANGED <<pc, due, watch, armed, count, cleared, result>>

----------------------------------------------------------------------------
Next ==
  \/ \E w \in Waiters : \/ Enter(w)
                        \/ Check(w)
                        \/ Commit(w)
                        \/ Relock(w)
                        \/ TimerFires(w)
                        \/ WatcherFires(w)
                        \/ UntilReached(w)
                        \/ ContextEnds(w)
  \/ EntityChanged

Spec == Init /\ [][Next]_vars

\* Time passes, the holder of the mutex goes on, and a goroutine that waits
\* for the mutex gets it in the end: sync.Mutex hands it to one that has
\* starved for a millisecond.  Nothing is assumed of watchers, deadlines,
\* clients or entities.
FairSpec ==
  /\ Spec
  /\ \A w \in Waiters : /\ WF_vars(Check(w) \/ Commit(w))
                        /\ SF_vars(Relock(w) \/ TimerFires(w))
                        /\ WF_vars(UntilReached(w))

----------------------------------------------------------------------------
(* Properties.                                                              *)

WaitersOf(l) == {w \in Waiters : pc[w] \in Inside /\ LapiOf[w] = l}

\* The count a queue is limited by is the number of requests in it, on every
\* way out, and the limit is kept.
QueueCountExact ==
  \A l \in Lapis : /\ count[l] = Cardinality(WaitersOf(l))
                   /\ count[l] <= QueueMaxLen

\* Wait returns nil only at `until`: a broadcast meant for others, however
\* often it comes, sends no request back to a model that is still cooling,
\* and a request whose queue has been cleared is not told to go on.
NilOnlyWhenDue ==
  [][\A w \in Waiters :
       pc[w] \in Inside /\ pc'[w] = "out" /\ result'[w] = "nil"
         => due[w] /\ w \notin cleared]_vars

\* A request is turned away with ErrQueueCleared only because another request
\* for the same model has run into a deadline: a client that goes away takes
\* nobody with it.
ClearedByDeadline ==
  [][\A w \in cleared' \ cleared :
       \E v \in Waiters : /\ LapiOf[v] = LapiOf[w]
                          /\ pc[v] \in Inside /\ ctx[v] = "deadline"
                          /\ result'[v] = "timeout"]_vars

\* Every call of Wait returns, whatever broadcasts are lost.
WaitReturns ==
  \A w \in Waiters : pc[w] \in Inside ~> pc[w] = "out"

\* "Wait blocks until a RAPI might become available or the context is
\* cancelled." (scheduler.go, the comment of Wait.)  Expected to fail: the
\* watcher broadcasts without the mutex, possibly after the waiter has seen a
\* live context and before it sleeps; it then sleeps until `until`.
EndedContextWakes ==
  \A w \in Waiters : ~(pc[w] = "asleep" /\ ctx[w] # "live" /\ watch[w] = "fired")
=============================================================================
