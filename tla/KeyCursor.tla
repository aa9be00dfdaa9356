------------------------------ MODULE KeyCursor ------------------------------
(***************************************************************************)
(* Where PickAvailableKey begins to scan a platform's credentials: one     *)
(* cursor per client session, or one for the platform when a request has   *)
(* no session that is stable, and the eviction of the cursors of sessions  *)
(* that have gone quiet.  Which keys serve is the subject of KeyHealth and *)
(* changes here at any time.                                               *)
(***************************************************************************)
EXTENDS Integers, Sequences, SequencesExt, Upstreams

CONSTANTS
  Sessions,             \* identifiers of connections, each used once
  Platform,             \* the cursor of the platform, sessionID ""
  Pool,                 \* the keys in the order of their key_index
  SweepThreshold, MaxSessionCursors

ASSUME CursorAssumption ==
  /\ Platform \notin Sessions
  /\ Pool \in Seq(ToSet(Pool)) /\ Pool # <<>> /\ IsInjective(Pool) /\ NoKey \notin ToSet(Pool)
  /\ SweepThreshold \in Nat /\ MaxSessionCursors \in Nat \ {0}
  /\ SweepThreshold <= MaxSessionCursors

VARIABLES
  conns,      \* SessionTracker.sessions: the open connections
  fresh,      \* sessions that have not begun
  request,    \* of each session: no request, or the cursor it may use
  cursors,    \* Manager.keyCursors, the least recently used first
  serves,     \* which keys serve
  unseen      \* history: of a cursor and a key, picks since the key's turn

sessionVars == <<conns, fresh, request>>
cursorVars == <<conns, fresh, request, cursors, serves, unseen>>

Ids == Sessions \cup {Platform}
Size == Len(Pool)

\* A cursor counts its picks, modulo the size of the pool; stale if it was not
\* used within sessionCursorTTL.
Cursors == [id : Ids, n : 0..(Size - 1), stale : BOOLEAN]

CursorTypeOK ==
  /\ conns \subseteq Sessions /\ fresh \subseteq Sessions
  /\ request \in [Sessions -> Ids \cup {NoKey}]
  /\ cursors \in Seq(Cursors) /\ \A i, j \in DOMAIN cursors : cursors[i].id = cursors[j].id => i = j
  /\ serves \subseteq ToSet(Pool)
  /\ unseen \in [Ids -> [ToSet(Pool) -> Nat]]

CursorInit ==
  /\ conns = {} /\ fresh = Sessions
  /\ request = [s \in Sessions |-> NoKey]
  /\ cursors = <<>>
  /\ serves \in SUBSET ToSet(Pool)
  /\ unseen = [i \in Ids |-> [k \in ToSet(Pool) |-> 0]]

----------------------------------------------------------------------------
(* Sessions.                                                                *)

\* ConnContext, or OnConnState with StateNew, whichever is first.
Connect(s) ==
  /\ s \in fresh
  /\ conns' = conns \cup {s} /\ fresh' = fresh \ {s}
  /\ UNCHANGED <<request, cursors, serves, unseen>>

\* InjectSessionID: the session is stable if its connection is tracked still.
Arrive(s) ==
  /\ s \notin fresh /\ request[s] = NoKey
  /\ request' = [request EXCEPT ![s] = IF s \in conns THEN s ELSE Platform]
  /\ UNCHANGED <<conns, fresh, cursors, serves, unseen>>

Leave(s) ==
  /\ request[s] # NoKey
  /\ request' = [request EXCEPT ![s] = NoKey]
  /\ UNCHANGED <<conns, fresh, cursors, serves, unseen>>

\* OnConnState with StateClosed, perhaps under a request that still runs.
Close(s) ==
  /\ s \in conns
  /\ conns' = conns \ {s}
  /\ UNCHANGED <<fresh, request, cursors, serves, unseen>>

----------------------------------------------------------------------------
(* Cursors.                                                                 *)

Kept(cs) == {cs[i].id : i \in DOMAIN cs}

At(id) == CHOOSE i \in DOMAIN cursors : cursors[i].id = id

\* What is left of a sequence of cursors.
Without(cs, ids) ==
  LET left[i \in 0..Len(cs)] ==
        IF i = 0 THEN <<>>
        ELSE IF cs[i].id \in ids THEN left[i - 1] ELSE Append(left[i - 1], cs[i])
  IN  left[Len(cs)]

Stale(cs) == {cs[i].id : i \in {j \in DOMAIN cs : cs[j].stale}}

\* The sessions' cursors, the oldest first, as far as they exceed the limit.
Excess(cs) ==
  LET quiet == Without(cs, {Platform})
      drop == Len(cs) - MaxSessionCursors
  IN  {quiet[i].id : i \in {j \in DOMAIN quiet : j <= drop}}

\* A mutant: the cursor of the platform ages like the others.
SweptPlatform(cs) ==
  LET kept == Without(cs, Stale(cs))
  IN  IF Len(cs) < SweepThreshold THEN cs ELSE Without(kept, Excess(kept))

\* evictCursorsLocked: beyond the threshold, first the stale ones, then the
\* least recently used ones beyond the limit; never the platform's.
Swept(cs) ==
  LET kept == Without(cs, Stale(cs) \ {Platform})
  IN  IF Len(cs) < SweepThreshold THEN cs ELSE Without(kept, Excess(kept))

\* The pool from place n on.
Rotated(n) == [i \in 1..Size |-> Pool[((n + i - 1) % Size) + 1]]

\* A mutant: the cursor stays on a key that serves.
AdvancedPastFailing(n) == IF Rotated(n)[1] \in serves THEN n ELSE (n + 1) % Size

\* A mutant: the place is not taken modulo the size of the pool.
AdvancedPastEnd(n) == n + 1

\* Every call moves the cursor by one, whatever it finds.
Advanced(n) == (n + 1) % Size

\* The first key in the rotation that serves.
FirstServing(n) ==
  LET found == {i \in 1..Size : Rotated(n)[i] \in serves}
  IN  IF found = {} THEN NoKey ELSE Rotated(n)[Min(found)]

\* PickAvailableKey.  A new cursor has no lastUsed when the others are swept:
\* it counts as the oldest and as stale, so that beyond the threshold it does
\* not outlive the call that made it.
Pick(s) ==
  /\ request[s] # NoKey
  /\ LET id == request[s]
         new == id \notin Kept(cursors)
         kept == IF new
                 THEN Swept(<<[id |-> id, n |-> 0, stale |-> TRUE]>> \o cursors)
                 ELSE cursors
         n == IF new THEN 0 ELSE cursors[At(id)].n
         moved == [id |-> id, n |-> Advanced(n), stale |-> FALSE]
     IN  /\ cursors' = IF id \in Kept(kept)
                       THEN Append(Without(kept, {id}), moved)
                       ELSE kept
         /\ unseen' = [i \in Ids |->
              IF i \notin Kept(cursors')
              THEN [k \in ToSet(Pool) |-> 0]
              ELSE IF i # id THEN unseen[i]
              ELSE [k \in ToSet(Pool) |->
                      IF k = FirstServing(n) \/ k \notin serves THEN 0 ELSE unseen[i][k] + 1]]
  /\ UNCHANGED <<sessionVars, serves>>

\* sessionCursorTTL passes over the cursors that were not used for longest.
Age ==
  /\ \E i \in DOMAIN cursors :
       /\ ~cursors[i].stale
       /\ cursors' = [j \in DOMAIN cursors |->
                        [cursors[j] EXCEPT !.stale = @ \/ j <= i]]
  /\ UNCHANGED <<sessionVars, serves, unseen>>

\* A key stops or starts to serve.
ServiceChanges(k) ==
  /\ serves' = IF k \in serves THEN serves \ {k} ELSE serves \cup {k}
  /\ unseen' = [i \in Ids |-> [unseen[i] EXCEPT ![k] = 0]]
  /\ UNCHANGED <<sessionVars, cursors>>

CursorNext ==
  \/ \E s \in Sessions : \/ Connect(s)
                         \/ Arrive(s)
                         \/ Pick(s)
                         \/ Leave(s)
                         \/ Close(s)
  \/ \E k \in ToSet(Pool) : ServiceChanges(k)
  \/ Age

CursorSpec == CursorInit /\ [][CursorNext]_cursorVars

----------------------------------------------------------------------------
(* Properties.                                                              *)

\* However many sessions come within one TTL, no sweep leaves more cursors than
\* the limit, and none takes the position of the platform's.
CursorsBounded ==
  [][/\ Len(cursors') <= MaxSessionCursors
     /\ Platform \in Kept(cursors) => Platform \in Kept(cursors')]_cursorVars

\* While a cursor is retained, a key that serves waits at most one round of the
\* pool for its turn, whatever the other keys do, since the scan begins at every
\* place in turn.  (For pools of one size: models that are bound to different
\* numbers of keys move one another's cursor.  A cursor that is swept in the call
\* that makes it is not retained: beyond the threshold a new session begins at
\* the first key again.)
PoolCovered == \A i \in Ids : \A k \in ToSet(Pool) : unseen[i][k] < Size
=============================================================================
