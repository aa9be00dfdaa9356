------------------------------ MODULE EdgeSync ------------------------------
(***************************************************************************)
(* The edge (this gateway, with its SQLite store) and the center (a        *)
(* Supabase project shared by many edges): polling and pulling a bundle,   *)
(* the dirty flag of local edits, the union merge, the push that replaces  *)
(* the center, and management mode, where edits go to the center itself.   *)
(*                                                                         *)
(* A row of the six definition tables is a natural key with a value; of    *)
(* what the tables demand of each other there is one constraint, that two  *)
(* rows of a route's chain may not have the same order_index.  Every       *)
(* statement sent to the center and every transaction or setting of the    *)
(* local database is a step; where the code ignores the error of one, it   *)
(* goes on with what it has.  base, missed, mine, hidden and owed are      *)
(* history variables: no action reads them.                                *)
(***************************************************************************)
EXTENDS Integers, FiniteSets

CONSTANTS
  Keys,
  ValsOf,         \* the values a row of each key may have
  Chain,          \* keys of the rows of one chain; their value is their order_index
  Absent,
  Procs, Poller,  \* goroutines: the dashboard's requests, and the poll loop
  None,
  FreshRows,      \* what an edge that never synchronised may hold
  Roles,          \* what activateCenter may find the saved key to be
  Disturbances    \* bounds edits, pushes, changes by others, faults, crashes

ASSUME RowsAssumption ==
  /\ \A k \in Keys : Absent \notin ValsOf[k]
  /\ None \notin Procs \cup Keys
  /\ Poller \in Procs
  /\ IsFiniteSet(Keys) /\ Chain \subseteq Keys
  /\ Roles \subseteq {"proxy", "management"} /\ "proxy" \in Roles
  /\ Disturbances \in Nat

VARIABLES
  local, good, dirty, manual,   \* SQLite: rows, last_good_version, settings
  center, version,              \* the center: rows, config_meta.version
  gen, manage, lock, op,        \* memory: edgeDirtyGen, manageMode, syncOpMu
  base,       \* what the center held at version good
  missed,     \* an edit the dirty flag does not tell of
  mine,       \* marked edits, made between rounds, which the center lacks
  hidden,     \* keys whose marked edit an ignored error has kept from a round
  owed,       \* a union that was to be pushed back and is not
  budget      \* disturbances left

edgeVars == <<local, good, dirty, manual>>
centerVars == <<center, version>>
history == <<base, missed, mine, hidden, owed>>
vars == <<local, good, dirty, manual, center, version, gen, manage, lock, op,
          base, missed, mine, hidden, owed, budget>>

Values(k) == ValsOf[k] \cup {Absent}

Rows == {r \in [Keys -> UNION {Values(k) : k \in Keys}] : \A k \in Keys : r[k] \in Values(k)}

Empty == [k \in Keys |-> Absent]

\* UNIQUE(lapi_id, order_index), in either database.
Consistent(rows) ==
  \A j, k \in Chain : rows[j] # Absent /\ rows[j] = rows[k] => j = k

NoEnv == [version |-> 0, rows |-> Empty]

Idle == [pc |-> "idle", task |-> "sync", force |-> FALSE, merge |-> FALSE,
         env |-> NoEnv, gen |-> 0, prev |-> 0, snap |-> Empty, todo |-> {},
         key |-> None, quiet |-> FALSE, active |-> FALSE]

Ops ==
  [pc    : {"idle", "lock", "version", "bundle", "adopt", "gen", "export",
            "combine", "probe", "read", "delete", "insert", "rewind", "check",
            "clear", "wrote", "counted"},
   task  : {"sync", "merge", "push", "edit"},
   force : BOOLEAN, merge : BOOLEAN,
   env   : [version : Nat, rows : Rows],
   gen   : Nat, prev : Nat, snap : Rows, todo : SUBSET Keys,
   key   : Keys \cup {None}, quiet : BOOLEAN, active : BOOLEAN]

TypeOK ==
  /\ local \in Rows /\ good \in Nat /\ dirty \in BOOLEAN /\ manual \in BOOLEAN
  /\ center \in Rows /\ version \in Nat
  /\ gen \in Nat /\ manage \in BOOLEAN /\ lock \in Procs \cup {None}
  /\ op \in [Procs -> Ops]
  /\ base \in Rows /\ missed \in BOOLEAN /\ owed \in BOOLEAN
  /\ mine \in Rows /\ hidden \subseteq Keys
  /\ budget \in 0..Disturbances

\* An edge that has never synchronised, or one that has.
Init ==
  /\ center \in {r \in Rows \ {Empty} : Consistent(r)} /\ version = 1
  /\ \/ local \in {r \in FreshRows \cap Rows : Consistent(r)} /\ good = 0
     \/ local = center /\ good = version
  /\ base = local
  /\ dirty = FALSE /\ manual = FALSE /\ manage = FALSE
  /\ gen = 0 /\ lock = None /\ op = [p \in Procs |-> Idle]
  /\ missed = FALSE /\ owed = FALSE /\ mine = Empty /\ hidden = {}
  /\ budget = Disturbances

----------------------------------------------------------------------------
(* Bundles.                                                                 *)

\* A mutant: the center wins a conflict.
UnionCenterWins(l, c) == [k \in Keys |-> IF c[k] # Absent THEN c[k] ELSE l[k]]

\* MergeBundles: the rows of both; of two with one key, the local one.
Union(l, c) == [k \in Keys |-> IF l[k] # Absent THEN l[k] ELSE c[k]]

\* AddsToCenter: rows of the local side only, or in conflict.
AddsToCenter(l, c) == \E k \in Keys : l[k] # Absent /\ l[k] # c[k]

\* ApplyBundle takes no bundle without platforms, and fails on a constraint.
Applicable(rows) == rows # Empty /\ Consistent(rows)

\* History: the edits the center has not held yet, and those a round is not to see.
Arrived(edits, rows) ==
  [k \in Keys |-> IF edits[k] = rows[k] THEN Absent ELSE edits[k]]

Hide(keys) == hidden' = hidden \cup {k \in keys : mine[k] # Absent}

----------------------------------------------------------------------------
(* Steps of a goroutine.                                                    *)

Disturb == budget > 0 /\ budget' = budget - 1

Goto(p, place) == op' = [op EXCEPT ![p].pc = place]

Finish(p) == lock' = None /\ op' = [op EXCEPT ![p] = Idle]

\* syncOnce(false), at the start and at every tick.
Poll ==
  /\ op[Poller].pc = "idle"
  /\ op' = [op EXCEPT ![Poller] = [Idle EXCEPT !.pc = "lock"]]
  /\ UNCHANGED <<edgeVars, centerVars, gen, manage, lock, history, budget>>

\* A goroutine that serves the dashboard.
Free(p) == p # Poller /\ op[p].pc = "idle"

\* handleSyncRefresh.
Refresh(p) ==
  /\ Free(p) /\ Disturb
  /\ op' = [op EXCEPT ![p] = [Idle EXCEPT !.pc = "lock", !.force = TRUE]]
  /\ UNCHANGED <<edgeVars, centerVars, gen, manage, lock, history>>

\* handleSyncPush, once it is confirmed: through the active store of a
\* management node, which has an onChanged, or else through one of its own.
StartPush(p) ==
  /\ Free(p) /\ Disturb
  /\ op' = [op EXCEPT ![p] = [Idle EXCEPT !.pc = "lock", !.task = "push",
                                           !.active = manage]]
  /\ UNCHANGED <<edgeVars, centerVars, gen, manage, lock, history>>

\* syncOpMu.Lock(), a lock its holder must not ask for again.
Lock(p) ==
  /\ op[p].pc = "lock" /\ lock = None
  /\ lock' = p
  /\ op' = [q \in Procs |->
              IF q = p
              THEN [op[p] EXCEPT !.pc = IF op[p].task = "push" THEN "read" ELSE "version"]
              ELSE [op[q] EXCEPT !.quiet = FALSE]]
  /\ UNCHANGED <<edgeVars, centerVars, gen, manage, history, budget>>

\* An ignored error of the local database.
Ignoring(error) == IF error THEN Disturb ELSE UNCHANGED budget

\* There is something to do, merge or pull.  A setting that cannot be read counts
\* as not set: no edits, and no manual mode.
GoOn(p) ==
  /\ version # good
  /\ \E d \in {dirty, FALSE}, m \in {manual, FALSE} :
       /\ op[p].force \/ ~m
       /\ Ignoring(d # dirty \/ (m # manual /\ ~op[p].force))
       /\ IF d = dirty THEN UNCHANGED hidden ELSE Hide(Keys)
       /\ op' = [op EXCEPT ![p].pc = "bundle", ![p].merge = d]
  /\ UNCHANGED lock

\* A mutant: a round with nothing to do returns without Unlock.
DecideKeepsLock(p) ==
  /\ op[p].pc = "version"
  /\ \/ /\ version = good \/ (~op[p].force /\ manual)
        /\ op' = [op EXCEPT ![p] = Idle]
        /\ UNCHANGED <<lock, hidden, budget>>
     \/ GoOn(p)
  /\ UNCHANGED <<edgeVars, centerVars, gen, manage, base, missed, mine, owed>>

\* PullVersion, GetSyncState, edgeDirtyState, pullMode and syncAction: skip,
\* pending, merge or pull.  (A version that arrives late only puts off a round.)
Decide(p) ==
  /\ op[p].pc = "version"
  /\ \/ /\ version = good \/ (~op[p].force /\ manual)
        /\ Finish(p)
        /\ UNCHANGED <<hidden, budget>>
     \/ GoOn(p)
  /\ UNCHANGED <<edgeVars, centerVars, gen, manage, base, missed, mine, owed>>

\* PullBundle: ErrNoChange, or the rows with their version.
PullBundle(p) ==
  /\ op[p].pc = "bundle"
  /\ IF version = good
     THEN Finish(p)
     ELSE /\ op' = [op EXCEPT ![p].pc = IF op[p].merge THEN "gen" ELSE "adopt",
                              ![p].env = [version |-> version, rows |-> center]]
          /\ UNCHANGED lock
  /\ UNCHANGED <<edgeVars, centerVars, gen, manage, history, budget>>

\* A mutant: the stamp is the version of the center at the end of the round.
AdoptAsLatest(p) ==
  /\ op[p].pc = "adopt"
  /\ IF Applicable(op[p].env.rows)
     THEN /\ local' = op[p].env.rows /\ good' = version
          /\ base' = op[p].env.rows
          /\ missed' = FALSE
          /\ owed' = FALSE
     ELSE UNCHANGED <<local, good, base, missed, owed>>
  /\ Finish(p)
  /\ UNCHANGED <<dirty, manual, centerVars, gen, manage, mine, hidden, budget>>

\* pullApplyBundle: one transaction.  The dirty flag is left alone.
Adopt(p) ==
  /\ op[p].pc = "adopt"
  /\ IF Applicable(op[p].env.rows)
     THEN /\ local' = op[p].env.rows /\ good' = op[p].env.version
          /\ base' = op[p].env.rows
          /\ missed' = FALSE
          /\ owed' = FALSE
     ELSE UNCHANGED <<local, good, base, missed, owed>>
  /\ Finish(p)
  /\ UNCHANGED <<dirty, manual, centerVars, gen, manage, mine, hidden, budget>>

----------------------------------------------------------------------------
(* The merge.                                                               *)

\* applyMerge remembers the generation and the version it may go back to.
BeginMerge(p) ==
  /\ op[p].pc = "gen"
  /\ op' = [op EXCEPT ![p].pc = "export", ![p].gen = gen, ![p].prev = good]
  /\ UNCHANGED <<edgeVars, centerVars, gen, manage, lock, history, budget>>

Export(p) ==
  /\ op[p].pc = "export"
  /\ op' = [op EXCEPT ![p].pc = "combine", ![p].snap = local]
  /\ UNCHANGED <<edgeVars, centerVars, gen, manage, lock, history, budget>>

\* MergeBundles and ApplyBundle of its result, over whatever the local rows
\* have become since the export.
Combine(p) ==
  /\ op[p].pc = "combine"
  /\ LET e == op[p].env
         union == Union(op[p].snap, e.rows)
     IN  IF Applicable(union)
         THEN /\ local' = union /\ good' = e.version /\ base' = e.rows
              /\ missed' = FALSE /\ owed' = FALSE
              /\ Goto(p, IF AddsToCenter(op[p].snap, e.rows) THEN "probe" ELSE "check")
              /\ UNCHANGED lock
         ELSE /\ Finish(p)
              /\ UNCHANGED <<local, good, base, missed, owed>>
  /\ UNCHANGED <<dirty, manual, centerVars, gen, manage, mine, hidden, budget>>

\* probeCenterWritability (the key may be read-only, the center away), and
\* the choice of the store in pushBackMerged.
Probe(p) ==
  /\ op[p].pc = "probe"
  /\ \/ /\ op' = [op EXCEPT ![p].pc = "read", ![p].task = "merge",
                                 ![p].active = manage]
        /\ owed' = TRUE
        /\ UNCHANGED lock
     \/ Finish(p) /\ UNCHANGED owed
  /\ UNCHANGED <<edgeVars, centerVars, gen, manage, base, missed, mine, hidden, budget>>

\* A mutant: the stamp of the merge stays although nothing was pushed.
RewindForgotten(p) ==
  /\ op[p].pc = "rewind"
  /\ Finish(p)
  /\ UNCHANGED <<edgeVars, centerVars, gen, manage, history, budget>>

\* A mutant: to the version before the last good one.
RewindTooFar(p) ==
  /\ op[p].pc = "rewind"
  /\ good' = op[p].prev - 1
  /\ Finish(p)
  /\ UNCHANGED <<local, dirty, manual, centerVars, gen, manage, history, budget>>

\* RewindLastGoodVersion after a push-back that failed.
Rewind(p) ==
  /\ op[p].pc = "rewind"
  /\ good' = op[p].prev
  /\ Finish(p)
  /\ UNCHANGED <<local, dirty, manual, centerVars, gen, manage, history, budget>>

\* A mutant: the flag is cleared whatever was edited meanwhile.
ClearUnchecked(p) ==
  /\ op[p].pc = "check"
  /\ Goto(p, "clear")
  /\ UNCHANGED <<edgeVars, centerVars, gen, manage, lock, history, budget>>

\* clearEdgeDirtyIfUnchanged looks at the generation ...
Check(p) ==
  /\ op[p].pc = "check"
  /\ IF gen = op[p].gen
     THEN Goto(p, "clear") /\ UNCHANGED lock
     ELSE Finish(p)
  /\ UNCHANGED <<edgeVars, centerVars, gen, manage, history, budget>>

\* ... and clears the setting in a second step, or ignores that it cannot.  The
\* round ends there, or goes on to align the edge with what it has pushed.
Clear(p) ==
  /\ op[p].pc = "clear"
  /\ dirty' \in {dirty, FALSE} /\ Ignoring(dirty')
  /\ IF op[p].task = "merge"
     THEN /\ op' = [op EXCEPT ![p].pc = "bundle", ![p].merge = FALSE]
          /\ UNCHANGED lock
     ELSE Finish(p)
  /\ UNCHANGED <<local, good, manual, centerVars, gen, manage, history>>

----------------------------------------------------------------------------
(* doSyncPushCore, under the lock, for a merge or for handleSyncPush.       *)

\* The rows to push, by five reads whose errors are ignored: a table that could
\* not be read, or not to its end, is pushed as far as it was.  (An edit between
\* two of them is one made before or after this step, of a row of another table.)
Read(p) ==
  /\ op[p].pc = "read"
  /\ \E got \in SUBSET {k \in Keys : local[k] # Absent} :
       LET lost == {k \in Keys \ got : local[k] # Absent}
       IN  /\ Ignoring(lost # {}) /\ Hide(lost)
           /\ op' = [op EXCEPT ![p].pc = "delete", ![p].todo = got,
                       ![p].snap = [k \in Keys |-> IF k \in got THEN local[k] ELSE Absent]]
  /\ UNCHANGED <<edgeVars, centerVars, gen, manage, lock, base, missed, mine, owed>>

\* ReplaceAll deletes every row ...
Delete(p) ==
  /\ op[p].pc = "delete"
  /\ center' = Empty /\ version' = version + 1
  /\ Goto(p, "insert")
  /\ UNCHANGED <<edgeVars, gen, manage, lock, history, budget>>

\* The center's constraints.
Accepts(k, v) == center[k] = Absent /\ Consistent([center EXCEPT ![k] = v])

\* ... and inserts the local ones, each with a request of its own.  What the
\* center has got is no longer the edge's alone.
Insert(p) ==
  /\ op[p].pc = "insert"
  /\ \E k \in op[p].todo :
       /\ Accepts(k, op[p].snap[k])
       /\ center' = [center EXCEPT ![k] = op[p].snap[k]]
       /\ mine' = Arrived(mine, center')
       /\ op' = [op EXCEPT ![p].todo = @ \ {k}]
  /\ version' = version + 1
  /\ UNCHANGED <<edgeVars, gen, manage, lock, base, missed, hidden, owed, budget>>

\* The last one is in.  The active store's s.changed() calls syncOnce(true)
\* here, inside the push, which asks for the lock its caller holds.
Pushed(p) ==
  /\ op[p].pc = "insert" /\ op[p].todo = {}
  /\ IF op[p].active
     THEN Goto(p, "lock") /\ UNCHANGED lock
     ELSE IF op[p].task = "merge"
          THEN Goto(p, "check") /\ UNCHANGED lock
          ELSE /\ lock' = None
               /\ op' = [op EXCEPT ![p] = [Idle EXCEPT !.pc = "lock", !.force = TRUE]]
  /\ owed' = FALSE
  /\ UNCHANGED <<edgeVars, centerVars, gen, manage, base, missed, mine, hidden, budget>>

\* ReplaceAll comes back with an error; what was deleted or inserted stays.
GivesUp(p) ==
  /\ IF op[p].task = "merge"
     THEN Goto(p, "rewind") /\ UNCHANGED lock
     ELSE Finish(p)
  /\ UNCHANGED <<edgeVars, centerVars, gen, manage, history>>

\* Somebody else has put a row where this one is to go.
Rejected(p) ==
  /\ op[p].pc = "insert"
  /\ \E k \in op[p].todo : ~Accepts(k, op[p].snap[k])
  /\ GivesUp(p)
  /\ UNCHANGED budget

\* A request gets no answer.
PushFails(p) == op[p].pc \in {"delete", "insert"} /\ Disturb /\ GivesUp(p)

\* A request to the center, or a transaction, fails: the round is given up and
\* the last good configuration kept.  An operator is told if it was the rewind.
RoundFails(p) ==
  /\ op[p].pc \in {"version", "bundle", "adopt", "gen", "export", "combine", "rewind"}
  /\ Disturb
  /\ Finish(p)
  /\ owed' = (owed /\ op[p].pc # "rewind")
  /\ UNCHANGED <<edgeVars, centerVars, gen, manage, base, missed, mine, hidden>>

----------------------------------------------------------------------------
(* The dashboard's writes.                                                  *)

\* edgeStore writes to SQLite first ...
EditLocal(p) ==
  /\ Free(p) /\ ~manage /\ Disturb
  /\ \E k \in Keys : \E v \in Values(k) :
       /\ v # local[k]
       /\ local' = [local EXCEPT ![k] = v] /\ Consistent(local')
       /\ mine' = [mine EXCEPT ![k] = Absent] /\ hidden' = hidden \ {k}
       /\ op' = [op EXCEPT ![p] = [Idle EXCEPT !.pc = "wrote", !.task = "edit",
                                               !.key = k, !.quiet = (lock = None)]]
  /\ UNCHANGED <<good, dirty, manual, centerVars, gen, manage, lock, base, missed, owed>>

\* ... then markEdgeDirty advances the generation, unless the gateway has
\* become a management node in between ...
Count(p) ==
  /\ op[p].pc = "wrote"
  /\ IF manage
     THEN /\ op' = [op EXCEPT ![p] = Idle] /\ missed' = TRUE
          /\ UNCHANGED gen
     ELSE /\ Goto(p, "counted") /\ gen' = gen + 1
          /\ missed' = (missed \/ \E q \in Procs : op[q].pc = "clear")
  /\ UNCHANGED <<edgeVars, centerVars, manage, lock, base, mine, hidden, owed, budget>>

\* ... and onEdgeDirty stores the flag, or ignores that it cannot.
Mark(p) ==
  /\ op[p].pc = "counted"
  /\ dirty' \in {TRUE, dirty} /\ Ignoring(~dirty')
  /\ missed' = (missed \/ ~dirty')
  /\ mine' = IF op[p].quiet /\ dirty'
             THEN Arrived([mine EXCEPT ![op[p].key] = local[op[p].key]], center)
             ELSE mine
  /\ op' = [op EXCEPT ![p] = Idle]
  /\ UNCHANGED <<local, good, manual, centerVars, gen, manage, lock, base, hidden, owed>>

\* A management node writes to the center and pulls at once (onChanged).
EditCenter(p) ==
  /\ Free(p) /\ manage /\ Disturb
  /\ \E k \in Keys : \E v \in Values(k) :
       /\ v # center[k]
       /\ center' = [center EXCEPT ![k] = v] /\ Consistent(center')
       /\ mine' = Arrived([mine EXCEPT ![k] = Absent], center')
  /\ version' = version + 1
  /\ op' = [op EXCEPT ![p] = [Idle EXCEPT !.pc = "lock", !.force = TRUE]]
  /\ UNCHANGED <<edgeVars, gen, manage, lock, base, missed, hidden, owed>>

----------------------------------------------------------------------------
(* The environment.                                                         *)

\* Another management node, or somebody in the database's own console.
OthersEdit ==
  /\ Disturb
  /\ \E k \in Keys : \E v \in Values(k) :
       /\ v # center[k]
       /\ center' = [center EXCEPT ![k] = v] /\ Consistent(center')
       /\ mine' = Arrived(mine, center')
  /\ version' = version + 1
  /\ UNCHANGED <<edgeVars, gen, manage, lock, op, base, missed, hidden, owed>>

SetPullMode ==
  /\ Disturb
  /\ manual' = ~manual
  /\ UNCHANGED <<local, good, dirty, centerVars, gen, manage, lock, op, history>>

\* activateCenter, with what probeSBRole says of the saved key.
Activate ==
  /\ Disturb
  /\ \E r \in Roles : manage' = (r = "management")
  /\ UNCHANGED <<edgeVars, centerVars, gen, lock, op, history>>

\* The process ends; SQLite and the center keep what they have.  The start
\* activates management mode for any saved key.
Restart ==
  /\ Disturb
  /\ op' = [p \in Procs |-> Idle] /\ lock' = None /\ gen' = 0
  /\ \E r \in Roles : manage' = (r = "management")
  /\ missed' = (missed \/ \E p \in Procs : op[p].pc \in {"wrote", "counted"})
  /\ owed' = FALSE
  /\ UNCHANGED <<edgeVars, centerVars, base, mine, hidden>>

----------------------------------------------------------------------------
Step(p) ==
  \/ Lock(p) \/ Decide(p) \/ PullBundle(p) \/ Adopt(p)
  \/ BeginMerge(p) \/ Export(p) \/ Combine(p) \/ Probe(p)
  \/ Read(p) \/ Delete(p) \/ Insert(p) \/ Rejected(p) \/ Pushed(p) \/ Rewind(p)
  \/ Check(p) \/ Clear(p)
  \/ Count(p) \/ Mark(p)

Next ==
  \/ \E p \in Procs : \/ Step(p)
                      \/ Refresh(p)
                      \/ StartPush(p)
                      \/ PushFails(p)
                      \/ RoundFails(p)
                      \/ EditLocal(p)
                      \/ EditCenter(p)
  \/ Poll
  \/ OthersEdit
  \/ SetPullMode
  \/ Activate
  \/ Restart

Spec == Init /\ [][Next]_vars

\* A goroutine goes on, and the ticker starts a round again and again.
FairSpec ==
  /\ Spec
  /\ WF_vars(Poll)
  /\ \A p \in Procs : WF_vars(Step(p))

----------------------------------------------------------------------------
(* Properties.                                                              *)

\* An edit that is in SQLite and not yet, or not any more, behind the flag.
Unmarked == missed \/ \E p \in Procs : op[p].pc \in {"wrote", "counted"}

Copy == INSTANCE VersionedCopy WITH
  Contents <- Rows,
  source <- center,
  fetched <- {op[p].env : p \in Procs} \ {NoEnv},
  copy <- local,
  seen <- good,
  touched <- dirty \/ Unmarked

\* The edge is a versioned copy of the center, with edits of its own: the lock,
\* the flag, the generation and the rewind make of pulls, merges and pushes
\* that fail anywhere, of edits and restarts, steps of that abstract protocol.
IsVersionedCopy == Copy!Spec

\* edgeInSync, as the dashboard shows it: equal versions and no dirty flag
\* mean equal rows, unless an edit is on its way to the flag or was kept from
\* it (a restart between the write and the mark, a change to management mode
\* there, a mark between the look at the generation and the clearing, or a flag
\* that could not be written).
InSyncIsHonest ==
  good = version /\ ~dirty /\ ~Unmarked => local = center

\* An edit made and marked between two rounds stays in SQLite, through pulls,
\* merges, failed pushes and restarts, until the center has held it; unless the
\* code has ignored that it could not read the flag, or the rows it was to push.
MarkedEditsSurvive ==
  \A k \in Keys : mine[k] # Absent /\ k \notin hidden => local[k] = mine[k]

\* A union that could be pushed back but was not is merged again: the versions
\* stay different, so that the next round does not skip (the comment of
\* RewindLastGoodVersion).  Without a restart in between.
FailedPushIsRetried == owed /\ lock = None => good # version

\* syncOnce "takes the lock itself; wrapping it in would deadlock"
\* (handleSyncPush).  Expected to fail in management mode: ReplaceAll ends with
\* the store's onChanged, which is syncOnce(true), under the lock of its caller.
NoSelfLock == \A p \in Procs : op[p].pc = "lock" => lock # p

\* "Rows that are on either side are kept ... the center converges, no data is
\* lost" (MergeBundles).  Expected to fail: an edge and a center that have each
\* put a model of their own at one place of a chain have no union the tables
\* would take, and no later round makes one.
UnionApplies ==
  \A p \in Procs :
    op[p].pc = "combine" => Consistent(Union(op[p].snap, op[p].env.rows))

\* Every version of the center is taken over in the end, however the rounds
\* before failed, if the edge pulls by itself.  Not if the center is empty,
\* which ApplyBundle refuses, if a push waits for its own lock (NoSelfLock), or
\* if the two sides have no union (UnionApplies).
Converges ==
  good # version
    ~> \/ good = version \/ manual
       \/ center = Empty \/ ~NoSelfLock \/ ~Consistent(Union(local, center))
=============================================================================
