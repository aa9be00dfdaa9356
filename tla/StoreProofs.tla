----------------------------- MODULE StoreProofs -----------------------------
(***************************************************************************)
(* Theorems about the two parts of the store, for any rows and ids, any    *)
(* number of goroutines and any number of disturbances.                    *)
(*                                                                         *)
(* EdgeSync: it keeps the promise of VersionedCopy, and what that says of  *)
(* the dashboard's in_sync; and what the edge owes the center and what an  *)
(* operator has put into the edge are not forgotten.                       *)
(*                                                                         *)
(* NaturalKeys, for any old databases that fit the schema: a deleted key   *)
(* stays deleted, a start fails only where two models of a platform share a*)
(* URL, the preview says what the migration does, and the migration loses  *)
(* nothing. The invariant has five parts: Sane (types, and what each phase *)
(* finds in the transaction), Deleted (no deleted token is there),         *)
(* OnlyClash (up to the merge of platforms, what was allowed still is),    *)
(* Foretold (the report is what the preview tells of the rows seen so far),*)
(* and Kept (what the transaction has done so far has lost nothing).       *)
(***************************************************************************)
EXTENDS Store, NaturalFacts, FiniteSetTheorems, TLAPS

\* The places of a goroutine that holds syncOpMu.
Critical == {"version", "bundle", "adopt", "gen", "export", "combine", "probe",
             "read", "delete", "insert", "rewind", "check", "clear"}

\* The edge holds what it fetched, or is behind, or has been edited and not yet
\* counted: an edit that is counted afterwards shows in the generation.
Settled ==
  local = base \/ good < version \/ missed \/ \E p \in Procs : op[p].pc = "wrote"

\* What a goroutine knows and nobody takes from it.
Sound(p) ==
  /\ op[p].pc \in Critical => lock = p
  /\ op[p].pc = "idle" => op[p] = Idle
  /\ op[p].env.version <= version /\ op[p].prev < version /\ op[p].gen <= gen
  /\ op[p].pc \in {"adopt", "gen", "export", "combine"} => op[p].env.version # 0
  /\ op[p].pc = "bundle" /\ op[p].merge => dirty
  /\ op[p].pc \in {"gen", "export", "combine"} => dirty
  /\ op[p].pc \in {"gen", "insert"} => good < version
  /\ op[p].pc = "check" => Settled \/ op[p].gen # gen
  /\ op[p].pc = "clear" => Settled

Inv ==
  /\ TypeOK
  /\ good <= version /\ version # 0
  /\ \A p \in Procs : Sound(p)

----------------------------------------------------------------------------
(* Rows and operations.                                                     *)

\* Rows are functions on the keys, with a value of its own kind or none for each.
LEMMA RowsAre ==
  ASSUME NEW r
  PROVE  r \in Rows <=> /\ r = [k \in Keys |-> r[k]]
                        /\ \A k \in Keys : r[k] \in Values(k)
<1>1. ASSUME r \in Rows
      PROVE  r = [k \in Keys |-> r[k]] /\ \A k \in Keys : r[k] \in Values(k)
  BY <1>1 DEF Rows
<1>2. ASSUME r = [k \in Keys |-> r[k]], \A k \in Keys : r[k] \in Values(k)
      PROVE  r \in Rows
  <2>1. \A k \in Keys : r[k] \in UNION {Values(j) : j \in Keys}
    BY <1>2
  <2>2. r \in [Keys -> UNION {Values(j) : j \in Keys}]
    BY <1>2, <2>1
  <2> QED
    BY <1>2, <2>2 DEF Rows
<1> QED
  BY <1>1, <1>2

\* No rows are rows.
LEMMA EmptyIsRows == Empty \in Rows
<1>1. Empty = [k \in Keys |-> Empty[k]] /\ \A k \in Keys : Empty[k] \in Values(k)
  BY DEF Empty, Values
<1> QED
  BY <1>1, RowsAre

\* The union of rows is rows.
LEMMA UnionIsRows ==
  ASSUME NEW l \in Rows, NEW c \in Rows
  PROVE  Union(l, c) \in Rows
<1> DEFINE u == Union(l, c)
<1>1. \A k \in Keys : l[k] \in Values(k) /\ c[k] \in Values(k)
  BY RowsAre
<1>2. u = [k \in Keys |-> u[k]] /\ \A k \in Keys : u[k] \in Values(k)
  BY <1>1 DEF Union
<1> HIDE DEF u
<1>3. u \in Rows
  BY <1>2, RowsAre
<1> QED
  BY <1>3 DEF u

\* The edits that have not arrived are rows.
LEMMA ArrivedIsRows ==
  ASSUME NEW e \in Rows, NEW c
  PROVE  Arrived(e, c) \in Rows
<1> DEFINE a == Arrived(e, c)
<1>1. \A k \in Keys : e[k] \in Values(k)
  BY RowsAre
<1>2. a = [k \in Keys |-> a[k]] /\ \A k \in Keys : a[k] \in Values(k)
  BY <1>1 DEF Arrived, Values
<1> HIDE DEF a
<1>3. a \in Rows
  BY <1>2, RowsAre
<1> QED
  BY <1>3 DEF a

\* An edit of a row makes rows.
LEMMA EditIsRows ==
  ASSUME NEW r \in Rows, NEW k \in Keys, NEW v \in Values(k)
  PROVE  [r EXCEPT ![k] = v] \in Rows
<1> DEFINE e == [r EXCEPT ![k] = v]
<1>1. r = [j \in Keys |-> r[j]] /\ \A j \in Keys : r[j] \in Values(j)
  BY RowsAre
<1>2. e = [j \in Keys |-> e[j]] /\ \A j \in Keys : e[j] \in Values(j)
  BY <1>1
<1> HIDE DEF e
<1>3. e \in Rows
  BY <1>2, RowsAre
<1> QED
  BY <1>3 DEF e

\* A value that a key may have is one of its rows' values, and so is none.
LEMMA ValueOfRows ==
  ASSUME NEW r \in Rows, NEW k \in Keys
  PROVE  r[k] \in Values(k) /\ Absent \in Values(k)
BY RowsAre DEF Values

\* An idle goroutine is one.
LEMMA IdleIsOp == Idle \in Ops /\ NoEnv \in [version : Nat, rows : Rows]
BY EmptyIsRows DEF Idle, Ops, NoEnv

\* The union is the center's rows where the edge adds nothing.
LEMMA NothingAdded ==
  ASSUME NEW l, NEW c \in Rows, ~AddsToCenter(l, c)
  PROVE  Union(l, c) = c
<1>1. \A k \in Keys : Union(l, c)[k] = c[k]
  BY DEF AddsToCenter, Union
<1>2. Union(l, c) = [k \in Keys |-> Union(l, c)[k]]
  BY DEF Union
<1>3. c = [k \in Keys |-> c[k]]
  BY RowsAre
<1> QED
  BY <1>1, <1>2, <1>3

----------------------------------------------------------------------------
(* Other goroutines.                                                        *)

\* An update of one goroutine.
LEMMA OpUpdate ==
  ASSUME TypeOK, NEW p \in Procs, NEW o \in Ops, op' = [op EXCEPT ![p] = o]
  PROVE  /\ op' \in [Procs -> Ops] /\ op'[p] = o
         /\ \A q \in Procs : q # p => op'[q] = op[q]
BY DEF TypeOK

\* The holder of the lock finds nobody else in a critical place, so that it may
\* change whatever such places depend on.
LEMMA OthersOfHolder ==
  ASSUME Inv, lock \in Procs \cup {None}, gen' = gen, version' \in Nat, version <= version',
         NEW q \in Procs, lock # q, op'[q] = op[q]
  PROVE  Sound(q)'
<1>1. op[q].pc \notin Critical
  BY DEF Inv, Sound
<1>2. op[q].env.version \in Nat /\ op[q].prev \in Nat /\ version \in Nat
  BY DEF Inv, TypeOK, Ops
<1> QED
  BY <1>1, <1>2 DEF Inv, Sound, Critical

\* What is done outside the lock disturbs nobody, as long as the edge stays
\* settled, or the generation tells that it is not.
LEMMA OthersLeftAlone ==
  ASSUME Inv, lock' = lock, good' = good, dirty => dirty',
         gen' \in Nat, gen <= gen', version' \in Nat, version <= version',
         NEW q \in Procs, op'[q] = op[q],
         op[q].pc = "clear" /\ Settled => Settled',
         op[q].pc = "check" /\ Settled => Settled' \/ gen' # gen
  PROVE  Sound(q)'
<1>1. /\ op[q].env.version \in Nat /\ op[q].prev \in Nat /\ op[q].gen \in Nat
      /\ version \in Nat /\ good \in Nat /\ gen \in Nat
  BY DEF Inv, TypeOK, Ops
<1>2. Sound(q)
  BY DEF Inv
<1> QED
  BY <1>1, <1>2 DEF Sound

\* Whoever is in a critical place holds the lock.
LEMMA HolderIs ==
  ASSUME Inv, NEW p \in Procs, op[p].pc \in Critical
  PROVE  lock = p /\ \A q \in Procs : q # p => lock # q
BY DEF Inv, Sound

----------------------------------------------------------------------------
(* Steps under the lock.                                                    *)

\* The types of everything but the goroutines.
Typed ==
  /\ local \in Rows /\ good \in Nat /\ dirty \in BOOLEAN /\ manual \in BOOLEAN
  /\ center \in Rows /\ version \in Nat
  /\ gen \in Nat /\ manage \in BOOLEAN /\ lock \in Procs \cup {None}
  /\ base \in Rows /\ missed \in BOOLEAN /\ owed \in BOOLEAN
  /\ mine \in Rows /\ hidden \subseteq Keys
  /\ budget \in 0..Disturbances

\* Numbers that stay keep their order.
LEMMA SameNumbers ==
  ASSUME Inv, version' = version, good' = good
  PROVE  version <= version' /\ good' <= version'
BY DEF Inv, TypeOK

\* The numbers of a goroutine and of the two sides are naturals, in order.
LEMMA NumbersAre ==
  ASSUME Inv, NEW p \in Procs
  PROVE  /\ good \in Nat /\ version \in Nat /\ gen \in Nat /\ good <= version /\ version # 0
         /\ op[p].env.version \in Nat /\ op[p].prev \in Nat /\ op[p].gen \in Nat
         /\ Sound(p) /\ op[p] \in Ops /\ dirty \in BOOLEAN /\ op \in [Procs -> Ops]
BY DEF Inv, TypeOK, Ops

\* The budget stays one, whether an error is ignored or not.
LEMMA DisturbKeepsBudget ==
  ASSUME Inv
  PROVE  /\ Disturb => budget' \in 0..Disturbances
         /\ \A b : Ignoring(b) => budget' \in 0..Disturbances
BY RowsAssumption DEF Inv, TypeOK, Disturb, Ignoring

\* A decision ends the round, or goes on with what it takes the flag for; if that
\* is wrong, it hides what is marked.
LEMMA DecideIs ==
  ASSUME Inv, NEW p \in Procs, Decide(p)
  PROVE  /\ op[p].pc = "version" /\ budget' \in 0..Disturbances
         /\ UNCHANGED <<edgeVars, centerVars, gen, manage, base, missed, mine, owed>>
         /\ hidden \subseteq hidden' /\ hidden' \subseteq Keys
         /\ \/ Finish(p) /\ UNCHANGED hidden
            \/ \E d \in {dirty, FALSE} :
                 /\ op' = [op EXCEPT ![p] = [op[p] EXCEPT !.pc = "bundle", !.merge = d]]
                 /\ lock' = lock
                 /\ \/ d = dirty /\ UNCHANGED hidden
                    \/ \A k \in Keys : mine[k] # Absent => k \in hidden'
<1>1. op[p].pc = "version"
      /\ UNCHANGED <<edgeVars, centerVars, gen, manage, base, missed, mine, owed>>
  BY DEF Decide
<1>2. hidden \subseteq Keys /\ budget \in 0..Disturbances
  BY DEF Inv, TypeOK
<1>3. CASE Finish(p) /\ UNCHANGED <<hidden, budget>>
  BY <1>1, <1>2, <1>3
<1>4. CASE GoOn(p)
  <2>1. PICK d \in {dirty, FALSE} : \E m \in {manual, FALSE} :
          /\ Ignoring(d # dirty \/ (m # manual /\ ~op[p].force))
          /\ IF d = dirty THEN UNCHANGED hidden ELSE Hide(Keys)
          /\ op' = [op EXCEPT ![p].pc = "bundle", ![p].merge = d]
    BY <1>4 DEF GoOn
  <2>2. budget' \in 0..Disturbances
    BY <2>1, DisturbKeepsBudget
  <2>3. op' = [op EXCEPT ![p] = [op[p] EXCEPT !.pc = "bundle", !.merge = d]] /\ lock' = lock
    BY <1>4, <2>1, NumbersAre DEF GoOn
  <2>4. CASE d = dirty
    BY <1>1, <1>2, <2>1, <2>2, <2>3, <2>4
  <2>5. CASE d # dirty
    <3>1. hidden' = hidden \cup {k \in Keys : mine[k] # Absent}
      BY <2>1, <2>5 DEF Hide
    <3> QED
      BY <1>1, <1>2, <2>2, <2>3, <3>1
  <2> QED
    BY <2>4, <2>5
<1> QED
  BY <1>3, <1>4 DEF Decide

\* The flag, read or written with an ignored error, is a flag.
LEMMA FlagIs ==
  ASSUME dirty \in BOOLEAN
  PROVE  /\ \A d \in {dirty, FALSE} : d \in BOOLEAN /\ (d => dirty)
         /\ dirty' \in {TRUE, dirty} => dirty' \in BOOLEAN /\ (dirty => dirty')
<1>1. ASSUME NEW d \in {dirty, FALSE} PROVE d \in BOOLEAN /\ (d => dirty)
  <2>1. CASE d = dirty
    BY <2>1, Zenon
  <2>2. CASE d = FALSE
    BY <2>2, Zenon
  <2> QED
    BY <1>1, <2>1, <2>2, Zenon
<1>2. ASSUME dirty' \in {TRUE, dirty} PROVE dirty' \in BOOLEAN /\ (dirty => dirty')
  <2>1. CASE dirty' = TRUE
    BY <2>1, Zenon
  <2>2. CASE dirty' = dirty
    BY <2>2, Zenon
  <2> QED
    BY <1>2, <2>1, <2>2, Zenon
<1> QED
  BY <1>1, <1>2, Zenon

\* The rows to push are local ones; what of them is marked and was lost is hidden.
LEMMA ReadIs ==
  ASSUME Inv, NEW p \in Procs, Read(p)
  PROVE  /\ op[p].pc = "read" /\ budget' \in 0..Disturbances
         /\ UNCHANGED <<edgeVars, centerVars, gen, manage, lock, base, missed, mine, owed>>
         /\ hidden \subseteq hidden' /\ hidden' \subseteq Keys
         /\ \E rest \in SUBSET Keys, snap \in Rows :
              /\ op' = [op EXCEPT ![p] = [op[p] EXCEPT !.pc = "delete", !.snap = snap,
                                                      !.todo = rest]]
              /\ \A k \in Keys : local[k] # Absent /\ mine[k] # Absent /\ k \notin hidden'
                    => k \in rest /\ snap[k] = local[k]
<1>1. op[p].pc = "read"
      /\ UNCHANGED <<edgeVars, centerVars, gen, manage, lock, base, missed, mine, owed>>
  BY DEF Read
<1>2. hidden \subseteq Keys /\ local \in Rows
  BY DEF Inv, TypeOK
<1>3. PICK got \in SUBSET {k \in Keys : local[k] # Absent} :
        /\ Ignoring({k \in Keys \ got : local[k] # Absent} # {})
        /\ Hide({k \in Keys \ got : local[k] # Absent})
        /\ op' = [op EXCEPT ![p].pc = "delete", ![p].todo = got,
                    ![p].snap = [k \in Keys |-> IF k \in got THEN local[k] ELSE Absent]]
  BY DEF Read
<1> DEFINE snap == [k \in Keys |-> IF k \in got THEN local[k] ELSE Absent]
<1>4. budget' \in 0..Disturbances
  BY <1>3, DisturbKeepsBudget
<1>5. snap \in Rows
  <2>1. \A k \in Keys : snap[k] \in Values(k)
    BY <1>2, ValueOfRows
  <2>2. snap = [k \in Keys |-> snap[k]]
    OBVIOUS
  <2> HIDE DEF snap
  <2> QED
    BY <2>1, <2>2, RowsAre
<1>6. hidden' = hidden \cup {k \in {j \in Keys \ got : local[j] # Absent} : mine[k] # Absent}
  BY <1>3 DEF Hide
<1>7. \A k \in Keys : local[k] # Absent /\ mine[k] # Absent /\ k \notin hidden'
        => k \in got /\ snap[k] = local[k]
  BY <1>6
<1>8. op' = [op EXCEPT ![p] = [op[p] EXCEPT !.pc = "delete", !.snap = snap, !.todo = got]]
  BY <1>3, NumbersAre
<1>9. hidden \subseteq hidden' /\ hidden' \subseteq Keys /\ got \in SUBSET Keys
  BY <1>2, <1>6
<1> HIDE DEF snap
<1> QED
  BY <1>1, <1>4, <1>5, <1>7, <1>8, <1>9

\* A step of the holder to a place where it is sound; it may give the lock back.
LEMMA HolderStep ==
  ASSUME Inv, NEW p \in Procs, op[p].pc \in Critical,
         NEW o \in Ops, op' = [op EXCEPT ![p] = o],
         Typed', gen' = gen, version <= version', good' <= version',
         Sound(p)'
  PROVE  Inv'
<1>1. op' \in [Procs -> Ops] /\ \A q \in Procs : q # p => op'[q] = op[q]
  BY OpUpdate DEF Inv
<1>2. TypeOK'
  BY <1>1 DEF TypeOK, Typed
<1>3. ASSUME NEW q \in Procs, q # p PROVE Sound(q)'
  BY <1>1, <1>3, HolderIs, OthersOfHolder DEF Inv, TypeOK, Typed
<1>4. version' # 0
  BY DEF Inv, TypeOK, Typed
<1> QED
  BY <1>2, <1>3, <1>4 DEF Inv

\* A step of the holder that gives the round up.
LEMMA FinishStep ==
  ASSUME Inv, NEW p \in Procs, op[p].pc \in Critical, Finish(p),
         Typed', gen' = gen, version <= version', good' <= version'
  PROVE  Inv'
<1>1. op' = [op EXCEPT ![p] = Idle] /\ Idle \in Ops
  BY IdleIsOp DEF Finish
<1>2. op'[p] = Idle
  BY <1>1 DEF Inv, TypeOK
<1>3. Sound(p)'
  BY <1>2 DEF Inv, TypeOK, Typed, Sound, Idle, NoEnv, Critical
<1> QED
  BY <1>1, <1>3, HolderStep

\* The decision to fetch, or that there is nothing to do.
LEMMA DecideStep == ASSUME Inv, NEW p \in Procs, Decide(p) PROVE Inv'
<1>1. op[p].pc \in Critical /\ op[p] \in Ops /\ op[p].pc = "version"
  BY DecideIs DEF Inv, TypeOK, Critical
<1>2. UNCHANGED <<edgeVars, centerVars, gen, manage, base, missed, mine, owed>>
      /\ budget' \in 0..Disturbances /\ hidden' \subseteq Keys
  BY DecideIs
<1>3. Finish(p) \/ lock' = lock
  BY DecideIs
<1>4. Typed' /\ gen' = gen /\ version' = version /\ good' = good /\ dirty' = dirty
  BY <1>2, <1>3 DEF Inv, TypeOK, Typed, Finish, edgeVars, centerVars
<1>5. CASE Finish(p)
  BY <1>1, <1>4, <1>5, SameNumbers, FinishStep
<1>6. ASSUME NEW d \in {dirty, FALSE}, lock' = lock,
             op' = [op EXCEPT ![p] = [op[p] EXCEPT !.pc = "bundle", !.merge = d]]
      PROVE  Inv'
  <2> DEFINE o == [op[p] EXCEPT !.pc = "bundle", !.merge = d]
  <2>0. d \in BOOLEAN /\ (d => dirty)
    BY <1>6, NumbersAre, FlagIs, Zenon
  <2>1. o \in Ops
    BY <1>1, <2>0 DEF Ops
  <2>2. op'[p] = o /\ o.pc = "bundle" /\ o.merge = d /\ o.env = op[p].env
        /\ o.prev = op[p].prev /\ o.gen = op[p].gen
    BY <1>6, NumbersAre DEF Ops
  <2>3. Sound(p)'
    <3> HIDE DEF o
    <3> QED
      BY <1>1, <1>2, <1>4, <1>6, <2>0, <2>2, NumbersAre, HolderIs DEF Sound, Critical, edgeVars
  <2> QED
    BY <1>1, <1>2, <1>4, <1>6, <2>1, <2>3, SameNumbers, HolderStep
<1> QED
  BY <1>5, <1>6, DecideIs

\* What is fetched is the center, at a version that is not the edge's.
LEMMA PullBundleStep == ASSUME Inv, NEW p \in Procs, PullBundle(p) PROVE Inv'
<1>1. op[p].pc \in Critical /\ op[p] \in Ops
  BY DEF Inv, TypeOK, PullBundle, Critical
<1>2. Typed' /\ gen' = gen /\ version' = version /\ good' = good
  BY HolderIs, <1>1 DEF Inv, TypeOK, Typed, PullBundle, Finish, edgeVars, centerVars, history
<1>3. CASE version = good
  BY <1>1, <1>2, <1>3, FinishStep DEF Inv, TypeOK, PullBundle
<1>4. CASE version # good
  <2> DEFINE o == [op[p] EXCEPT !.pc = IF op[p].merge THEN "gen" ELSE "adopt",
                                !.env = [version |-> version, rows |-> center]]
  <2>1. op' = [op EXCEPT ![p] = o] /\ lock' = lock /\ dirty' = dirty
    BY <1>4 DEF PullBundle, edgeVars
  <2>2. o \in Ops
    BY <1>1 DEF Ops, Inv, TypeOK
  <2>3. op'[p] = o
    BY <2>1 DEF Inv, TypeOK
  <2>4. Sound(p)'
    BY SMTT(20), <1>2, <1>4, <2>1, <2>3, NumbersAre, HolderIs, <1>1 DEF Sound, Critical, Ops, PullBundle
  <2> QED
    BY <1>1, <1>2, <2>1, <2>2, <2>4, SameNumbers, HolderStep
<1> QED
  BY <1>3, <1>4

\* The edge becomes what was fetched, or stays.
LEMMA AdoptStep == ASSUME Inv, NEW p \in Procs, Adopt(p) PROVE Inv'
<1>1. op[p].pc \in Critical /\ op[p] \in Ops /\ Finish(p)
  BY DEF Inv, TypeOK, Adopt, Critical
<1>2. Sound(p)
  BY DEF Inv
<1>3. Typed' /\ gen' = gen /\ version' = version /\ good' <= version
  BY <1>1, <1>2 DEF Inv, TypeOK, Typed, Adopt, Finish, Ops, Sound, centerVars
<1> QED
  BY <1>1, <1>3, FinishStep DEF Inv, TypeOK

\* The merge remembers a version the center has left behind.
LEMMA BeginMergeStep == ASSUME Inv, NEW p \in Procs, BeginMerge(p) PROVE Inv'
<1> DEFINE o == [op[p] EXCEPT !.pc = "export", !.gen = gen, !.prev = good]
<1>1. op[p].pc \in Critical /\ op[p] \in Ops
  BY DEF Inv, TypeOK, BeginMerge, Critical
<1>2. /\ Typed' /\ gen' = gen /\ version' = version /\ good' = good
      /\ op' = [op EXCEPT ![p] = o] /\ lock' = lock /\ dirty' = dirty
  BY DEF Inv, TypeOK, Typed, BeginMerge, edgeVars, centerVars, history
<1>3. o \in Ops
  BY <1>1 DEF Ops, Inv, TypeOK
<1>4. op'[p] = o
  BY <1>2 DEF Inv, TypeOK
<1>5. Sound(p)'
  BY <1>1, <1>2, <1>4 DEF Inv, TypeOK, Sound, Critical, Ops, BeginMerge
<1> QED
  BY <1>1, <1>2, <1>3, <1>5, SameNumbers, HolderStep

\* The rows that will be merged are rows.
LEMMA ExportStep == ASSUME Inv, NEW p \in Procs, Export(p) PROVE Inv'
<1> DEFINE o == [op[p] EXCEPT !.pc = "combine", !.snap = local]
<1>1. op[p].pc \in Critical /\ op[p] \in Ops
  BY DEF Inv, TypeOK, Export, Critical
<1>2. /\ Typed' /\ gen' = gen /\ version' = version /\ good' = good
      /\ op' = [op EXCEPT ![p] = o] /\ lock' = lock /\ dirty' = dirty
  BY DEF Inv, TypeOK, Typed, Export, edgeVars, centerVars, history
<1>3. o \in Ops
  BY <1>1 DEF Ops, Inv, TypeOK
<1>4. op'[p] = o
  BY <1>2 DEF Inv, TypeOK
<1>5. Sound(p)'
  BY <1>1, <1>2, <1>4 DEF Inv, TypeOK, Sound, Critical, Ops, Export
<1> QED
  BY <1>1, <1>2, <1>3, <1>5, SameNumbers, HolderStep

\* A union that adds nothing to the center is what was fetched.
LEMMA CombineStep == ASSUME Inv, NEW p \in Procs, Combine(p) PROVE Inv'
<1> DEFINE e == op[p].env
           union == Union(op[p].snap, e.rows)
           adds == AddsToCenter(op[p].snap, e.rows)
           o == [op[p] EXCEPT !.pc = IF adds THEN "probe" ELSE "check"]
<1>1. op[p].pc \in Critical /\ op[p] \in Ops
  BY DEF Inv, TypeOK, Combine, Critical
<1>2. Sound(p) /\ union \in Rows /\ e.rows \in Rows /\ e.version \in Nat /\ op[p].snap \in Rows
  BY <1>1, UnionIsRows DEF Inv, Ops
<1>3. CASE ~Applicable(union)
  <2>1. Finish(p) /\ Typed' /\ gen' = gen /\ version' = version /\ good' = good
    BY <1>3 DEF Inv, TypeOK, Typed, Combine, Finish, centerVars
  <2> QED
    BY <1>1, <2>1, FinishStep DEF Inv, TypeOK
<1>4. CASE Applicable(union)
  <2>1. /\ local' = union /\ good' = e.version /\ base' = e.rows
        /\ op' = [op EXCEPT ![p] = o] /\ lock' = lock /\ dirty' = dirty
        /\ gen' = gen /\ version' = version
    BY <1>4 DEF Combine, Goto, centerVars
  <2>2. Typed'
    BY <1>2, <1>4, <2>1 DEF Inv, TypeOK, Typed, Combine, centerVars
  <2>3. o \in Ops
    BY <1>1 DEF Ops
  <2>4. op'[p] = o
    BY <2>1 DEF Inv, TypeOK
  <2>5. ~adds => Settled'
    BY <1>2, <2>1, NothingAdded DEF Settled
  <2>6. Sound(p)'
    BY <1>1, <1>2, <2>1, <2>4, <2>5 DEF Inv, TypeOK, Sound, Critical, Ops, Combine
  <2>7. version <= version' /\ good' <= version'
    BY <1>2, <2>1 DEF Sound, Inv, TypeOK
  <2> HIDE DEF o
  <2> QED
    BY <1>1, <2>1, <2>2, <2>3, <2>6, <2>7, HolderStep
<1> QED
  BY <1>3, <1>4

\* A round that has nothing to push back, or cannot, ends.
LEMMA ProbeStep == ASSUME Inv, NEW p \in Procs, Probe(p) PROVE Inv'
<1> DEFINE o == [op[p] EXCEPT !.pc = "read", !.task = "merge", !.active = manage]
<1>1. op[p].pc \in Critical /\ op[p] \in Ops
  BY DEF Inv, TypeOK, Probe, Critical
<1>2. Typed' /\ gen' = gen /\ version' = version /\ good' = good
  BY DEF Inv, TypeOK, Typed, Probe, Finish, edgeVars, centerVars
<1>3. CASE Finish(p)
  BY <1>1, <1>2, <1>3, SameNumbers, FinishStep
<1>4. CASE op' = [op EXCEPT ![p] = o] /\ lock' = lock
  <2>1. o \in Ops
    BY <1>1 DEF Ops, Inv, TypeOK
  <2>2. op'[p] = o
    BY <1>4 DEF Inv, TypeOK
  <2>3. Sound(p)'
    BY <1>1, <1>2, <1>4, <2>2, NumbersAre, HolderIs DEF Sound, Critical, Ops
  <2> QED
    BY <1>1, <1>2, <1>4, <2>1, <2>3, SameNumbers, HolderStep
<1> QED
  BY <1>3, <1>4 DEF Probe

\* The rows to push are the local ones.
LEMMA ReadStep == ASSUME Inv, NEW p \in Procs, Read(p) PROVE Inv'
<1>1. op[p].pc \in Critical /\ op[p] \in Ops /\ op[p].pc = "read"
  BY ReadIs DEF Inv, TypeOK, Critical
<1>2. UNCHANGED <<edgeVars, centerVars, gen, manage, lock, base, missed, mine, owed>>
      /\ budget' \in 0..Disturbances /\ hidden' \subseteq Keys
  BY ReadIs
<1>3. Typed' /\ gen' = gen /\ version' = version /\ good' = good
  BY <1>2 DEF Inv, TypeOK, Typed, edgeVars, centerVars
<1>4. PICK rest \in SUBSET Keys, snap \in Rows :
        op' = [op EXCEPT ![p] = [op[p] EXCEPT !.pc = "delete", !.snap = snap, !.todo = rest]]
  BY ReadIs
<1> DEFINE o == [op[p] EXCEPT !.pc = "delete", !.snap = snap, !.todo = rest]
<1>5. o \in Ops
  BY <1>1 DEF Ops
<1>6. op'[p] = o
  BY <1>4, NumbersAre
<1>7. Sound(p)'
  BY <1>1, <1>2, <1>3, <1>6, NumbersAre, HolderIs DEF Sound, Critical, Ops, edgeVars
<1> QED
  BY <1>1, <1>3, <1>4, <1>5, <1>7, SameNumbers, HolderStep

\* When its rows are deleted the center is ahead of every edge.
LEMMA DeleteStep == ASSUME Inv, NEW p \in Procs, Delete(p) PROVE Inv'
<1> DEFINE o == [op[p] EXCEPT !.pc = "insert"]
<1>1. op[p].pc \in Critical /\ op[p] \in Ops
  BY DEF Inv, TypeOK, Delete, Critical
<1>2. /\ Typed' /\ gen' = gen /\ version' = version + 1 /\ good' = good
      /\ op' = [op EXCEPT ![p] = o] /\ lock' = lock /\ dirty' = dirty
  BY EmptyIsRows DEF Inv, TypeOK, Typed, Delete, Goto, edgeVars, history
<1>3. o \in Ops
  BY <1>1 DEF Ops
<1>4. op'[p] = o
  BY <1>2 DEF Inv, TypeOK
<1>5. Sound(p)'
  BY <1>1, <1>2, <1>4, NumbersAre, HolderIs DEF Sound, Critical, Ops
<1>6. version <= version' /\ good' <= version'
  BY <1>2, NumbersAre
<1> QED
  BY <1>1, <1>2, <1>3, <1>5, <1>6, HolderStep

\* It stays ahead while rows are inserted, and holds rows.
LEMMA InsertStep == ASSUME Inv, NEW p \in Procs, Insert(p) PROVE Inv'
<1>1. op[p].pc \in Critical /\ op[p] \in Ops
  BY DEF Inv, TypeOK, Insert, Critical
<1>2. PICK k \in op[p].todo : /\ center' = [center EXCEPT ![k] = op[p].snap[k]]
                              /\ mine' = Arrived(mine, center')
                              /\ op' = [op EXCEPT ![p].todo = @ \ {k}]
  BY DEF Insert
<1> DEFINE o == [op[p] EXCEPT !.todo = op[p].todo \ {k}]
<1>3. k \in Keys /\ op[p].snap[k] \in Values(k)
  BY <1>1, ValueOfRows DEF Ops
<1>4. center' \in Rows /\ mine' \in Rows
  BY <1>2, <1>3, EditIsRows, ArrivedIsRows DEF Inv, TypeOK
<1>5. /\ gen' = gen /\ version' = version + 1 /\ good' = good
      /\ op' = [op EXCEPT ![p] = o] /\ lock' = lock /\ dirty' = dirty
  <2>1. gen' = gen /\ version' = version + 1 /\ good' = good /\ lock' = lock /\ dirty' = dirty
    BY DEF Insert, edgeVars
  <2> QED
    BY <1>2, <2>1
<1>6. Typed'
  BY <1>4, NumbersAre DEF Inv, TypeOK, Typed, Insert, edgeVars
<1>7. o \in Ops
  BY <1>1 DEF Ops
<1>8. op'[p] = o
  BY <1>5 DEF Inv, TypeOK
<1>9. Sound(p)'
  BY <1>1, <1>5, <1>8, NumbersAre, HolderIs DEF Sound, Critical, Ops, Insert
<1>10. version <= version' /\ good' <= version'
  BY <1>5, NumbersAre
<1> QED
  BY <1>1, <1>5, <1>6, <1>7, <1>9, <1>10, HolderStep

\* After the last insertion the edge is behind what it has pushed.
LEMMA PushedStep == ASSUME Inv, NEW p \in Procs, Pushed(p) PROVE Inv'
<1> DEFINE o == IF op[p].active THEN [op[p] EXCEPT !.pc = "lock"]
                ELSE IF op[p].task = "merge" THEN [op[p] EXCEPT !.pc = "check"]
                ELSE [Idle EXCEPT !.pc = "lock", !.force = TRUE]
<1>1. op[p].pc \in Critical /\ op[p] \in Ops
  BY DEF Inv, TypeOK, Pushed, Critical
<1>2. /\ Typed' /\ gen' = gen /\ version' = version /\ good' = good
      /\ op' = [op EXCEPT ![p] = o] /\ dirty' = dirty
      /\ op[p].task = "merge" => lock' = lock
  BY DEF Inv, TypeOK, Typed, Pushed, Goto, edgeVars, centerVars
<1>3. o \in Ops
  BY <1>1, IdleIsOp DEF Ops
<1>4. op'[p] = o
  BY <1>2 DEF Inv, TypeOK
<1>5. good < version
  BY NumbersAre DEF Sound, Pushed
<1>6. Sound(p)'
  BY <1>1, <1>2, <1>4, <1>5, NumbersAre, HolderIs
  DEF Sound, Settled, Critical, Ops, Idle, NoEnv
<1> HIDE DEF o
<1> QED
  BY <1>1, <1>2, <1>3, <1>6, SameNumbers, HolderStep

\* A push that fails goes on to the rewind, or ends.
LEMMA GivesUpStep ==
  ASSUME Inv, NEW p \in Procs, op[p].pc \in {"delete", "insert"}, GivesUp(p),
         budget' \in 0..Disturbances
  PROVE  Inv'
<1> DEFINE o == [op[p] EXCEPT !.pc = "rewind"]
<1>1. op[p].pc \in Critical /\ op[p] \in Ops
  BY DEF Inv, TypeOK, Critical
<1>2. Typed' /\ gen' = gen /\ version' = version /\ good' = good
  BY DEF Inv, TypeOK, Typed, GivesUp, Finish, edgeVars, centerVars, history
<1>3. CASE Finish(p)
  BY <1>1, <1>2, <1>3, SameNumbers, FinishStep
<1>4. CASE ~Finish(p)
  <2>1. op' = [op EXCEPT ![p] = o] /\ lock' = lock
    BY <1>4 DEF GivesUp, Goto
  <2>2. o \in Ops
    BY <1>1 DEF Ops
  <2>3. op'[p] = o
    BY <2>1 DEF Inv, TypeOK
  <2>4. Sound(p)'
    BY <1>1, <1>2, <2>1, <2>3, NumbersAre, HolderIs DEF Sound, Critical, Ops
  <2> QED
    BY <1>1, <1>2, <2>1, <2>2, <2>4, SameNumbers, HolderStep
<1> QED
  BY <1>3, <1>4

\* A row is in the way.
LEMMA RejectedStep == ASSUME Inv, NEW p \in Procs, Rejected(p) PROVE Inv'
BY GivesUpStep DEF Inv, TypeOK, Rejected

\* A request fails.
LEMMA PushFailsStep == ASSUME Inv, NEW p \in Procs, PushFails(p) PROVE Inv'
<1>1. budget' \in 0..Disturbances
  BY RowsAssumption DEF Inv, TypeOK, PushFails, Disturb
<1> QED
  BY <1>1, GivesUpStep DEF PushFails

\* A round that fails ends.
LEMMA RoundFailsStep == ASSUME Inv, NEW p \in Procs, RoundFails(p) PROVE Inv'
<1>1. op[p].pc \in Critical /\ Finish(p)
  BY DEF RoundFails, Critical
<1>2. Typed' /\ gen' = gen /\ version' = version /\ good' = good
  BY RowsAssumption
  DEF Inv, TypeOK, Typed, RoundFails, Disturb, Finish, edgeVars, centerVars
<1> QED
  BY <1>1, <1>2, SameNumbers, FinishStep

\* The stamp goes back to a version the center has left behind.
LEMMA RewindStep == ASSUME Inv, NEW p \in Procs, Rewind(p) PROVE Inv'
<1>1. op[p].pc \in Critical /\ Finish(p)
  BY DEF Rewind, Critical
<1>2. op[p].prev \in Nat /\ op[p].prev < version /\ version \in Nat
  BY NumbersAre DEF Sound
<1>3. Typed' /\ gen' = gen
  BY <1>2 DEF Inv, TypeOK, Typed, Rewind, Finish, centerVars, history
<1>4. version <= version' /\ good' <= version'
  BY <1>2 DEF Rewind, centerVars
<1> QED
  BY <1>1, <1>3, <1>4, FinishStep

\* An edge whose generation has not moved is settled.
LEMMA CheckStep == ASSUME Inv, NEW p \in Procs, Check(p) PROVE Inv'
<1> DEFINE o == [op[p] EXCEPT !.pc = "clear"]
<1>1. op[p].pc \in Critical /\ op[p] \in Ops
  BY DEF Inv, TypeOK, Check, Critical
<1>2. Typed' /\ gen' = gen /\ version' = version /\ good' = good
  BY DEF Inv, TypeOK, Typed, Check, Finish, edgeVars, centerVars, history
<1>3. CASE gen # op[p].gen
  BY <1>1, <1>2, <1>3, SameNumbers, FinishStep DEF Check
<1>4. CASE gen = op[p].gen
  <2>1. op' = [op EXCEPT ![p] = o] /\ UNCHANGED <<lock, local, good, base, version, missed>>
    BY <1>4 DEF Check, Goto, edgeVars, centerVars, history
  <2>2. o \in Ops
    BY <1>1 DEF Ops
  <2>3. op'[p] = o /\ \A q \in Procs : q # p => op'[q] = op[q]
    BY <2>1 DEF Inv, TypeOK
  <2>4. Settled
    BY <1>4, NumbersAre DEF Check, Sound
  <2>5. Settled'
    BY <2>1, <2>3, <2>4 DEF Settled, Check
  <2>6. Sound(p)'
    BY <1>1, <1>2, <2>1, <2>3, <2>5, NumbersAre, HolderIs DEF Sound, Critical, Ops
  <2> QED
    BY <1>1, <1>2, <2>1, <2>2, <2>6, SameNumbers, HolderStep
<1> QED
  BY <1>3, <1>4

\* The flag is cleared; the round ends or fetches what it has pushed.
LEMMA ClearStep == ASSUME Inv, NEW p \in Procs, Clear(p) PROVE Inv'
<1> DEFINE o == [op[p] EXCEPT !.pc = "bundle", !.merge = FALSE]
<1>1. op[p].pc \in Critical /\ op[p] \in Ops
  BY DEF Inv, TypeOK, Clear, Critical
<1>2. Typed' /\ gen' = gen /\ version' = version /\ good' = good
  BY DisturbKeepsBudget DEF Inv, TypeOK, Typed, Clear, Finish, centerVars, history
<1>3. CASE Finish(p)
  BY <1>1, <1>2, <1>3, SameNumbers, FinishStep
<1>4. CASE ~Finish(p)
  <2>1. op' = [op EXCEPT ![p] = o] /\ lock' = lock
    BY <1>4 DEF Clear
  <2>2. o \in Ops
    BY <1>1 DEF Ops
  <2>3. op'[p] = o
    BY <2>1 DEF Inv, TypeOK
  <2>4. Sound(p)'
    BY <1>1, <1>2, <2>1, <2>3, NumbersAre, HolderIs DEF Sound, Critical, Ops
  <2> QED
    BY <1>1, <1>2, <2>1, <2>2, <2>4, SameNumbers, HolderStep
<1> QED
  BY <1>3, <1>4

----------------------------------------------------------------------------
(* Steps outside the lock.                                                  *)

\* A goroutine that does not hold the lock goes to a place where it is sound,
\* and leaves the others settled or tells them by the generation.
LEMMA FreeStep ==
  ASSUME Inv, NEW p \in Procs,
         NEW o \in Ops, op' = [op EXCEPT ![p] = o],
         Typed', lock' = lock, good' = good, dirty => dirty', version <= version', gen <= gen',
         \A q \in Procs : op[q].pc = "clear" /\ Settled => Settled',
         \A q \in Procs : op[q].pc = "check" /\ Settled => Settled' \/ gen' # gen,
         Sound(p)'
  PROVE  Inv'
<1>1. op' \in [Procs -> Ops] /\ \A q \in Procs : q # p => op'[q] = op[q]
  BY OpUpdate DEF Inv
<1>2. TypeOK'
  BY <1>1 DEF TypeOK, Typed
<1>3. gen' \in Nat /\ version' \in Nat
  BY DEF Typed
<1>4. ASSUME NEW q \in Procs, q # p PROVE Sound(q)'
  BY <1>1, <1>3, <1>4, OthersLeftAlone
<1>5. version' # 0 /\ good' <= version'
  BY <1>3, NumbersAre
<1> QED
  BY <1>2, <1>4, <1>5 DEF Inv

\* A goroutine that is in no critical place is sound with the numbers it has.
LEMMA OutsideSound ==
  ASSUME Inv, NEW p \in Procs, Typed', version <= version', gen <= gen',
         op'[p].pc \in {"lock", "wrote", "counted"},
         \/ op'[p].env = NoEnv /\ op'[p].prev = 0 /\ op'[p].gen = 0
         \/ op'[p].env = op[p].env /\ op'[p].prev = op[p].prev /\ op'[p].gen = op[p].gen
  PROVE  Sound(p)'
BY NumbersAre DEF Sound, Critical, NoEnv, Typed

\* The edge stays settled when none of it changes, and the center only forward.
LEMMA StaysSettled ==
  ASSUME Inv, UNCHANGED <<local, base, good, missed>>, version' \in Nat, version <= version',
         Settled, \A q \in Procs : op[q].pc = "wrote" => op'[q].pc = "wrote"
  PROVE  Settled'
BY NumbersAre DEF Settled, Inv, TypeOK

\* A goroutine that is idle asks for the lock; only the center may change, and
\* what is remembered of edits.
LEMMA StartStep ==
  ASSUME Inv, NEW p \in Procs, op[p].pc = "idle",
         NEW o \in Ops, op' = [op EXCEPT ![p] = o],
         o.pc = "lock", o.env = NoEnv, o.prev = 0, o.gen = 0,
         Typed', UNCHANGED <<local, base, good, missed, lock, gen, dirty>>, version <= version'
  PROVE  Inv'
<1>1. op'[p] = o /\ \A q \in Procs : q # p => op'[q] = op[q]
  BY OpUpdate DEF Inv
<1>2. gen <= gen'
  BY NumbersAre
<1>3. Sound(p)'
  BY <1>1, <1>2, OutsideSound
<1>4. Settled => Settled'
  BY <1>1, StaysSettled DEF Typed
<1> QED
  BY <1>2, <1>3, <1>4, FreeStep

\* The requests and the ticker that start a round.
LEMMA StartOps ==
  /\ [Idle EXCEPT !.pc = "lock"] \in Ops
  /\ [Idle EXCEPT !.pc = "lock", !.force = TRUE] \in Ops
  /\ \A b \in BOOLEAN : [Idle EXCEPT !.pc = "lock", !.task = "push", !.active = b] \in Ops
BY IdleIsOp DEF Ops

\* The ticker.
LEMMA PollStep == Inv /\ Poll => Inv'
<1> SUFFICES ASSUME Inv, Poll PROVE Inv'
  OBVIOUS
<1> DEFINE o == [Idle EXCEPT !.pc = "lock"]
<1>1. op[Poller].pc = "idle" /\ op' = [op EXCEPT ![Poller] = o] /\ Poller \in Procs
  BY RowsAssumption DEF Poll
<1>2. o \in Ops /\ o.pc = "lock" /\ o.env = NoEnv /\ o.prev = 0 /\ o.gen = 0
  BY StartOps DEF Idle
<1>3. Typed' /\ UNCHANGED <<local, base, good, missed, lock, gen, dirty>> /\ version' = version
  BY DEF Inv, TypeOK, Typed, Poll, edgeVars, centerVars, history
<1>4. version <= version'
  BY <1>1, <1>3, NumbersAre
<1> HIDE DEF o
<1> QED
  BY <1>1, <1>2, <1>3, <1>4, StartStep

\* The dashboard asks for a round.
LEMMA RefreshStep == ASSUME Inv, NEW p \in Procs, Refresh(p) PROVE Inv'
<1> DEFINE o == [Idle EXCEPT !.pc = "lock", !.force = TRUE]
<1>1. op[p].pc = "idle" /\ op' = [op EXCEPT ![p] = o]
  BY DEF Refresh, Free
<1>2. o \in Ops /\ o.pc = "lock" /\ o.env = NoEnv /\ o.prev = 0 /\ o.gen = 0
  BY StartOps DEF Idle
<1>3. Typed' /\ UNCHANGED <<local, base, good, missed, lock, gen, dirty>> /\ version' = version
  BY DisturbKeepsBudget DEF Inv, TypeOK, Typed, Refresh, edgeVars, centerVars, history
<1>4. version <= version'
  BY <1>3, NumbersAre
<1> HIDE DEF o
<1> QED
  BY <1>1, <1>2, <1>3, <1>4, StartStep

\* The dashboard asks for a push.
LEMMA StartPushStep == ASSUME Inv, NEW p \in Procs, StartPush(p) PROVE Inv'
<1> DEFINE o == [Idle EXCEPT !.pc = "lock", !.task = "push", !.active = manage]
<1>1. op[p].pc = "idle" /\ op' = [op EXCEPT ![p] = o]
  BY DEF StartPush, Free
<1>2. o \in Ops /\ o.pc = "lock" /\ o.env = NoEnv /\ o.prev = 0 /\ o.gen = 0
  BY StartOps DEF Idle, Inv, TypeOK
<1>3. Typed' /\ UNCHANGED <<local, base, good, missed, lock, gen, dirty>> /\ version' = version
  BY DisturbKeepsBudget DEF Inv, TypeOK, Typed, StartPush, edgeVars, centerVars, history
<1>4. version <= version'
  BY <1>3, NumbersAre
<1> HIDE DEF o
<1> QED
  BY <1>1, <1>2, <1>3, <1>4, StartStep

\* A management node changes the center.
LEMMA EditCenterStep == ASSUME Inv, NEW p \in Procs, EditCenter(p) PROVE Inv'
<1> DEFINE o == [Idle EXCEPT !.pc = "lock", !.force = TRUE]
<1>1. op[p].pc = "idle" /\ op' = [op EXCEPT ![p] = o]
  BY DEF EditCenter, Free
<1>2. o \in Ops /\ o.pc = "lock" /\ o.env = NoEnv /\ o.prev = 0 /\ o.gen = 0
  BY StartOps DEF Idle
<1>3. PICK k \in Keys : \E v \in Values(k) :
        center' = [center EXCEPT ![k] = v] /\ mine' = Arrived([mine EXCEPT ![k] = Absent], center')
  BY DEF EditCenter
<1>4. center' \in Rows /\ [mine EXCEPT ![k] = Absent] \in Rows
  BY ZenonT(60), <1>3, EditIsRows, EmptyIsRows, ValueOfRows DEF Inv, TypeOK
<1>5. mine' \in Rows
  BY <1>3, <1>4, ArrivedIsRows
<1>6. UNCHANGED <<local, base, good, missed, lock, gen, dirty, manual, manage, hidden, owed>>
      /\ version' = version + 1 /\ budget' \in 0..Disturbances
  BY DisturbKeepsBudget DEF EditCenter, edgeVars
<1>7. Typed'
  BY <1>4, <1>5, <1>6 DEF Inv, TypeOK, Typed
<1>8. version <= version'
  BY <1>6, NumbersAre
<1> HIDE DEF o
<1> QED
  BY <1>1, <1>2, <1>6, <1>7, <1>8, StartStep

\* An edit of the local rows is on its way to the flag.
LEMMA EditLocalStep == ASSUME Inv, NEW p \in Procs, EditLocal(p) PROVE Inv'
<1>1. PICK k \in Keys : \E v \in Values(k) :
        /\ local' = [local EXCEPT ![k] = v]
        /\ mine' = [mine EXCEPT ![k] = Absent] /\ hidden' = hidden \ {k}
        /\ op' = [op EXCEPT ![p] = [Idle EXCEPT !.pc = "wrote", !.task = "edit",
                                                !.key = k, !.quiet = (lock = None)]]
  BY DEF EditLocal
<1> DEFINE o == [Idle EXCEPT !.pc = "wrote", !.task = "edit", !.key = k, !.quiet = (lock = None)]
<1>2. o \in Ops /\ o.pc = "wrote" /\ o.env = NoEnv /\ o.prev = 0 /\ o.gen = 0
  BY IdleIsOp DEF Idle, Ops
<1>3. op' = [op EXCEPT ![p] = o]
  BY <1>1
<1> HIDE DEF o
<1>4. local' \in Rows /\ mine' \in Rows
  <2>1. local \in Rows /\ mine \in Rows /\ Absent \in Values(k)
    BY ValueOfRows DEF Inv, TypeOK
  <2>2. PICK v \in Values(k) : local' = [local EXCEPT ![k] = v] /\ mine' = [mine EXCEPT ![k] = Absent]
    BY <1>1
  <2>3. [local EXCEPT ![k] = v] \in Rows /\ [mine EXCEPT ![k] = Absent] \in Rows
    BY <2>1, EditIsRows
  <2> QED
    BY <2>2, <2>3
<1>5. /\ UNCHANGED <<base, good, missed, lock, gen, dirty, manual, manage, owed, center, version>>
      /\ budget' \in 0..Disturbances
  BY DisturbKeepsBudget DEF EditLocal, centerVars
<1>6. Typed'
  <2>1. hidden' \subseteq Keys
    BY <1>1 DEF Inv, TypeOK
  <2> QED
    BY <1>4, <1>5, <2>1 DEF Inv, TypeOK, Typed
<1>7. op'[p] = o
  BY <1>2, <1>3, OpUpdate DEF Inv
<1>8. Settled'
  BY <1>2, <1>7 DEF Settled
<1>9. version <= version' /\ gen <= gen'
  BY <1>5, NumbersAre
<1>10. Sound(p)'
  BY <1>2, <1>6, <1>7, <1>9, OutsideSound
<1> QED
  BY <1>2, <1>3, <1>5, <1>6, <1>8, <1>9, <1>10, FreeStep

\* The generation tells of the edit; where it comes too late for that, or is
\* not advanced at all, the edit is missed.
LEMMA CountStep == ASSUME Inv, NEW p \in Procs, Count(p) PROVE Inv'
<1>1. /\ UNCHANGED <<local, base, good, lock, dirty, manual, manage, owed, center, version,
                     mine, hidden, budget>>
      /\ op[p].pc = "wrote"
  BY DEF Count, edgeVars, centerVars
<1>2. CASE manage
  <2>1. op' = [op EXCEPT ![p] = Idle] /\ missed' = TRUE /\ gen' = gen /\ Idle \in Ops
    BY <1>2, IdleIsOp DEF Count
  <2>2. Typed' /\ Settled'
    BY <1>1, <2>1 DEF Inv, TypeOK, Typed, Settled
  <2>3. op'[p] = Idle
    BY <2>1, OpUpdate DEF Inv
  <2>4. Sound(p)'
    BY <1>1, <2>1, <2>3, NumbersAre DEF Sound, Idle, NoEnv, Critical
  <2>5. version <= version' /\ gen <= gen'
    BY <1>1, <2>1, NumbersAre
  <2> QED
    BY <1>1, <2>1, <2>2, <2>4, <2>5, FreeStep
<1>3. CASE ~manage
  <2> DEFINE o == [op[p] EXCEPT !.pc = "counted"]
  <2>1. op' = [op EXCEPT ![p] = o] /\ gen' = gen + 1
        /\ missed' = (missed \/ \E q \in Procs : op[q].pc = "clear")
    BY <1>3 DEF Count, Goto
  <2>2. Typed'
    BY <1>1, <2>1 DEF Inv, TypeOK, Typed
  <2>3. o \in Ops
    BY NumbersAre DEF Ops
  <2>4. op'[p] = o
    BY <2>1, <2>3, OpUpdate DEF Inv
  <2>5. \A q \in Procs : op[q].pc = "clear" => Settled'
    BY <2>1 DEF Settled
  <2>6. version <= version' /\ gen <= gen' /\ gen' # gen
    BY <1>1, <2>1, NumbersAre
  <2>7. op'[p].pc = "counted" /\ op'[p].env = op[p].env /\ op'[p].prev = op[p].prev
        /\ op'[p].gen = op[p].gen
    BY <2>4, NumbersAre DEF Ops
  <2>8. Sound(p)'
    BY <2>2, <2>6, <2>7, OutsideSound
  <2> HIDE DEF o
  <2> QED
    BY <1>1, <2>1, <2>2, <2>3, <2>5, <2>6, <2>8, FreeStep
<1> QED
  BY <1>2, <1>3

\* The flag is set.
LEMMA MarkStep == ASSUME Inv, NEW p \in Procs, Mark(p) PROVE Inv'
<1>0. dirty' \in {TRUE, dirty}
  BY DEF Mark
<1>1. /\ UNCHANGED <<local, base, good, lock, manual, manage, owed, center, version, gen, hidden>>
      /\ op[p].pc = "counted" /\ dirty' \in BOOLEAN /\ (dirty => dirty')
      /\ missed' = (missed \/ ~dirty') /\ budget' \in 0..Disturbances
      /\ op' = [op EXCEPT ![p] = Idle] /\ Idle \in Ops
  <2>1. /\ UNCHANGED <<local, base, good, lock, manual, manage, owed, center, version, gen, hidden>>
        /\ op[p].pc = "counted" /\ missed' = (missed \/ ~dirty')
        /\ op' = [op EXCEPT ![p] = Idle] /\ Ignoring(~dirty')
    BY DEF Mark, centerVars
  <2>2. dirty' \in BOOLEAN /\ (dirty => dirty')
    BY <1>0, NumbersAre, FlagIs, Zenon
  <2> QED
    BY <2>1, <2>2, IdleIsOp, DisturbKeepsBudget
<1>2. op[p].key \in Keys => local[op[p].key] \in Values(op[p].key)
  BY RowsAre DEF Inv, TypeOK
<1>3. [mine EXCEPT ![op[p].key] = local[op[p].key]] \in Rows
  <2>1. CASE op[p].key \in Keys
    BY <1>2, <2>1, EditIsRows DEF Inv, TypeOK
  <2>2. CASE op[p].key \notin Keys
    <3>1. mine = [k \in Keys |-> mine[k]] /\ mine \in Rows
      BY RowsAre DEF Inv, TypeOK
    <3>2. [mine EXCEPT ![op[p].key] = local[op[p].key]] = mine
      BY <2>2, <3>1
    <3> QED
      BY <3>1, <3>2
  <2> QED
    BY <2>1, <2>2
<1>4. mine' \in Rows
  BY <1>3, ArrivedIsRows DEF Mark, Inv, TypeOK
<1>5. Typed'
  BY <1>1, <1>4 DEF Inv, TypeOK, Typed
<1>6. op'[p] = Idle /\ \A q \in Procs : q # p => op'[q] = op[q]
  BY <1>1, OpUpdate DEF Inv
<1>7. version <= version' /\ gen <= gen'
  BY <1>1, NumbersAre
<1>8. Settled => Settled'
  <2>1. CASE missed'
    BY <2>1 DEF Settled
  <2>2. CASE ~missed'
    <3>1. missed' = missed
      BY <1>1, <2>2 DEF Inv, TypeOK
    <3> QED
      BY <1>1, <1>6, <1>7, <3>1, StaysSettled DEF Typed, Inv, TypeOK
  <2> QED
    BY <2>1, <2>2
<1>9. Sound(p)'
  BY <1>1, <1>6, NumbersAre DEF Sound, Idle, NoEnv, Critical
<1> QED
  BY <1>1, <1>5, <1>7, <1>8, <1>9, FreeStep

\* An idle goroutine is not made quiet, nor the contrary.
LEMMA QuietStays == [Idle EXCEPT !.quiet = FALSE] = Idle
<1>1. \A o \in Ops : o.quiet = FALSE => [o EXCEPT !.quiet = FALSE] = o
  BY DEF Ops
<1>2. Idle.quiet = FALSE
  BY DEF Idle
<1> QED
  BY <1>1, <1>2, IdleIsOp

\* Nobody is in a critical place when the lock is taken.
LEMMA LockStep == ASSUME Inv, NEW p \in Procs, Lock(p) PROVE Inv'
<1> DEFINE place == IF op[p].task = "push" THEN "read" ELSE "version"
           next == [q \in Procs |-> IF q = p THEN [op[p] EXCEPT !.pc = place]
                                    ELSE [op[q] EXCEPT !.quiet = FALSE]]
<1>1. /\ op[p].pc = "lock" /\ lock = None /\ lock' = p
      /\ op' = next
      /\ UNCHANGED <<edgeVars, centerVars, gen, manage, history, budget>>
  BY DEF Lock
<1>2. \A q \in Procs : [op[p] EXCEPT !.pc = place] \in Ops /\ [op[q] EXCEPT !.quiet = FALSE] \in Ops
  <2>1. place \in {"read", "version"}
    OBVIOUS
  <2> HIDE DEF place
  <2>2. \A o \in Ops : [o EXCEPT !.pc = place] \in Ops
    BY <2>1 DEF Ops
  <2>3. \A o \in Ops : [o EXCEPT !.quiet = FALSE] \in Ops
    BY DEF Ops
  <2> QED
    BY <2>2, <2>3, NumbersAre
<1>3. next \in [Procs -> Ops]
  BY <1>2
<1>4. TypeOK'
  BY <1>1, <1>3 DEF Inv, TypeOK, edgeVars, centerVars, history
<1>5. ASSUME NEW q \in Procs PROVE Sound(q)'
  <2>1. op[q].pc \notin Critical
    BY <1>1, NumbersAre, RowsAssumption DEF Sound
  <2>2. CASE q = p
    <3>1. op'[q] = [op[p] EXCEPT !.pc = place]
      BY <1>1, <2>2
    <3> QED
      BY <1>1, <2>2, <3>1, NumbersAre DEF Sound, Critical, Ops, edgeVars, centerVars
  <2>3. CASE q # p
    <3>1. op'[q] = [op[q] EXCEPT !.quiet = FALSE]
      BY <1>1, <2>3
    <3>2. [Idle EXCEPT !.quiet = FALSE] = Idle
      BY QuietStays
    <3> QED
      BY <1>1, <2>1, <3>1, <3>2, NumbersAre DEF Sound, Critical, Ops, edgeVars, centerVars
  <2> QED
    BY <2>2, <2>3
<1> QED
  BY <1>1, <1>4, <1>5, NumbersAre DEF Inv, edgeVars, centerVars

\* What others do to the center, and settings that no goroutine's place depends on.
LEMMA EnvironmentStep ==
  ASSUME Inv, Typed', UNCHANGED <<local, base, good, missed, lock, gen, dirty, op>>,
         version <= version'
  PROVE  Inv'
<1>1. Settled => Settled'
  BY StaysSettled DEF Typed
<1>2. gen' \in Nat /\ gen <= gen' /\ version' \in Nat
  BY DEF Typed, Inv, TypeOK
<1>3. ASSUME NEW q \in Procs PROVE Sound(q)'
  BY <1>1, <1>2, OthersLeftAlone
<1>4. TypeOK'
  BY DEF Typed, Inv, TypeOK
<1>5. version' # 0 /\ good' <= version'
  BY <1>2 DEF Inv, TypeOK
<1> QED
  BY <1>3, <1>4, <1>5 DEF Inv

\* The center changes elsewhere.
LEMMA OthersEditStep == Inv /\ OthersEdit => Inv'
<1> SUFFICES ASSUME Inv, OthersEdit PROVE Inv'
  OBVIOUS
<1>1. PICK k \in Keys : \E v \in Values(k) :
        center' = [center EXCEPT ![k] = v] /\ mine' = Arrived(mine, center')
  BY DEF OthersEdit
<1>2. center' \in Rows /\ mine' \in Rows
  <2>1. center \in Rows /\ mine \in Rows
    BY DEF Inv, TypeOK
  <2>2. center' \in Rows
    BY <1>1, <2>1, EditIsRows
  <2>3. mine' = Arrived(mine, center')
    BY <1>1
  <2>4. Arrived(mine, center') \in Rows
    BY <2>1, ArrivedIsRows
  <2> QED
    BY <2>2, <2>3, <2>4
<1>3. /\ UNCHANGED <<local, base, good, missed, lock, gen, dirty, op, manual, manage, hidden, owed>>
      /\ version' = version + 1 /\ budget' \in 0..Disturbances
  BY DisturbKeepsBudget DEF OthersEdit, edgeVars
<1>4. Typed' /\ version <= version'
  BY <1>2, <1>3 DEF Inv, TypeOK, Typed
<1> QED
  BY <1>3, <1>4, EnvironmentStep

\* Pull mode and management mode.
LEMMA SettingsStep == Inv /\ (SetPullMode \/ Activate) => Inv'
<1> SUFFICES ASSUME Inv, SetPullMode \/ Activate PROVE Inv'
  OBVIOUS
<1>1. /\ UNCHANGED <<local, base, good, missed, lock, gen, dirty, op, mine, hidden, owed, center,
                     version>>
      /\ budget' \in 0..Disturbances /\ manual' \in BOOLEAN /\ manage' \in BOOLEAN
  BY DisturbKeepsBudget
  DEF SetPullMode, Activate, edgeVars, centerVars, history, Inv, TypeOK
<1>2. Typed' /\ version <= version'
  BY <1>1 DEF Inv, TypeOK, Typed
<1> QED
  BY <1>1, <1>2, EnvironmentStep

\* After a restart nobody is in any place.
LEMMA RestartStep == Inv /\ Restart => Inv'
<1> SUFFICES ASSUME Inv, Restart PROVE Inv'
  OBVIOUS
<1>1. op' = [p \in Procs |-> Idle] /\ op' \in [Procs -> Ops]
  BY IdleIsOp DEF Restart
<1>2. /\ UNCHANGED <<local, base, good, dirty, manual, mine, hidden, center, version>>
      /\ lock' = None /\ gen' = 0 /\ owed' = FALSE /\ manage' \in BOOLEAN
      /\ missed' \in BOOLEAN /\ budget' \in 0..Disturbances
  BY DisturbKeepsBudget DEF Restart, edgeVars, centerVars, Inv, TypeOK
<1>3. TypeOK'
  BY <1>1, <1>2 DEF Inv, TypeOK
<1>4. ASSUME NEW p \in Procs PROVE Sound(p)'
  BY <1>1, <1>2, NumbersAre DEF Sound, Idle, NoEnv, Critical
<1> QED
  BY <1>2, <1>3, <1>4 DEF Inv

----------------------------------------------------------------------------
(* The invariant.                                                           *)

\* The inductive invariant holds initially.
LEMMA InvInit == Init => Inv
<1> SUFFICES ASSUME Init PROVE Inv
  OBVIOUS
<1>1. op \in [Procs -> Ops] /\ \A p \in Procs : op[p] = Idle
  BY IdleIsOp DEF Init
<1>2. local \in Rows /\ center \in Rows /\ base \in Rows /\ mine \in Rows
  BY EmptyIsRows DEF Init
<1>3. good \in Nat /\ version \in Nat /\ good <= version /\ version # 0
  BY DEF Init
<1>4. TypeOK
  <2>1. /\ dirty = FALSE /\ manual = FALSE /\ manage = FALSE /\ missed = FALSE /\ owed = FALSE
        /\ hidden = {} /\ gen = 0 /\ lock = None /\ budget = Disturbances
    BY DEF Init
  <2>2. budget \in 0..Disturbances /\ gen \in Nat
    BY <2>1, RowsAssumption
  <2> QED
    BY <1>1, <1>2, <1>3, <2>1, <2>2 DEF TypeOK
<1>5. ASSUME NEW p \in Procs PROVE Sound(p)
  BY <1>1, <1>5 DEF Init, Sound, Idle, NoEnv, Critical
<1> QED
  BY <1>3, <1>4, <1>5 DEF Inv

\* Every step keeps it.
LEMMA InvNext == Inv /\ [Next]_vars => Inv'
<1> SUFFICES ASSUME Inv, [Next]_vars PROVE Inv'
  OBVIOUS
<1>1. CASE UNCHANGED vars
  BY <1>1 DEF vars, edgeVars, centerVars, history, Inv, TypeOK, Sound, Settled
<1>2. ASSUME NEW p \in Procs, Step(p) PROVE Inv'
  BY <1>2, LockStep, DecideStep, PullBundleStep, AdoptStep, BeginMergeStep, ExportStep,
     CombineStep, ProbeStep, ReadStep, DeleteStep, InsertStep, RejectedStep, PushedStep,
     RewindStep, CheckStep, ClearStep, CountStep, MarkStep
  DEF Step
<1>3. CASE Next
  BY <1>2, <1>3, RefreshStep, StartPushStep, PushFailsStep, RoundFailsStep, EditLocalStep,
     EditCenterStep, PollStep, OthersEditStep, SettingsStep, RestartStep
  DEF Next
<1> QED
  BY <1>1, <1>3

\* The inductive invariant: one goroutine at a time in the critical places, and
\* what it knows stays true.
THEOREM InvInvariant == Spec => []Inv
BY InvInit, InvNext, PTL DEF Spec

\* Every reachable state of the synchronisation is of its type.
THEOREM TypeCorrect == Spec => []TypeOK
<1>1. Inv => TypeOK
  BY DEF Inv
<1> QED
  BY <1>1, InvInvariant, PTL

----------------------------------------------------------------------------
(* The edge is a versioned copy.                                            *)

Envs == {op[p].env : p \in Procs} \ {NoEnv}

Touched == dirty \/ Unmarked

\* An update of a goroutine that fetches nothing fetches nothing.
LEMMA EnvsShrink ==
  ASSUME op \in [Procs -> Ops], NEW p \in Procs, NEW o, op' = [op EXCEPT ![p] = o],
         o.env \in {NoEnv, op[p].env}
  PROVE  Envs' \subseteq Envs
<1>1. op'[p] = o /\ \A q \in Procs : q # p => op'[q] = op[q]
  OBVIOUS
<1> QED
  BY <1>1 DEF Envs

\* One that keeps what it has fetched changes nothing of what there is.
LEMMA EnvsStay ==
  ASSUME op \in [Procs -> Ops], NEW p \in Procs, NEW o, op' = [op EXCEPT ![p] = o],
         o.env = op[p].env
  PROVE  Envs' = Envs
<1>1. op'[p] = o /\ \A q \in Procs : q # p => op'[q] = op[q]
  OBVIOUS
<1>2. \A q \in Procs : op'[q].env = op[q].env
  BY <1>1
<1> QED
  BY <1>2 DEF Envs

\* Whether the edge is touched depends on the flag, and on edits on their way.
LEMMA TouchedStays ==
  ASSUME op \in [Procs -> Ops], NEW p \in Procs, NEW o, op' = [op EXCEPT ![p] = o],
         op[p].pc \notin {"wrote", "counted"}, o.pc \notin {"wrote", "counted"},
         missed' = missed, dirty' = dirty
  PROVE  Touched' = Touched
<1>1. op'[p] = o /\ \A q \in Procs : q # p => op'[q] = op[q]
  OBVIOUS
<1>2. Unmarked' <=> Unmarked
  BY <1>1 DEF Unmarked
<1> QED
  BY <1>2 DEF Touched

\* A step that changes neither side fetches something, or drops it.
LEMMA Unseen ==
  ASSUME Inv, UNCHANGED <<local, good, base, center, version>>, Touched' = Touched,
         Envs' \subseteq Envs \cup {[version |-> version, rows |-> center]}
  PROVE  Copy!Fetch
BY DEF Copy!Fetch, Envs, Touched

\* A goroutine that is idle has fetched nothing.
LEMMA IdleIs == Idle.pc = "idle" /\ Idle.env = NoEnv
BY DEF Idle

\* So does a goroutine that moves on, or ends.
LEMMA MovesOn ==
  ASSUME Inv, NEW p \in Procs, NEW o, op' = [op EXCEPT ![p] = o],
         op[p].pc \notin {"wrote", "counted"}, o.pc \notin {"wrote", "counted"},
         o.env \in {NoEnv, op[p].env},
         UNCHANGED <<local, good, base, center, version, missed, dirty>>
  PROVE  Copy!Fetch
<1>1. Envs' \subseteq Envs /\ Touched' = Touched
  BY EnvsShrink, TouchedStays DEF Inv, TypeOK
<1> QED
  BY <1>1, Unseen

\* A round that ends before it has changed anything.
LEMMA GivesUpUnseen ==
  ASSUME Inv, NEW p \in Procs, Finish(p), op[p].pc \in Critical,
         UNCHANGED <<local, good, base, center, version, missed, dirty>>
  PROVE  Copy!Fetch
<1>1. op' = [op EXCEPT ![p] = Idle] /\ Idle.pc = "idle" /\ Idle.env = NoEnv
  BY DEF Finish, Idle
<1>2. op[p].pc \notin {"wrote", "counted"}
  BY DEF Critical
<1> QED
  BY <1>1, <1>2, MovesOn

\* A goroutine that asks for the lock.
LEMMA StartUnseen ==
  ASSUME Inv, NEW p \in Procs, op[p].pc = "idle",
         NEW o \in Ops, op' = [op EXCEPT ![p] = o], o.pc = "lock", o.env = NoEnv,
         UNCHANGED <<local, good, base, center, version, missed, dirty>>
  PROVE  Copy!Fetch
BY MovesOn

\* Rounds and pushes are asked for.
LEMMA RequestsUnseen ==
  ASSUME Inv, NEW p \in Procs, Refresh(p) \/ StartPush(p) PROVE Copy!Fetch
<1>1. UNCHANGED <<local, good, base, center, version, missed, dirty>> /\ op[p].pc = "idle"
  BY DEF Refresh, StartPush, Free, edgeVars, centerVars, history
<1>2. CASE Refresh(p)
  <2>1. op' = [op EXCEPT ![p] = [Idle EXCEPT !.pc = "lock", !.force = TRUE]]
    BY <1>2 DEF Refresh
  <2>2. /\ [Idle EXCEPT !.pc = "lock", !.force = TRUE].pc = "lock"
        /\ [Idle EXCEPT !.pc = "lock", !.force = TRUE].env = NoEnv
    BY DEF Idle
  <2> QED
    BY <1>1, <2>1, <2>2, StartOps, StartUnseen
<1>3. CASE StartPush(p)
  <2> DEFINE o == [Idle EXCEPT !.pc = "lock", !.task = "push", !.active = manage]
  <2>1. op' = [op EXCEPT ![p] = o]
    BY <1>3 DEF StartPush
  <2>2. o \in Ops /\ o.pc = "lock" /\ o.env = NoEnv
    BY StartOps DEF Idle, Inv, TypeOK
  <2> HIDE DEF o
  <2> QED
    BY <1>1, <2>1, <2>2, StartUnseen
<1> QED
  BY <1>2, <1>3

\* The ticker.
LEMMA PollUnseen == Inv /\ Poll => Copy!Fetch
<1> SUFFICES ASSUME Inv, Poll PROVE Copy!Fetch
  OBVIOUS
<1> DEFINE o == [Idle EXCEPT !.pc = "lock"]
<1>1. op[Poller].pc = "idle" /\ op' = [op EXCEPT ![Poller] = o] /\ Poller \in Procs
      /\ UNCHANGED <<local, good, base, center, version, missed, dirty>>
  BY RowsAssumption DEF Poll, edgeVars, centerVars, history
<1>2. o \in Ops /\ o.pc = "lock" /\ o.env = NoEnv
  BY StartOps DEF Idle
<1> HIDE DEF o
<1> QED
  BY <1>1, <1>2, StartUnseen

\* Taking the lock.
LEMMA LockUnseen == ASSUME Inv, NEW p \in Procs, Lock(p) PROVE Copy!Fetch
<1>1. op[p].pc = "lock" /\ UNCHANGED <<local, good, base, center, version, missed, dirty>>
  BY DEF Lock, edgeVars, centerVars, history
<1>2. \A q \in Procs : /\ op'[q].env = op[q].env
                       /\ q # p => op'[q].pc = op[q].pc
                       /\ q = p => op'[q].pc \in {"read", "version"}
  BY NumbersAre DEF Lock, Ops
<1>3. Envs' = Envs
  BY <1>2 DEF Envs
<1>4. Unmarked' <=> Unmarked
  BY <1>1, <1>2 DEF Unmarked
<1>5. Touched' = Touched
  BY <1>1, <1>4 DEF Touched
<1> QED
  BY <1>1, <1>3, <1>5, Unseen

\* Between the fetching and the changing.
LEMMA DecideUnseen == ASSUME Inv, NEW p \in Procs, Decide(p) PROVE Copy!Fetch
<1>1. UNCHANGED <<local, good, base, center, version, missed, dirty>> /\ op[p].pc = "version"
  BY DecideIs DEF edgeVars, centerVars
<1>2. CASE Finish(p)
  BY <1>1, <1>2, GivesUpUnseen DEF Critical
<1>3. ASSUME NEW d, op' = [op EXCEPT ![p] = [op[p] EXCEPT !.pc = "bundle", !.merge = d]]
      PROVE  Copy!Fetch
  <2> DEFINE o == [op[p] EXCEPT !.pc = "bundle", !.merge = d]
  <2>1. op' = [op EXCEPT ![p] = o]
    BY <1>3
  <2>2. o.pc = "bundle" /\ o.env = op[p].env
    BY NumbersAre DEF Ops
  <2> HIDE DEF o
  <2> QED
    BY <1>1, <2>1, <2>2, MovesOn
<1> QED
  BY <1>2, <1>3, DecideIs

\* A bundle is a snapshot of the center.
LEMMA PullBundleFetches == ASSUME Inv, NEW p \in Procs, PullBundle(p) PROVE Copy!Fetch
<1>1. UNCHANGED <<local, good, base, center, version, missed, dirty>> /\ op[p].pc = "bundle"
  BY DEF PullBundle, edgeVars, centerVars, history
<1>2. CASE version = good
  BY <1>1, <1>2, GivesUpUnseen DEF Critical, PullBundle
<1>3. CASE version # good
  <2> DEFINE e == [version |-> version, rows |-> center]
             o == [op[p] EXCEPT !.pc = IF op[p].merge THEN "gen" ELSE "adopt", !.env = e]
  <2>1. op' = [op EXCEPT ![p] = o]
    BY <1>3 DEF PullBundle
  <2>2. o.pc \notin {"wrote", "counted"} /\ o.env = e
    BY NumbersAre DEF Ops
  <2> HIDE DEF o, e
  <2>3. op'[p] = o /\ \A q \in Procs : q # p => op'[q] = op[q]
    BY <2>1, NumbersAre
  <2>4. Envs' \subseteq Envs \cup {e}
    BY <2>2, <2>3 DEF Envs
  <2>5. Touched' = Touched
    BY <1>1, <2>1, <2>2, NumbersAre, TouchedStays
  <2> QED
    BY <1>1, <2>4, <2>5, Unseen DEF e
<1> QED
  BY <1>2, <1>3

\* The first steps of the merge.
LEMMA MergeUnseen ==
  ASSUME Inv, NEW p \in Procs, BeginMerge(p) \/ Export(p) PROVE Copy!Fetch
<1>1. UNCHANGED <<local, good, base, center, version, missed, dirty>>
      /\ op[p].pc \in {"gen", "export"}
  BY DEF BeginMerge, Export, edgeVars, centerVars, history
<1>2. PICK o : /\ op' = [op EXCEPT ![p] = o] /\ o.env = op[p].env
               /\ o.pc \in {"export", "combine"}
  <2>1. CASE BeginMerge(p)
    <3> DEFINE o == [op[p] EXCEPT !.pc = "export", !.gen = gen, !.prev = good]
    <3>1. op' = [op EXCEPT ![p] = o] /\ o.env = op[p].env /\ o.pc = "export"
      BY <2>1, NumbersAre DEF BeginMerge, Ops
    <3> QED
      BY <3>1
  <2>2. CASE Export(p)
    <3> DEFINE o == [op[p] EXCEPT !.pc = "combine", !.snap = local]
    <3>1. op' = [op EXCEPT ![p] = o] /\ o.env = op[p].env /\ o.pc = "combine"
      BY <2>2, NumbersAre DEF Export, Ops
    <3> QED
      BY <3>1
  <2> QED
    BY <2>1, <2>2
<1> QED
  BY <1>1, <1>2, MovesOn

\* The steps of the push that do not reach the center, and the look at the
\* generation.
LEMMA PushUnseen ==
  ASSUME Inv, NEW p \in Procs,
         Probe(p) \/ Read(p) \/ Pushed(p) \/ Check(p) \/ Rejected(p) \/ PushFails(p)
  PROVE  Copy!Fetch
<1>1. UNCHANGED <<local, good, base, center, version, missed, dirty>>
      /\ op[p].pc \in {"probe", "read", "insert", "check", "delete"}
  BY DEF Probe, Read, Pushed, Check, Rejected, PushFails, GivesUp, edgeVars, centerVars, history
<1>2. \E o : /\ op' = [op EXCEPT ![p] = o] /\ o.env \in {NoEnv, op[p].env}
             /\ o.pc \notin {"wrote", "counted"}
  <2>1. CASE Finish(p)
    BY <2>1, IdleIs DEF Finish
  <2>2. CASE Probe(p) /\ ~Finish(p)
    <3> DEFINE o == [op[p] EXCEPT !.pc = "read", !.task = "merge", !.active = manage]
    <3>1. op' = [op EXCEPT ![p] = o] /\ o.env = op[p].env /\ o.pc = "read"
      BY <2>2, NumbersAre DEF Probe, Ops
    <3> QED
      BY <3>1
  <2>3. CASE Read(p)
    <3>1. PICK rest, snap :
            op' = [op EXCEPT ![p] = [op[p] EXCEPT !.pc = "delete", !.snap = snap, !.todo = rest]]
      BY <2>3, ReadIs
    <3> DEFINE o == [op[p] EXCEPT !.pc = "delete", !.snap = snap, !.todo = rest]
    <3>2. op' = [op EXCEPT ![p] = o] /\ o.env = op[p].env /\ o.pc = "delete"
      BY <3>1, NumbersAre DEF Ops
    <3> QED
      BY <3>2
  <2>4. ASSUME NEW place \in {"lock", "check", "clear", "rewind"}, Goto(p, place)
        PROVE  \E o : /\ op' = [op EXCEPT ![p] = o] /\ o.env \in {NoEnv, op[p].env}
                      /\ o.pc \notin {"wrote", "counted"}
    <3> DEFINE o == [op[p] EXCEPT !.pc = place]
    <3>1. op' = [op EXCEPT ![p] = o] /\ o.env = op[p].env /\ o.pc = place
      BY <2>4, NumbersAre DEF Goto, Ops
    <3> QED
      BY <3>1
  <2>5. CASE op' = [op EXCEPT ![p] = [Idle EXCEPT !.pc = "lock", !.force = TRUE]]
    <3> DEFINE o == [Idle EXCEPT !.pc = "lock", !.force = TRUE]
    <3>1. o.env = NoEnv /\ o.pc = "lock"
      BY DEF Idle
    <3> QED
      BY <2>5, <3>1
  <2> QED
    BY <2>1, <2>2, <2>3, <2>4, <2>5 DEF Pushed, Check, Rejected, PushFails, GivesUp
<1> QED
  BY <1>1, <1>2, MovesOn

\* A round that fails.
LEMMA RoundFailsUnseen == ASSUME Inv, NEW p \in Procs, RoundFails(p) PROVE Copy!Fetch
<1>1. UNCHANGED <<local, good, base, center, version, missed, dirty>>
      /\ op[p].pc \in Critical /\ Finish(p)
  BY DEF RoundFails, Critical, edgeVars, centerVars
<1> QED
  BY <1>1, GivesUpUnseen

\* A restart drops what was fetched and keeps what was touched.
LEMMA RestartUnseen == Inv /\ Restart => Copy!Fetch
<1> SUFFICES ASSUME Inv, Restart PROVE Copy!Fetch
  OBVIOUS
<1>1. UNCHANGED <<local, good, base, center, version, dirty>>
      /\ \A p \in Procs : op'[p] = Idle
  BY DEF Restart, edgeVars, centerVars
<1>2. Envs' \subseteq Envs
  BY <1>1 DEF Envs, Idle
<1>3. Unmarked' <=> Unmarked
  <2>1. ~ \E p \in Procs : op'[p].pc \in {"wrote", "counted"}
    BY <1>1, IdleIs
  <2>2. missed' <=> Unmarked
    BY DEF Restart, Unmarked
  <2>3. Unmarked' <=> missed'
    BY <2>1, Zenon DEF Unmarked
  <2> QED
    BY <2>2, <2>3
<1>4. Touched' = Touched
  BY <1>1, <1>3 DEF Touched
<1> QED
  BY <1>1, <1>2, <1>4, Unseen

\* Settings.
LEMMA SettingsUnseen == Inv /\ (SetPullMode \/ Activate) => Copy!Fetch
<1> SUFFICES ASSUME Inv, SetPullMode \/ Activate PROVE Copy!Fetch
  OBVIOUS
<1>1. UNCHANGED <<local, good, base, center, version, dirty, missed, op>>
  BY DEF SetPullMode, Activate, edgeVars, centerVars, history
<1>2. Envs' = Envs
  BY <1>1 DEF Envs
<1>3. Touched' = Touched
  BY <1>1 DEF Touched, Unmarked
<1> QED
  BY <1>1, <1>2, <1>3, Unseen

\* An edit that is counted, or missed, or marked, is still one.
LEMMA FlagUnseen == ASSUME Inv, NEW p \in Procs, Count(p) \/ Mark(p) PROVE Copy!Fetch
<1>1. UNCHANGED <<local, good, base, center, version>> /\ op[p].pc \in {"wrote", "counted"}
      /\ (dirty => dirty')
  <2>1. CASE Count(p)
    BY <2>1 DEF Count, edgeVars, centerVars
  <2>2. CASE Mark(p)
    <3>1. dirty' \in {TRUE, dirty}
      BY <2>2 DEF Mark
    <3>2. dirty => dirty'
      BY <3>1, NumbersAre, FlagIs, Zenon
    <3> QED
      BY <2>2, <3>2 DEF Mark, centerVars
  <2> QED
    BY <2>1, <2>2
<1>2. PICK o : op' = [op EXCEPT ![p] = o] /\ o.env \in {NoEnv, op[p].env}
               /\ (o.pc = "counted" \/ missed' \/ dirty')
  <2>1. CASE op' = [op EXCEPT ![p] = Idle] /\ (missed' \/ dirty')
    BY <2>1, IdleIs
  <2>2. CASE Goto(p, "counted")
    <3> DEFINE o == [op[p] EXCEPT !.pc = "counted"]
    <3>1. op' = [op EXCEPT ![p] = o] /\ o.env = op[p].env /\ o.pc = "counted"
      BY <2>2, NumbersAre DEF Goto, Ops
    <3> QED
      BY <3>1
  <2> QED
    BY <2>1, <2>2 DEF Count, Mark
<1>3. Envs' \subseteq Envs
  BY <1>2, EnvsShrink, NumbersAre
<1>4. op'[p] = o
  BY <1>2, NumbersAre
<1>5. Unmarked /\ (Unmarked' \/ dirty')
  BY <1>1, <1>2, <1>4 DEF Unmarked
<1>6. Touched' = Touched
  BY <1>1, <1>5 DEF Touched
<1> QED
  BY <1>1, <1>3, <1>6, Unseen

----------------------------------------------------------------------------
(* Steps that change a side.                                                *)

\* What the holder may adopt or combine has been fetched.
LEMMA FetchedIs ==
  ASSUME Inv, NEW p \in Procs, op[p].pc \in {"adopt", "gen", "export", "combine"}
  PROVE  op[p].env \in Envs /\ op[p].env.rows \in Rows
BY NumbersAre DEF Sound, Envs, NoEnv, Ops

\* A pull adopts a snapshot.
LEMMA AdoptSeen == ASSUME Inv, NEW p \in Procs, Adopt(p) PROVE Copy!Next
<1>1. op[p].pc = "adopt" /\ Finish(p) /\ UNCHANGED <<center, version, dirty>>
  BY DEF Adopt, centerVars
<1>2. op' = [op EXCEPT ![p] = Idle] /\ Idle.env = NoEnv
  BY <1>1 DEF Finish, Idle
<1>3. Envs' \subseteq Envs
  BY <1>2, EnvsShrink, NumbersAre
<1>4. CASE ~Applicable(op[p].env.rows)
  <2>1. UNCHANGED <<local, good, base, center, version, missed, dirty>>
    BY <1>1, <1>4 DEF Adopt
  <2> QED
    BY <1>1, <2>1, GivesUpUnseen DEF Critical, Copy!Next
<1>5. CASE Applicable(op[p].env.rows)
  <2>1. local' = op[p].env.rows /\ good' = op[p].env.version /\ base' = op[p].env.rows
    BY <1>5 DEF Adopt
  <2>2. (dirty \/ Unmarked)' \in BOOLEAN
    BY DEF Unmarked
  <2>3. op[p].env \in Envs
    BY <1>1, FetchedIs
  <2>4. Copy!Adopt
    BY <1>1, <1>3, <2>1, <2>2, <2>3 DEF Copy!Adopt, Envs
  <2> QED
    BY <2>4 DEF Copy!Next
<1> QED
  BY <1>4, <1>5

\* A merge combines a snapshot with an edge that is marked.
LEMMA CombineSeen == ASSUME Inv, NEW p \in Procs, Combine(p) PROVE Copy!Next
<1> DEFINE union == Union(op[p].snap, op[p].env.rows)
<1>1. op[p].pc = "combine" /\ UNCHANGED <<center, version, dirty>> /\ dirty
  BY NumbersAre DEF Combine, centerVars, Sound
<1>2. CASE ~Applicable(union)
  <2>1. UNCHANGED <<local, good, base, center, version, missed, dirty>> /\ Finish(p)
    BY <1>1, <1>2 DEF Combine
  <2> QED
    BY <1>1, <2>1, GivesUpUnseen DEF Critical, Copy!Next
<1>3. CASE Applicable(union)
  <2>1. local' = union /\ good' = op[p].env.version /\ base' = op[p].env.rows
    BY <1>3 DEF Combine
  <2>2. union \in Rows
    BY <1>1, FetchedIs, UnionIsRows, NumbersAre DEF Ops
  <2>3. PICK place : Goto(p, place)
    BY <1>3 DEF Combine
  <2> DEFINE o == [op[p] EXCEPT !.pc = place]
  <2>4. op' = [op EXCEPT ![p] = o] /\ o.env = op[p].env
    BY <2>3, NumbersAre DEF Goto, Ops
  <2> HIDE DEF o
  <2>5. Envs' \subseteq Envs
    BY <2>4, EnvsShrink, NumbersAre
  <2>6. (dirty \/ Unmarked)'
    BY <1>1
  <2>7. op[p].env \in Envs
    BY <1>1, FetchedIs
  <2> HIDE DEF union
  <2>8. Copy!Combine
    BY <1>1, <2>1, <2>2, <2>5, <2>6, <2>7 DEF Copy!Combine, Envs
  <2> QED
    BY <2>8 DEF Copy!Next
<1> QED
  BY <1>2, <1>3

\* A flag that is cleared is that of an edge that is settled, or touched all
\* the same.
LEMMA ClearSeen == ASSUME Inv, NEW p \in Procs, Clear(p) PROVE Copy!Next
<1>1. op[p].pc = "clear" /\ UNCHANGED <<local, good, base, center, version, missed>>
  BY DEF Clear, centerVars, history
<1>2. \E o : op' = [op EXCEPT ![p] = o] /\ o.env \in {NoEnv, op[p].env}
             /\ o.pc \in {"idle", "bundle"}
  <2>1. CASE Finish(p)
    BY <2>1, IdleIs DEF Finish
  <2>2. CASE ~Finish(p)
    <3> DEFINE o == [op[p] EXCEPT !.pc = "bundle", !.merge = FALSE]
    <3>1. op' = [op EXCEPT ![p] = o] /\ o.env = op[p].env /\ o.pc = "bundle"
      BY <2>2, NumbersAre DEF Clear, Ops
    <3> QED
      BY <3>1
  <2> QED
    BY <2>1, <2>2
<1>3. Envs' \subseteq Envs
  BY <1>2, EnvsShrink, NumbersAre
<1>4. Unmarked' <=> Unmarked
  BY <1>1, <1>2, NumbersAre DEF Unmarked
<1>5. CASE local = base \/ good < version
  <2>1. (dirty \/ Unmarked)' \in BOOLEAN
    BY DEF Unmarked
  <2>2. Copy!Settle
    BY <1>1, <1>3, <1>5, <2>1 DEF Copy!Settle, Envs
  <2> QED
    BY <2>2 DEF Copy!Next
<1>6. CASE ~(local = base \/ good < version)
  <2>1. Unmarked
    BY <1>1, <1>6, NumbersAre DEF Sound, Settled, Unmarked
  <2>2. Touched' = Touched
    BY <1>4, <2>1 DEF Touched
  <2> QED
    BY <1>1, <1>3, <2>2, Unseen DEF Copy!Next
<1> QED
  BY <1>5, <1>6

\* A rewind takes the stamp behind the center.
LEMMA RewindSeen == ASSUME Inv, NEW p \in Procs, Rewind(p) PROVE Copy!Next
<1>1. /\ op[p].pc = "rewind" /\ good' = op[p].prev
      /\ UNCHANGED <<local, base, center, version, missed, dirty>>
      /\ op' = [op EXCEPT ![p] = Idle]
  BY DEF Rewind, Finish, centerVars, history
<1>2. Idle.env = NoEnv /\ Idle.pc = "idle"
  BY DEF Idle
<1>3. Envs' \subseteq Envs /\ Touched' = Touched
  BY <1>1, <1>2, EnvsShrink, TouchedStays, NumbersAre
<1>4. good' \in Nat /\ good' < version
  BY <1>1, NumbersAre DEF Sound
<1> QED
  BY <1>1, <1>3, <1>4 DEF Copy!Next, Copy!Rewind, Envs, Touched

\* What a push does to the center, or anybody else, is a change of the source.
LEMMA ChangeSeen ==
  ASSUME Inv, center' \in Rows, version' = version + 1, UNCHANGED <<local, good, base>>,
         Envs' = Envs, Touched' = Touched
  PROVE  Copy!Next
BY DEF Copy!Next, Copy!Change, Envs, Touched

\* The deletion and the insertions of a push.
LEMMA PushSeen == ASSUME Inv, NEW p \in Procs, Delete(p) \/ Insert(p) PROVE Copy!Next
<1>1. /\ version' = version + 1 /\ UNCHANGED <<local, good, base, missed, dirty>>
      /\ op[p].pc \in {"delete", "insert"}
  BY DEF Delete, Insert, edgeVars, history
<1>2. center' \in Rows
  BY DeleteStep, InsertStep DEF Inv, TypeOK
<1>3. PICK o : op' = [op EXCEPT ![p] = o] /\ o.env = op[p].env /\ o.pc = "insert"
  <2>1. CASE Delete(p)
    <3> DEFINE o == [op[p] EXCEPT !.pc = "insert"]
    <3>1. op' = [op EXCEPT ![p] = o] /\ o.env = op[p].env /\ o.pc = "insert"
      BY <2>1, NumbersAre DEF Delete, Goto, Ops
    <3> QED
      BY <3>1
  <2>2. CASE Insert(p)
    <3>1. PICK k : op' = [op EXCEPT ![p].todo = @ \ {k}]
      BY <2>2 DEF Insert
    <3> DEFINE o == [op[p] EXCEPT !.todo = op[p].todo \ {k}]
    <3>2. op' = [op EXCEPT ![p] = o] /\ o.env = op[p].env /\ o.pc = "insert"
      BY <2>2, <3>1, NumbersAre DEF Insert, Ops
    <3> QED
      BY <3>2
  <2> QED
    BY <2>1, <2>2
<1>4. Envs' = Envs /\ Touched' = Touched
  BY <1>1, <1>3, EnvsStay, TouchedStays, NumbersAre
<1> QED
  BY <1>1, <1>2, <1>4, ChangeSeen

\* An edit of the center by a management node.
LEMMA EditCenterSeen == ASSUME Inv, NEW p \in Procs, EditCenter(p) PROVE Copy!Next
<1> DEFINE o == [Idle EXCEPT !.pc = "lock", !.force = TRUE]
<1>1. /\ version' = version + 1 /\ UNCHANGED <<local, good, base, missed, dirty>>
      /\ op[p].pc = "idle" /\ op' = [op EXCEPT ![p] = o]
  BY DEF EditCenter, Free, edgeVars
<1>2. o.env = NoEnv /\ o.pc = "lock"
  BY DEF Idle
<1>3. op[p].env = NoEnv
  BY <1>1, NumbersAre, IdleIs DEF Sound
<1> HIDE DEF o
<1>4. Envs' = Envs /\ Touched' = Touched
  BY <1>1, <1>2, <1>3, EnvsStay, TouchedStays, NumbersAre
<1>5. center' \in Rows
  BY EditCenterStep DEF Inv, TypeOK
<1> QED
  BY <1>1, <1>4, <1>5, ChangeSeen

\* An edit of the center elsewhere.
LEMMA OthersEditSeen == Inv /\ OthersEdit => Copy!Next
<1> SUFFICES ASSUME Inv, OthersEdit PROVE Copy!Next
  OBVIOUS
<1>1. version' = version + 1 /\ UNCHANGED <<local, good, base, missed, dirty, op>>
  BY DEF OthersEdit, edgeVars
<1>2. Envs' = Envs
  BY <1>1 DEF Envs
<1>3. Touched' = Touched
  BY <1>1 DEF Touched, Unmarked
<1>4. center' \in Rows
  BY OthersEditStep DEF Inv, TypeOK
<1> QED
  BY <1>1, <1>2, <1>3, <1>4, ChangeSeen

\* A local edit touches the copy.
LEMMA EditLocalSeen == ASSUME Inv, NEW p \in Procs, EditLocal(p) PROVE Copy!Next
<1>1. PICK k \in Keys :
        op' = [op EXCEPT ![p] = [Idle EXCEPT !.pc = "wrote", !.task = "edit",
                                             !.key = k, !.quiet = (lock = None)]]
  BY DEF EditLocal
<1> DEFINE o == [Idle EXCEPT !.pc = "wrote", !.task = "edit", !.key = k, !.quiet = (lock = None)]
<1>2. op' = [op EXCEPT ![p] = o] /\ o.env = NoEnv /\ o.pc = "wrote"
  BY <1>1 DEF Idle
<1>3. op[p].env = NoEnv
  BY NumbersAre, IdleIs DEF EditLocal, Free, Sound
<1> HIDE DEF o
<1>4. Envs' = Envs
  BY <1>2, <1>3, EnvsStay, NumbersAre
<1>5. op'[p] = o
  BY <1>2, NumbersAre
<1>6. (dirty \/ Unmarked)'
  BY <1>2, <1>5 DEF Unmarked
<1>7. local' \in Rows
  BY EditLocalStep DEF Inv, TypeOK
<1>8. UNCHANGED <<center, version, good, base>>
  BY DEF EditLocal, centerVars
<1> QED
  BY <1>4, <1>6, <1>7, <1>8 DEF Copy!Next, Copy!Touch, Envs

\* The refinement, state by state: the edge begins as a versioned copy.
LEMMA InitSeen == Init => Copy!Init
<1> SUFFICES ASSUME Init PROVE Copy!Init
  OBVIOUS
<1>1. Inv
  BY InvInit
<1>2. \A p \in Procs : op[p] = Idle
  BY DEF Init
<1>3. Envs = {}
  BY <1>2, IdleIs DEF Envs
<1>4. Touched \in BOOLEAN
  BY <1>1 DEF Touched, Unmarked
<1>5. good <= version /\ (good = version => base = center) /\ local = base
  BY DEF Init
<1> QED
  BY <1>1, <1>3, <1>4, <1>5 DEF Copy!Init, Copy!TypeOK, Envs, Touched, Inv, TypeOK

\* And every step of the synchronisation is a step of a versioned copy, or none.
LEMMA NextSeen == Inv /\ [Next]_vars => [Copy!Next]_Copy!vars
<1> SUFFICES ASSUME Inv, [Next]_vars PROVE [Copy!Next]_Copy!vars
  OBVIOUS
<1>1. CASE UNCHANGED vars
  <2>1. UNCHANGED <<local, good, base, center, version, missed, dirty, op>>
    BY <1>1 DEF vars, edgeVars, centerVars, history
  <2>2. Envs' = Envs
    BY <2>1 DEF Envs
  <2>3. Touched' = Touched
    BY <2>1 DEF Touched, Unmarked
  <2> QED
    BY <2>1, <2>2, <2>3 DEF Copy!vars, Envs, Touched
<1>2. Copy!Fetch => Copy!Next
  BY DEF Copy!Next
<1>3. ASSUME NEW p \in Procs, Step(p) PROVE Copy!Next
  BY <1>2, <1>3, LockUnseen, DecideUnseen, PullBundleFetches, AdoptSeen, MergeUnseen,
     CombineSeen, PushUnseen, PushSeen, RewindSeen, ClearSeen, FlagUnseen
  DEF Step
<1>4. CASE Next
  BY <1>2, <1>3, <1>4, RequestsUnseen, PushUnseen, RoundFailsUnseen, EditLocalSeen,
     EditCenterSeen, PollUnseen, OthersEditSeen, SettingsUnseen, RestartUnseen
  DEF Next
<1> QED
  BY <1>1, <1>4

\* The lock, the flag, the generation and the rewind make the edge a versioned
\* copy of the center with edits of its own.
THEOREM EdgeIsVersionedCopy == Spec => IsVersionedCopy
BY InvInvariant, InitSeen, NextSeen, PTL DEF Spec, IsVersionedCopy, Copy!Spec

Promise == INSTANCE VersionedCopyProofs WITH
  Contents <- Rows,
  source <- center,
  fetched <- {op[p].env : p \in Procs} \ {NoEnv},
  copy <- local,
  seen <- good,
  touched <- dirty \/ Unmarked

\* What the dashboard shows as in_sync is the same as the center.
THEOREM InSyncHonest == Spec => []InSyncIsHonest
<1>1. Spec => Promise!Spec
  BY EdgeIsVersionedCopy, PTL
  DEF IsVersionedCopy, Copy!Spec, Copy!Init, Copy!Next, Copy!vars, Copy!TypeOK, Copy!Snapshots,
      Copy!Change, Copy!Fetch, Copy!Adopt, Copy!Combine, Copy!Touch, Copy!Settle, Copy!Rewind,
      Promise!Spec, Promise!Init, Promise!Next, Promise!vars, Promise!TypeOK, Promise!Snapshots,
      Promise!Change, Promise!Fetch, Promise!Adopt, Promise!Combine, Promise!Touch,
      Promise!Settle, Promise!Rewind
<1>2. Promise!Honest => InSyncIsHonest
  BY Zenon DEF Promise!Honest, InSyncIsHonest
<1> QED
  BY <1>1, <1>2, Promise!AlwaysHonest, PTL

----------------------------------------------------------------------------
(* A push-back that failed.                                                 *)

\* A goroutine between the decision to push a union back and its rewind.
Returning(p) == op[p].pc \in {"read", "delete", "insert", "rewind"} /\ op[p].task = "merge"

\* What is owed is on its way, or the stamp is behind.
Remembered == owed => good < version \/ \E p \in Procs : Returning(p)

\* A goroutine on its way with a union holds the lock: with the lock free,
\* Remembered is FailedPushIsRetried.
LEMMA ReturningHolds == ASSUME Inv, NEW p \in Procs, Returning(p) PROVE lock = p
BY DEF Inv, Sound, Returning, Critical

\* A step of one goroutine which takes no stamp, and does not leave its way
\* while the union is owed.
LEMMA StaysRemembered ==
  ASSUME Inv, Remembered, good' = good, version' \in Nat, version <= version', owed' => owed,
         NEW p \in Procs, NEW o, op' = [op EXCEPT ![p] = o],
         Returning(p) /\ owed' => Returning(p)'
  PROVE  Remembered'
<1>1. \A q \in Procs : q # p => op'[q] = op[q]
  BY NumbersAre
<1>2. ASSUME NEW q \in Procs, Returning(q), owed' PROVE \E r \in Procs : Returning(r)'
  BY <1>1, <1>2 DEF Returning
<1> QED
  BY <1>2, NumbersAre DEF Remembered

\* A goroutine that is not on its way.
LEMMA OthersRemember ==
  ASSUME Inv, Remembered, good' = good, version' \in Nat, version <= version', owed' => owed,
         NEW p \in Procs, NEW o, op' = [op EXCEPT ![p] = o],
         op[p].pc \notin {"read", "delete", "insert", "rewind"}
  PROVE  Remembered'
BY StaysRemembered DEF Returning

\* The version stays or goes up.
LEMMA VersionGrows ==
  ASSUME Inv, version' \in {version, version + 1}
  PROVE  version' \in Nat /\ version <= version'
BY DEF Inv, TypeOK

\* A step that owes nothing.
LEMMA NothingOwed == ~owed' => Remembered'
BY DEF Remembered

\* Steps of the lock's holder before a push, and of goroutines without the lock.
LEMMA QuietStepsRemember ==
  ASSUME Inv, Remembered, NEW p \in Procs,
         \/ Decide(p) \/ PullBundle(p) \/ BeginMerge(p) \/ Export(p) \/ Check(p) \/ Clear(p)
         \/ Count(p) \/ Mark(p) \/ Refresh(p) \/ StartPush(p) \/ EditLocal(p) \/ EditCenter(p)
  PROVE  Remembered'
<1>1. /\ good' = good /\ owed' = owed
      /\ op[p].pc \notin {"read", "delete", "insert", "rewind"}
  BY DEF Decide, PullBundle, BeginMerge, Export, Check, Clear, Count, Mark, Refresh, StartPush,
         EditLocal, EditCenter, Free, edgeVars, centerVars, history
<1>2. version' \in {version, version + 1}
  BY DEF Decide, PullBundle, BeginMerge, Export, Check, Clear, Count, Mark, Refresh, StartPush,
         EditLocal, EditCenter, edgeVars, centerVars, history
<1>3. \E o : op' = [op EXCEPT ![p] = o]
  BY DEF Decide, PullBundle, BeginMerge, Export, Check, Clear, Count, Mark, Refresh, StartPush,
         EditLocal, EditCenter, Finish, Goto, GoOn
<1>4. version' \in Nat /\ version <= version'
  BY <1>2, VersionGrows
<1> QED
  BY <1>1, <1>3, <1>4, OthersRemember

\* A round that takes the center over owes nothing, and one that cannot is one
\* that fails.
LEMMA TakeOverRemembers ==
  ASSUME Inv, Remembered, NEW p \in Procs, Adopt(p) \/ Combine(p) PROVE Remembered'
<1>1. CASE ~owed'
  BY <1>1, NothingOwed
<1>2. CASE owed'
  <2>1. /\ good' = good /\ owed' = owed /\ version' = version
        /\ op[p].pc \notin {"read", "delete", "insert", "rewind"}
        /\ op' = [op EXCEPT ![p] = Idle]
    BY <1>2 DEF Adopt, Combine, Finish, centerVars
  <2> QED
    BY <2>1, VersionGrows, OthersRemember
<1> QED
  BY <1>1, <1>2

\* The decision to push the union back sets the goroutine on its way.
LEMMA ProbeRemembers == ASSUME Inv, Remembered, NEW p \in Procs, Probe(p) PROVE Remembered'
<1>1. /\ good' = good /\ version' = version /\ op[p].pc = "probe"
  BY DEF Probe, edgeVars, centerVars
<1>2. CASE Finish(p) /\ owed' = owed
  BY <1>1, <1>2, VersionGrows, OthersRemember DEF Finish
<1>3. CASE op' = [op EXCEPT ![p].pc = "read", ![p].task = "merge", ![p].active = manage]
  <2>1. Returning(p)'
    BY <1>3, NumbersAre DEF Returning, Ops
  <2> QED
    BY <2>1 DEF Remembered
<1> QED
  BY <1>2, <1>3 DEF Probe

\* The push keeps to its way until all the rows are in, or to the rewind.
LEMMA PushRemembers ==
  ASSUME Inv, Remembered, NEW p \in Procs,
         Read(p) \/ Delete(p) \/ Insert(p) \/ Rejected(p) \/ PushFails(p)
  PROVE  Remembered'
<1>1. /\ good' = good /\ owed' = owed /\ version' \in Nat /\ version <= version'
  BY VersionGrows
  DEF Read, Delete, Insert, Rejected, PushFails, GivesUp, edgeVars, centerVars, history
<1>2. \E o : /\ op' = [op EXCEPT ![p] = o]
             /\ op[p].task = "merge" => o.pc \in {"delete", "insert", "rewind"} /\ o.task = "merge"
  <2>1. CASE Read(p)
    <3>1. PICK rest, snap :
            op' = [op EXCEPT ![p] = [op[p] EXCEPT !.pc = "delete", !.snap = snap, !.todo = rest]]
      BY <2>1, ReadIs
    <3> DEFINE o == [op[p] EXCEPT !.pc = "delete", !.snap = snap, !.todo = rest]
    <3>2. op' = [op EXCEPT ![p] = o] /\ o.task = op[p].task /\ o.pc = "delete"
      BY <3>1, NumbersAre DEF Ops
    <3> QED
      BY <3>2
  <2>2. CASE Delete(p)
    <3> DEFINE o == [op[p] EXCEPT !.pc = "insert"]
    <3>1. op' = [op EXCEPT ![p] = o] /\ o.task = op[p].task /\ o.pc = "insert"
      BY <2>2, NumbersAre DEF Delete, Goto, Ops
    <3> QED
      BY <3>1
  <2>3. CASE Insert(p)
    <3>1. PICK k : op' = [op EXCEPT ![p].todo = @ \ {k}]
      BY <2>3 DEF Insert
    <3> DEFINE o == [op[p] EXCEPT !.todo = op[p].todo \ {k}]
    <3>2. op' = [op EXCEPT ![p] = o] /\ o.task = op[p].task /\ o.pc = "insert"
      BY <2>3, <3>1, NumbersAre DEF Insert, Ops
    <3> QED
      BY <3>2
  <2>4. CASE GivesUp(p) /\ op[p].task = "merge"
    <3> DEFINE o == [op[p] EXCEPT !.pc = "rewind"]
    <3>1. op' = [op EXCEPT ![p] = o] /\ o.task = op[p].task /\ o.pc = "rewind"
      BY <2>4, NumbersAre DEF GivesUp, Goto, Ops
    <3> QED
      BY <2>4, <3>1
  <2>5. CASE GivesUp(p) /\ op[p].task # "merge"
    BY <2>5 DEF GivesUp, Finish
  <2> QED
    BY <2>1, <2>2, <2>3, <2>4, <2>5 DEF Rejected, PushFails
<1>3. PICK o : /\ op' = [op EXCEPT ![p] = o]
               /\ op[p].task = "merge" => o.pc \in {"delete", "insert", "rewind"} /\ o.task = "merge"
  BY <1>2
<1>4. op'[p] = o
  BY <1>3, NumbersAre
<1>5. Returning(p) => Returning(p)'
  BY <1>3, <1>4 DEF Returning
<1> QED
  BY <1>1, <1>3, <1>5, StaysRemembered

\* A rewind takes the stamp behind the center.
LEMMA RewindRemembers == ASSUME Inv, Remembered, NEW p \in Procs, Rewind(p) PROVE Remembered'
<1>1. good' = op[p].prev /\ version' = version
  BY DEF Rewind, centerVars
<1> QED
  BY <1>1, NumbersAre DEF Sound, Remembered

\* The lock is free when it is taken, so nobody is on a way.
LEMMA LockRemembers == ASSUME Inv, Remembered, NEW p \in Procs, Lock(p) PROVE Remembered'
<1>1. lock = None /\ UNCHANGED <<good, version, owed>>
  BY DEF Lock, edgeVars, centerVars, history
<1>2. ~ \E q \in Procs : Returning(q)
  BY <1>1, ReturningHolds, RowsAssumption
<1> QED
  BY <1>1, <1>2 DEF Remembered

\* A round that fails does so before its push, or gives up the rewind.
LEMMA RoundFailsRemembers ==
  ASSUME Inv, Remembered, NEW p \in Procs, RoundFails(p) PROVE Remembered'
<1>1. /\ good' = good /\ version' = version /\ op' = [op EXCEPT ![p] = Idle]
      /\ op[p].pc \notin {"read", "delete", "insert"}
      /\ owed' = (owed /\ op[p].pc # "rewind")
  BY DEF RoundFails, Finish, edgeVars, centerVars
<1>2. Returning(p) => ~owed'
  BY <1>1 DEF Returning
<1> QED
  BY <1>1, <1>2, VersionGrows, StaysRemembered

\* The environment does not take the lock.
LEMMA EnvironmentRemembers ==
  Inv /\ Remembered /\ (Poll \/ OthersEdit \/ SetPullMode \/ Activate \/ Restart) => Remembered'
<1> SUFFICES ASSUME Inv, Remembered, Poll \/ OthersEdit \/ SetPullMode \/ Activate \/ Restart
             PROVE  Remembered'
  OBVIOUS
<1>1. CASE Restart
  BY <1>1, NothingOwed DEF Restart
<1>2. CASE Poll
  <2>1. /\ good' = good /\ version' = version /\ owed' = owed /\ Poller \in Procs
        /\ op[Poller].pc \notin {"read", "delete", "insert", "rewind"}
        /\ \E o : op' = [op EXCEPT ![Poller] = o]
    BY <1>2, RowsAssumption DEF Poll, edgeVars, centerVars, history
  <2> QED
    BY <2>1, VersionGrows, OthersRemember
<1>3. CASE OthersEdit \/ SetPullMode \/ Activate
  <2>1. UNCHANGED <<good, owed, op>> /\ version' \in Nat /\ version <= version'
    BY <1>3, VersionGrows
    DEF OthersEdit, SetPullMode, Activate, edgeVars, centerVars, history
  <2>2. (\E p \in Procs : Returning(p)) => \E p \in Procs : Returning(p)'
    BY <2>1 DEF Returning
  <2> QED
    BY <2>1, <2>2, NumbersAre, RowsAssumption DEF Remembered
<1> QED
  BY <1>1, <1>2, <1>3

\* Every step remembers what is owed.
LEMMA RememberedNext == Inv /\ Remembered /\ [Next]_vars => Remembered'
<1> SUFFICES ASSUME Inv, Remembered, [Next]_vars PROVE Remembered'
  OBVIOUS
<1>1. CASE UNCHANGED vars
  BY <1>1 DEF vars, Remembered, Returning
<1>2. ASSUME NEW p \in Procs, Pushed(p) PROVE Remembered'
  BY <1>2, NothingOwed DEF Pushed
<1>3. ASSUME NEW p \in Procs, Step(p) PROVE Remembered'
  BY <1>2, <1>3, QuietStepsRemember, TakeOverRemembers, ProbeRemembers, PushRemembers,
     RewindRemembers, LockRemembers
  DEF Step
<1>4. CASE Next
  BY <1>3, <1>4, QuietStepsRemember, PushRemembers, RoundFailsRemembers, EnvironmentRemembers
  DEF Next
<1> QED
  BY <1>1, <1>4

\* A union that could be pushed back but was not is merged again: whenever the
\* lock is free, the versions differ and the next round does not skip.
THEOREM FailedPushRetried == Spec => []FailedPushIsRetried
<1>1. Init => Remembered
  BY DEF Init, Remembered
<1>2. Inv /\ Remembered => FailedPushIsRetried
  <2> SUFFICES ASSUME Inv, Remembered, owed, lock = None PROVE good # version
    BY DEF FailedPushIsRetried
  <2>1. ~ \E p \in Procs : Returning(p)
    BY ReturningHolds, RowsAssumption
  <2>2. good < version /\ good \in Nat /\ version \in Nat
    BY <2>1 DEF Remembered, Inv, TypeOK
  <2> QED
    BY <2>2
<1> QED
  BY <1>1, <1>2, RememberedNext, InvInvariant, PTL DEF Spec

----------------------------------------------------------------------------
(* An operator's edit.                                                      *)

\* The marked edits that no ignored error has hidden.
Marks == [k \in Keys |-> IF k \in hidden THEN Absent ELSE mine[k]]

\* What arrives of the marked edits arrives of those that are not hidden.
LEMMA MarksArrive ==
  ASSUME NEW e, NEW c, mine' = Arrived(e, c), hidden' = hidden
  PROVE  Marks' = Arrived([k \in Keys |-> IF k \in hidden THEN Absent ELSE e[k]], c)
<1>1. \A k \in Keys : Arrived(e, c)[k] = IF e[k] = c[k] THEN Absent ELSE e[k]
  BY DEF Arrived
<1>2. \A k \in Keys :
        Marks'[k] = Arrived([j \in Keys |-> IF j \in hidden THEN Absent ELSE e[j]], c)[k]
  BY <1>1 DEF Marks, Arrived
<1> QED
  BY <1>2 DEF Marks, Arrived

\* What a goroutine knows of the marked edits: before the edge is replaced and
\* before the flag is cleared there are none; a merge holds them in what it
\* exported, and what it fetched lacks them; a push has them still to insert.
\* A goroutine that may mark an edit as one between rounds finds the lock free.
Keeps(p) ==
  /\ op[p].pc \in {"adopt", "check", "clear"} \/ (op[p].pc = "bundle" /\ ~op[p].merge)
       => \A k \in Keys : Marks[k] = Absent
  /\ op[p].pc \in {"gen", "export", "combine"}
       => \A k \in Keys : Marks[k] # Absent => op[p].env.rows[k] # Marks[k]
  /\ op[p].pc = "combine" => \A k \in Keys : Marks[k] # Absent => op[p].snap[k] = Marks[k]
  /\ op[p].pc \in {"delete", "insert"}
       => \A k \in Keys : Marks[k] # Absent => k \in op[p].todo /\ op[p].snap[k] = Marks[k]
  /\ op[p].pc \in {"wrote", "counted"} /\ op[p].quiet => lock = None

\* A marked edit is in SQLite, behind the flag, and not in the center.
Marked ==
  \A k \in Keys : Marks[k] # Absent => local[k] = Marks[k] /\ center[k] # Marks[k] /\ dirty

Held == Marked /\ \A p \in Procs : Keeps(p)

\* Edits arrive, or are undone.
Shrinks == \A k \in Keys : Marks'[k] \in {Marks[k], Absent}

\* The edits that have not arrived are not in the center.
LEMMA ArrivedAre ==
  ASSUME NEW e, NEW c, NEW k \in Keys
  PROVE  /\ Arrived(e, c)[k] \in {e[k], Absent}
         /\ Arrived(e, c)[k] # Absent => Arrived(e, c)[k] # c[k]
BY DEF Arrived

\* A goroutine that does nothing loses no knowledge by edits that arrive.
LEMMA OthersKeep ==
  ASSUME Shrinks, lock' \in {lock, None}, NEW q \in Procs, Keeps(q), op'[q] = op[q]
  PROVE  Keeps(q)'
BY DEF Shrinks, Keeps

\* A step of one goroutine, after which it knows what its place demands.
LEMMA StepKeeps ==
  ASSUME Inv, Held, Shrinks, lock' \in {lock, None}, Marked',
         NEW p \in Procs, NEW o, op' = [op EXCEPT ![p] = o], Keeps(p)'
  PROVE  Held'
<1>1. \A q \in Procs : q # p => op'[q] = op[q]
  BY NumbersAre
<1>2. ASSUME NEW q \in Procs, q # p PROVE Keeps(q)'
  BY <1>1, <1>2, OthersKeep DEF Held
<1> QED
  BY <1>2 DEF Held

\* A step to a place that demands nothing.
LEMMA StepKeepsEasily ==
  ASSUME Inv, Held, Shrinks, lock' \in {lock, None}, Marked',
         NEW p \in Procs, NEW o, op' = [op EXCEPT ![p] = o],
         o.pc \in {"idle", "lock", "version", "probe", "read", "rewind"}
  PROVE  Held'
<1>1. op'[p] = o
  BY NumbersAre
<1>2. Keeps(p)'
  BY <1>1 DEF Keeps
<1> QED
  BY <1>2, StepKeeps

\* What stays marked.
LEMMA SameMarks ==
  ASSUME Held, UNCHANGED <<Marks, local, center, dirty>>
  PROVE  Marked' /\ Shrinks
BY DEF Held, Marked, Shrinks

\* A round that is given up.
LEMMA FinishKeeps ==
  ASSUME Inv, Held, NEW p \in Procs, Finish(p), UNCHANGED <<Marks, local, center, dirty>>
  PROVE  Held'
BY SameMarks, IdleIs, StepKeepsEasily DEF Finish

\* Without the flag there are no marked edits, so a round that does not merge
\* finds none.
LEMMA DecideKeeps == ASSUME Inv, Held, NEW p \in Procs, Decide(p) PROVE Held'
<1>1. UNCHANGED <<mine, local, center, dirty>> /\ hidden \subseteq hidden'
  BY DecideIs DEF edgeVars, centerVars
<1>2. \A k \in Keys : Marks'[k] \in {Marks[k], Absent}
  BY <1>1 DEF Marks
<1>3. Marked' /\ Shrinks
  BY <1>1, <1>2 DEF Marked, Shrinks, Held
<1>4. CASE Finish(p)
  BY <1>3, <1>4, IdleIs, StepKeepsEasily DEF Finish
<1>5. ASSUME NEW d, lock' = lock,
             op' = [op EXCEPT ![p] = [op[p] EXCEPT !.pc = "bundle", !.merge = d]],
             \/ d = dirty /\ UNCHANGED hidden
             \/ \A k \in Keys : mine[k] # Absent => k \in hidden'
      PROVE  Held'
  <2> DEFINE o == [op[p] EXCEPT !.pc = "bundle", !.merge = d]
  <2>1. op' = [op EXCEPT ![p] = o]
    BY <1>5
  <2>2. o.pc = "bundle" /\ o.merge = d
    BY NumbersAre DEF Ops
  <2> HIDE DEF o
  <2>3. op'[p] = o
    BY <2>1, NumbersAre
  <2>4. ~d => \A k \in Keys : Marks'[k] = Absent
    <3>1. CASE d = dirty
      BY <1>2, <3>1 DEF Held, Marked
    <3>2. CASE \A k \in Keys : mine[k] # Absent => k \in hidden'
      BY <1>1, <3>2 DEF Marks
    <3> QED
      BY <1>5, <3>1, <3>2
  <2>5. Keeps(p)'
    BY <2>2, <2>3, <2>4 DEF Keeps
  <2> QED
    BY <1>3, <1>5, <2>1, <2>5, StepKeeps
<1> QED
  BY <1>4, <1>5, DecideIs

\* What is fetched lacks the marked edits, as the center does.
LEMMA PullBundleKeeps == ASSUME Inv, Held, NEW p \in Procs, PullBundle(p) PROVE Held'
<1>1. UNCHANGED <<Marks, local, center, dirty>> /\ op[p].pc = "bundle"
  BY DEF PullBundle, edgeVars, centerVars, history, Marks
<1>2. CASE version = good
  BY <1>1, <1>2, FinishKeeps DEF PullBundle
<1>3. CASE version # good
  <2> DEFINE o == [op[p] EXCEPT !.pc = IF op[p].merge THEN "gen" ELSE "adopt",
                                !.env = [version |-> version, rows |-> center]]
  <2>1. op' = [op EXCEPT ![p] = o] /\ lock' = lock
    BY <1>3 DEF PullBundle
  <2>2. o.pc = (IF op[p].merge THEN "gen" ELSE "adopt") /\ o.env.rows = center
    BY NumbersAre DEF Ops
  <2> HIDE DEF o
  <2>3. op'[p] = o
    BY <2>1, NumbersAre
  <2>4. Keeps(p)
    BY DEF Held
  <2>5. Keeps(p)'
    BY <1>1, <2>2, <2>3, <2>4 DEF Keeps, Held, Marked
  <2> QED
    BY <1>1, <2>1, <2>5, SameMarks, StepKeeps
<1> QED
  BY <1>2, <1>3

\* A pull replaces the edge only where nothing is marked.
LEMMA AdoptKeeps == ASSUME Inv, Held, NEW p \in Procs, Adopt(p) PROVE Held'
<1>1. op[p].pc = "adopt" /\ Finish(p) /\ UNCHANGED Marks
  BY DEF Adopt, Marks
<1>2. \A k \in Keys : Marks'[k] = Absent
  BY <1>1 DEF Held, Keeps
<1>3. Marked' /\ Shrinks
  BY <1>1, <1>2 DEF Marked, Shrinks
<1> QED
  BY <1>1, <1>3, IdleIs, StepKeepsEasily DEF Finish

\* A merge exports what is marked.
LEMMA MergeKeeps == ASSUME Inv, Held, NEW p \in Procs, BeginMerge(p) \/ Export(p) PROVE Held'
<1>1. UNCHANGED <<Marks, local, center, dirty, lock>> /\ op[p].pc \in {"gen", "export"}
  BY DEF BeginMerge, Export, edgeVars, centerVars, history, Marks
<1>2. PICK o : /\ op' = [op EXCEPT ![p] = o] /\ o.env = op[p].env
               /\ o.pc = "export" \/ (o.pc = "combine" /\ o.snap = local)
  <2>1. CASE BeginMerge(p)
    <3> DEFINE o == [op[p] EXCEPT !.pc = "export", !.gen = gen, !.prev = good]
    <3>1. op' = [op EXCEPT ![p] = o] /\ o.env = op[p].env /\ o.pc = "export"
      BY <2>1, NumbersAre DEF BeginMerge, Ops
    <3> QED
      BY <3>1
  <2>2. CASE Export(p)
    <3> DEFINE o == [op[p] EXCEPT !.pc = "combine", !.snap = local]
    <3>1. op' = [op EXCEPT ![p] = o] /\ o.env = op[p].env /\ o.pc = "combine" /\ o.snap = local
      BY <2>2, NumbersAre DEF Export, Ops
    <3> QED
      BY <3>1
  <2> QED
    BY <2>1, <2>2
<1>3. op'[p] = o
  BY <1>2, NumbersAre
<1>4. Keeps(p)
  BY DEF Held
<1>5. Keeps(p)'
  BY <1>1, <1>2, <1>3, <1>4 DEF Keeps, Held, Marked
<1> QED
  BY <1>1, <1>2, <1>5, SameMarks, StepKeeps

\* Of two values of one key the union has the edge's, so a marked edit stays; a
\* union that adds nothing to the center has none.
LEMMA CombineKeeps == ASSUME Inv, Held, NEW p \in Procs, Combine(p) PROVE Held'
<1> DEFINE union == Union(op[p].snap, op[p].env.rows)
<1>1. op[p].pc = "combine" /\ UNCHANGED <<Marks, center, dirty>>
  BY DEF Combine, centerVars, Marks
<1>2. Keeps(p)
  BY DEF Held
<1>3. CASE ~Applicable(union)
  <2>1. UNCHANGED local /\ Finish(p)
    BY <1>3 DEF Combine
  <2> QED
    BY <1>1, <2>1, FinishKeeps
<1>4. CASE Applicable(union)
  <2> DEFINE place == IF AddsToCenter(op[p].snap, op[p].env.rows) THEN "probe" ELSE "check"
             o == [op[p] EXCEPT !.pc = place]
  <2>1. local' = union /\ lock' = lock /\ op' = [op EXCEPT ![p] = o]
    BY <1>4, NumbersAre DEF Combine, Goto
  <2>2. o.pc = place
    BY NumbersAre DEF Ops
  <2>3. \A k \in Keys : Marks[k] # Absent => union[k] = Marks[k]
    BY <1>1, <1>2 DEF Union, Keeps
  <2>4. Marked' /\ Shrinks
    BY <1>1, <2>1, <2>3 DEF Marked, Shrinks, Held
  <2>5. AddsToCenter(op[p].snap, op[p].env.rows) \/ \A k \in Keys : Marks[k] = Absent
    BY <1>1, <1>2 DEF AddsToCenter, Keeps
  <2>6. op'[p] = o
    BY <2>1, NumbersAre
  <2> HIDE DEF o, union
  <2>7. Keeps(p)'
    BY <1>1, <2>2, <2>5, <2>6 DEF Keeps
  <2> QED
    BY <2>1, <2>4, <2>7, StepKeeps
<1> QED
  BY <1>3, <1>4

\* A decision, a rewind, or a failure.
LEMMA SmallStepsKeep ==
  ASSUME Inv, Held, NEW p \in Procs,
         Probe(p) \/ Rewind(p) \/ RoundFails(p) \/ Refresh(p) \/ StartPush(p)
  PROVE  Held'
<1>1. UNCHANGED <<Marks, local, center, dirty>> /\ lock' \in {lock, None}
  BY DEF Probe, Rewind, RoundFails, Refresh, StartPush, Finish, edgeVars, centerVars, history, Marks
<1>2. CASE Finish(p)
  BY <1>1, <1>2, FinishKeeps
<1>3. \E o : op' = [op EXCEPT ![p] = o] /\ o.pc \in {"idle", "lock", "read"}
  <2>1. CASE Finish(p)
    BY <2>1, IdleIs DEF Finish
  <2>2. CASE op' = [op EXCEPT ![p].pc = "read", ![p].task = "merge", ![p].active = manage]
    <3> DEFINE o == [op[p] EXCEPT !.pc = "read", !.task = "merge", !.active = manage]
    <3>1. op' = [op EXCEPT ![p] = o] /\ o.pc = "read"
      BY <2>2, NumbersAre DEF Ops
    <3> QED
      BY <3>1
  <2>3. CASE Refresh(p)
    <3> DEFINE o == [Idle EXCEPT !.pc = "lock", !.force = TRUE]
    <3>1. op' = [op EXCEPT ![p] = o] /\ o.pc = "lock"
      BY <2>3 DEF Refresh, Idle
    <3> QED
      BY <3>1
  <2>4. CASE StartPush(p)
    <3> DEFINE o == [Idle EXCEPT !.pc = "lock", !.task = "push", !.active = manage]
    <3>1. op' = [op EXCEPT ![p] = o] /\ o.pc = "lock"
      BY <2>4 DEF StartPush, Idle
    <3> QED
      BY <3>1
  <2> QED
    BY <2>1, <2>2, <2>3, <2>4 DEF Probe, Rewind, RoundFails
<1> QED
  BY <1>1, <1>3, SameMarks, StepKeepsEasily

\* A push reads every marked edit, or hides it.
LEMMA ReadKeeps == ASSUME Inv, Held, NEW p \in Procs, Read(p) PROVE Held'
<1>1. UNCHANGED <<mine, local, center, dirty, lock>> /\ hidden \subseteq hidden'
  BY ReadIs DEF edgeVars, centerVars
<1>2. PICK rest \in SUBSET Keys, snap \in Rows :
        /\ op' = [op EXCEPT ![p] = [op[p] EXCEPT !.pc = "delete", !.snap = snap, !.todo = rest]]
        /\ \A k \in Keys : local[k] # Absent /\ mine[k] # Absent /\ k \notin hidden'
              => k \in rest /\ snap[k] = local[k]
  BY ReadIs
<1> DEFINE o == [op[p] EXCEPT !.pc = "delete", !.snap = snap, !.todo = rest]
<1>3. op' = [op EXCEPT ![p] = o] /\ o.pc = "delete" /\ o.snap = snap /\ o.todo = rest
  BY <1>2, NumbersAre DEF Ops
<1> HIDE DEF o
<1>4. op'[p] = o
  BY <1>3, NumbersAre
<1>5. \A k \in Keys : Marks'[k] # Absent
        => /\ Marks[k] = Marks'[k] /\ mine[k] = Marks'[k] /\ k \notin hidden'
  BY <1>1 DEF Marks
<1>6. Marked' /\ Shrinks
  BY <1>1, <1>5 DEF Marked, Shrinks, Held
<1>7. \A k \in Keys : Marks'[k] # Absent => k \in rest /\ snap[k] = Marks'[k]
  BY <1>2, <1>5 DEF Held, Marked
<1>8. Keeps(p)'
  BY <1>3, <1>4, <1>7 DEF Keeps
<1> QED
  BY <1>1, <1>3, <1>6, <1>8, StepKeeps

\* The deletion leaves every marked edit to insert ...
LEMMA DeleteKeeps == ASSUME Inv, Held, NEW p \in Procs, Delete(p) PROVE Held'
<1> DEFINE o == [op[p] EXCEPT !.pc = "insert"]
<1>1. UNCHANGED <<Marks, local, dirty, lock>> /\ op' = [op EXCEPT ![p] = o]
      /\ center' = Empty /\ op[p].pc = "delete"
  BY DEF Delete, Goto, edgeVars, history, Marks
<1>2. o.pc = "insert" /\ o.snap = op[p].snap /\ o.todo = op[p].todo
  BY NumbersAre DEF Ops
<1> HIDE DEF o
<1>3. op'[p] = o
  BY <1>1, NumbersAre
<1>4. Keeps(p)
  BY DEF Held
<1>5. Keeps(p)'
  BY <1>1, <1>2, <1>3, <1>4 DEF Keeps
<1>6. Marked' /\ Shrinks
  BY <1>1 DEF Marked, Shrinks, Held, Empty
<1> QED
  BY <1>1, <1>5, <1>6, StepKeeps

\* ... and an insertion all but the one that arrives.
LEMMA InsertKeeps == ASSUME Inv, Held, NEW p \in Procs, Insert(p) PROVE Held'
<1>1. PICK k \in op[p].todo : /\ center' = [center EXCEPT ![k] = op[p].snap[k]]
                              /\ mine' = Arrived(mine, center')
                              /\ op' = [op EXCEPT ![p].todo = @ \ {k}]
  BY DEF Insert
<1> DEFINE o == [op[p] EXCEPT !.todo = op[p].todo \ {k}]
<1>2. UNCHANGED <<local, dirty, lock>> /\ op' = [op EXCEPT ![p] = o] /\ op[p].pc = "insert"
  BY <1>1 DEF Insert, edgeVars
<1>3. o.pc = "insert" /\ o.snap = op[p].snap /\ o.todo = op[p].todo \ {k} /\ k \in Keys
  BY <1>2, NumbersAre DEF Ops
<1> HIDE DEF o
<1>4. op'[p] = o
  BY <1>2, NumbersAre
<1>5. Shrinks /\ \A j \in Keys : Marks'[j] # Absent => Marks'[j] # center'[j]
  <2>1. Marks' = Arrived(Marks, center')
    <3>1. mine' = Arrived(mine, center') /\ hidden' = hidden
      BY <1>1 DEF Insert
    <3> QED
      BY <3>1, MarksArrive DEF Marks
  <2>2. ASSUME NEW j \in Keys
        PROVE  Marks'[j] \in {Marks[j], Absent} /\ (Marks'[j] # Absent => Marks'[j] # center'[j])
    BY <2>1, ArrivedAre
  <2> QED
    BY <2>2 DEF Shrinks
<1>6. Marked'
  BY <1>2, <1>5 DEF Marked, Shrinks, Held
<1>7. center'[k] = op[p].snap[k]
  BY <1>1, <1>3, RowsAre DEF Inv, TypeOK
<1>8. Keeps(p)
  BY DEF Held
<1>9. \A j \in Keys : Marks'[j] # Absent => Marks[j] = Marks'[j] /\ j # k
  BY <1>2, <1>5, <1>7, <1>8 DEF Shrinks, Keeps
<1>10. Keeps(p)'
  BY <1>2, <1>3, <1>4, <1>8, <1>9 DEF Keeps
<1> QED
  BY <1>2, <1>5, <1>6, <1>10, StepKeeps

\* A goroutine that only goes to a place that demands nothing.
LEMMA GotoKeeps ==
  ASSUME Inv, Held, NEW p \in Procs, NEW place \in {"lock", "rewind"}, Goto(p, place),
         lock' \in {lock, None}, UNCHANGED <<Marks, local, center, dirty>>
  PROVE  Held'
<1> DEFINE o == [op[p] EXCEPT !.pc = place]
<1>1. op' = [op EXCEPT ![p] = o] /\ o.pc = place
  BY NumbersAre DEF Goto, Ops
<1> QED
  BY <1>1, SameMarks, StepKeepsEasily

\* A push that fails leaves what it has not inserted in the edge.
LEMMA PushEndsKeep == ASSUME Inv, Held, NEW p \in Procs, Rejected(p) \/ PushFails(p) PROVE Held'
<1>1. UNCHANGED <<Marks, local, center, dirty>> /\ GivesUp(p)
  BY DEF Rejected, PushFails, GivesUp, edgeVars, centerVars, history, Marks
<1>2. CASE Finish(p)
  BY <1>1, <1>2, FinishKeeps
<1>3. CASE Goto(p, "rewind") /\ UNCHANGED lock
  BY <1>1, <1>3, GotoKeeps
<1> QED
  BY <1>1, <1>2, <1>3 DEF GivesUp

\* With every row inserted no marked edit is left.
LEMMA PushedKeeps == ASSUME Inv, Held, NEW p \in Procs, Pushed(p) PROVE Held'
<1>1. UNCHANGED <<Marks, local, center, dirty>> /\ op[p].pc = "insert" /\ op[p].todo = {}
      /\ lock' \in {lock, None}
  BY DEF Pushed, edgeVars, centerVars, Marks
<1>2. CASE Goto(p, "lock")
  BY <1>1, <1>2, GotoKeeps
<1>3. CASE Goto(p, "check")
  <2> DEFINE o == [op[p] EXCEPT !.pc = "check"]
  <2>1. op' = [op EXCEPT ![p] = o] /\ o.pc = "check"
    BY <1>3, NumbersAre DEF Goto, Ops
  <2> HIDE DEF o
  <2>2. op'[p] = o
    BY <2>1, NumbersAre
  <2>3. Keeps(p)
    BY DEF Held
  <2>4. Keeps(p)'
    BY <1>1, <2>1, <2>2, <2>3 DEF Keeps
  <2> QED
    BY <1>1, <2>1, <2>4, SameMarks, StepKeeps
<1>4. CASE op' = [op EXCEPT ![p] = [Idle EXCEPT !.pc = "lock", !.force = TRUE]]
  <2> DEFINE o == [Idle EXCEPT !.pc = "lock", !.force = TRUE]
  <2>1. o.pc = "lock"
    BY DEF Idle
  <2> HIDE DEF o
  <2>2. op' = [op EXCEPT ![p] = o]
    BY <1>4 DEF o
  <2> QED
    BY <1>1, <2>1, <2>2, SameMarks, StepKeepsEasily
<1> QED
  BY <1>2, <1>3, <1>4 DEF Pushed

\* Nothing is marked while the flag is looked at ...
LEMMA CheckKeeps == ASSUME Inv, Held, NEW p \in Procs, Check(p) PROVE Held'
<1>1. UNCHANGED <<Marks, local, center, dirty>> /\ op[p].pc = "check"
  BY DEF Check, edgeVars, centerVars, history, Marks
<1>2. CASE Finish(p)
  BY <1>1, <1>2, FinishKeeps
<1>3. CASE Goto(p, "clear") /\ UNCHANGED lock
  <2> DEFINE o == [op[p] EXCEPT !.pc = "clear"]
  <2>1. op' = [op EXCEPT ![p] = o] /\ o.pc = "clear"
    BY <1>3, NumbersAre DEF Goto, Ops
  <2> HIDE DEF o
  <2>2. op'[p] = o
    BY <2>1, NumbersAre
  <2>3. Keeps(p)
    BY DEF Held
  <2>4. Keeps(p)'
    BY <1>1, <2>1, <2>2, <2>3 DEF Keeps
  <2> QED
    BY <1>1, <1>3, <2>1, <2>4, SameMarks, StepKeeps
<1> QED
  BY <1>2, <1>3 DEF Check

\* ... and cleared.
LEMMA ClearKeeps == ASSUME Inv, Held, NEW p \in Procs, Clear(p) PROVE Held'
<1>1. UNCHANGED <<Marks, local, center>> /\ op[p].pc = "clear" /\ lock' \in {lock, None}
  BY DEF Clear, Finish, centerVars, history, Marks
<1>2. Keeps(p)
  BY DEF Held
<1>3. \A k \in Keys : Marks'[k] = Absent
  BY <1>1, <1>2 DEF Keeps
<1>4. Marked' /\ Shrinks
  BY <1>1, <1>3 DEF Marked, Shrinks
<1>5. CASE Finish(p)
  BY <1>1, <1>4, <1>5, IdleIs, StepKeepsEasily DEF Finish
<1>6. CASE ~Finish(p)
  <2> DEFINE o == [op[p] EXCEPT !.pc = "bundle", !.merge = FALSE]
  <2>1. op' = [op EXCEPT ![p] = o] /\ o.pc = "bundle"
    BY <1>6, NumbersAre DEF Clear, Ops
  <2> HIDE DEF o
  <2>2. op'[p] = o
    BY <2>1, NumbersAre
  <2>3. Keeps(p)'
    BY <1>3, <2>1, <2>2 DEF Keeps
  <2> QED
    BY <1>1, <1>4, <2>1, <2>3, StepKeeps
<1> QED
  BY <1>5, <1>6

\* An edit takes the place of an earlier one of its key, and remembers whether
\* a round was on its way.
LEMMA EditLocalKeeps == ASSUME Inv, Held, NEW p \in Procs, EditLocal(p) PROVE Held'
<1>0. PICK k \in Keys : \E v :
        /\ local' = [local EXCEPT ![k] = v] /\ mine' = [mine EXCEPT ![k] = Absent]
        /\ hidden' = hidden \ {k}
        /\ op' = [op EXCEPT ![p] = [Idle EXCEPT !.pc = "wrote", !.task = "edit",
                                                !.key = k, !.quiet = (lock = None)]]
  BY DEF EditLocal
<1>1. PICK v :
        /\ local' = [local EXCEPT ![k] = v] /\ mine' = [mine EXCEPT ![k] = Absent]
        /\ hidden' = hidden \ {k}
        /\ op' = [op EXCEPT ![p] = [Idle EXCEPT !.pc = "wrote", !.task = "edit",
                                                !.key = k, !.quiet = (lock = None)]]
  BY <1>0
<1> DEFINE o == [Idle EXCEPT !.pc = "wrote", !.task = "edit", !.key = k, !.quiet = (lock = None)]
<1>2. UNCHANGED <<center, dirty, lock>>
  BY DEF EditLocal, centerVars
<1>3. o.pc = "wrote" /\ o.quiet = (lock = None)
  BY DEF Idle
<1>4. op' = [op EXCEPT ![p] = o]
  BY <1>1
<1> HIDE DEF o
<1>5. op'[p] = o
  BY <1>4, NumbersAre
<1>6. local \in Rows /\ mine \in Rows
  BY DEF Inv, TypeOK
<1>7. \A j \in Keys : /\ j # k => local'[j] = local[j] /\ Marks'[j] = Marks[j]
                      /\ Marks'[k] = Absent
  <2>1. \A j \in Keys : j # k => local'[j] = local[j] /\ mine'[j] = mine[j]
    BY <1>1, <1>6, RowsAre
  <2>2. mine'[k] = Absent
    BY <1>1, <1>6, RowsAre
  <2> QED
    BY <1>1, <2>1, <2>2 DEF Marks
<1>8. Marked' /\ Shrinks
  BY <1>2, <1>7 DEF Marked, Shrinks, Held
<1>9. Keeps(p)'
  BY <1>2, <1>3, <1>5 DEF Keeps
<1> QED
  BY <1>2, <1>4, <1>8, <1>9, StepKeeps

\* Counting an edit.
LEMMA CountKeeps == ASSUME Inv, Held, NEW p \in Procs, Count(p) PROVE Held'
<1>1. UNCHANGED <<Marks, local, center, dirty, lock>> /\ op[p].pc = "wrote"
  BY DEF Count, edgeVars, centerVars, Marks
<1>2. CASE op' = [op EXCEPT ![p] = Idle]
  BY <1>1, <1>2, IdleIs, SameMarks, StepKeepsEasily
<1>3. CASE Goto(p, "counted")
  <2> DEFINE o == [op[p] EXCEPT !.pc = "counted"]
  <2>1. op' = [op EXCEPT ![p] = o] /\ o.pc = "counted" /\ o.quiet = op[p].quiet
    BY <1>3, NumbersAre DEF Goto, Ops
  <2> HIDE DEF o
  <2>2. op'[p] = o
    BY <2>1, NumbersAre
  <2>3. Keeps(p)
    BY DEF Held
  <2>4. Keeps(p)'
    BY <1>1, <2>1, <2>2, <2>3 DEF Keeps
  <2> QED
    BY <1>1, <2>1, <2>4, SameMarks, StepKeeps
<1> QED
  BY <1>2, <1>3 DEF Count

\* An edit that becomes a marked one does so with the lock free, and is then in
\* SQLite.
LEMMA MarkKeeps == ASSUME Inv, Held, NEW p \in Procs, Mark(p) PROVE Held'
<1>1. UNCHANGED <<local, center, lock, hidden>> /\ op[p].pc = "counted"
      /\ op' = [op EXCEPT ![p] = Idle]
  BY DEF Mark, centerVars
<1>2. dirty => dirty'
  <2>1. dirty' \in {TRUE, dirty}
    BY DEF Mark
  <2> QED
    BY <2>1, NumbersAre, FlagIs, Zenon
<1>3. CASE ~(op[p].quiet /\ dirty')
  <2>1. UNCHANGED mine
    BY <1>3 DEF Mark
  <2>2. UNCHANGED Marks
    BY <1>1, <2>1 DEF Marks
  <2>3. Marked' /\ Shrinks
    BY <1>1, <1>2, <2>2 DEF Marked, Shrinks, Held
  <2> QED
    BY <1>1, <2>3, IdleIs, StepKeepsEasily
<1>4. CASE op[p].quiet /\ dirty'
  <2> DEFINE e == [mine EXCEPT ![op[p].key] = local[op[p].key]]
             f == [k \in Keys |-> IF k \in hidden THEN Absent ELSE e[k]]
  <2>1. mine' = Arrived(e, center)
    BY <1>4 DEF Mark
  <2>2. mine \in Rows
    BY DEF Inv, TypeOK
  <2>3. \A j \in Keys : e[j] = mine[j] \/ e[j] = local[j]
    BY <2>2, RowsAre
  <2> HIDE DEF e
  <2>4. Marks' = Arrived(f, center)
    BY <1>1, <2>1, MarksArrive
  <2>5. \A j \in Keys : f[j] # Absent => f[j] = Marks[j] \/ f[j] = local[j]
    BY <2>3 DEF Marks
  <2> HIDE DEF f
  <2>6. \A j \in Keys : Marks'[j] # Absent => Marks'[j] = f[j] /\ Marks'[j] # center[j]
    BY <2>4, ArrivedAre
  <2>7. Marked'
    BY <1>1, <1>4, <2>5, <2>6 DEF Marked, Held
  <2>8. lock = None
    BY <1>1, <1>4 DEF Held, Keeps
  <2>9. \A q \in Procs : op[q].pc \notin Critical /\ (op'[q] = op[q] \/ op'[q] = Idle)
    BY <1>1, <2>8, NumbersAre, RowsAssumption DEF Sound
  <2>10. \A q \in Procs : Keeps(q)'
    BY <1>1, <2>8, <2>9, IdleIs DEF Keeps, Critical
  <2> QED
    BY <2>7, <2>10 DEF Held
<1> QED
  BY <1>3, <1>4

\* Edits of the center, by this node or another: what the center has got is no
\* longer the edge's alone.
LEMMA CenterEditKeeps ==
  ASSUME Inv, Held, UNCHANGED <<local, dirty, lock>>, NEW e, Marks' = Arrived(e, center'),
         \A k \in Keys : e[k] \in {Marks[k], Absent}
  PROVE  Marked' /\ Shrinks
<1>1. \A k \in Keys : /\ Marks'[k] \in {Marks[k], Absent}
                      /\ Marks'[k] # Absent => Marks'[k] # center'[k]
  BY ArrivedAre
<1> QED
  BY <1>1 DEF Marked, Shrinks, Held

\* A management node undoes a marked edit, if it edits its key.
LEMMA EditCenterKeeps == ASSUME Inv, Held, NEW p \in Procs, EditCenter(p) PROVE Held'
<1>1. PICK k \in Keys : mine' = Arrived([mine EXCEPT ![k] = Absent], center')
  BY DEF EditCenter
<1> DEFINE e == [mine EXCEPT ![k] = Absent]
           f == [j \in Keys |-> IF j \in hidden THEN Absent ELSE e[j]]
           o == [Idle EXCEPT !.pc = "lock", !.force = TRUE]
<1>2. UNCHANGED <<local, dirty, lock, hidden>> /\ op' = [op EXCEPT ![p] = o]
  BY DEF EditCenter, edgeVars
<1>3. o.pc = "lock"
  BY DEF Idle
<1>4. mine \in Rows
  BY DEF Inv, TypeOK
<1>5. \A j \in Keys : e[j] \in {mine[j], Absent}
  BY <1>4, RowsAre
<1> HIDE DEF e, o
<1>6. Marks' = Arrived(f, center')
  BY <1>1, <1>2, MarksArrive DEF e
<1>7. \A j \in Keys : f[j] \in {Marks[j], Absent}
  BY <1>5 DEF Marks
<1> HIDE DEF f
<1>8. Marked' /\ Shrinks
  BY <1>2, <1>6, <1>7, CenterEditKeeps
<1> QED
  BY <1>2, <1>3, <1>8, StepKeepsEasily

\* The lock is taken when nobody is in a critical place, and ends the quiet.
LEMMA LockKeeps == ASSUME Inv, Held, NEW p \in Procs, Lock(p) PROVE Held'
<1>1. lock = None /\ UNCHANGED <<Marks, local, center, dirty>>
  BY DEF Lock, edgeVars, centerVars, history, Marks
<1>2. ASSUME NEW q \in Procs PROVE Keeps(q)'
  <2>1. op[q].pc \notin Critical
    BY <1>1, NumbersAre, RowsAssumption DEF Sound
  <2>2. \/ op'[q].pc \in {"read", "version"}
        \/ op'[q].pc = op[q].pc /\ ~op'[q].quiet
    BY NumbersAre DEF Lock, Ops
  <2> QED
    BY <2>1, <2>2 DEF Keeps, Critical
<1>3. Marked'
  BY <1>1, SameMarks
<1> QED
  BY <1>2, <1>3 DEF Held

\* The ticker, the center's other users, settings, and a restart, which leaves
\* what is in SQLite.
LEMMA EnvironmentKeeps ==
  Inv /\ Held /\ (Poll \/ OthersEdit \/ SetPullMode \/ Activate \/ Restart) => Held'
<1> SUFFICES ASSUME Inv, Held, Poll \/ OthersEdit \/ SetPullMode \/ Activate \/ Restart
             PROVE  Held'
  OBVIOUS
<1>1. CASE Poll
  <2> DEFINE o == [Idle EXCEPT !.pc = "lock"]
  <2>1. /\ UNCHANGED <<Marks, local, center, dirty, lock>> /\ Poller \in Procs
        /\ op' = [op EXCEPT ![Poller] = o] /\ o.pc = "lock"
    BY <1>1, RowsAssumption DEF Poll, Idle, edgeVars, centerVars, history, Marks
  <2> HIDE DEF o
  <2> QED
    BY <2>1, SameMarks, StepKeepsEasily
<1>2. CASE OthersEdit
  <2>1. UNCHANGED <<local, dirty, lock, op>> /\ Marks' = Arrived(Marks, center')
    BY <1>2, MarksArrive DEF OthersEdit, edgeVars, Marks
  <2>2. Marked' /\ Shrinks
    BY <2>1, CenterEditKeeps
  <2>3. \A q \in Procs : Keeps(q)'
    BY <2>1, <2>2, OthersKeep DEF Held
  <2> QED
    BY <2>2, <2>3 DEF Held
<1>3. CASE SetPullMode \/ Activate
  <2>1. UNCHANGED <<Marks, local, center, dirty, lock, op>>
    BY <1>3 DEF SetPullMode, Activate, edgeVars, centerVars, history, Marks
  <2>2. \A q \in Procs : Keeps(q)'
    BY <2>1, SameMarks, OthersKeep DEF Held
  <2> QED
    BY <2>1, <2>2, SameMarks DEF Held
<1>4. CASE Restart
  <2>1. UNCHANGED <<Marks, local, center, dirty>> /\ \A q \in Procs : op'[q] = Idle
    BY <1>4 DEF Restart, edgeVars, centerVars, Marks
  <2>2. \A q \in Procs : Keeps(q)'
    BY <2>1, IdleIs DEF Keeps
  <2> QED
    BY <2>1, <2>2, SameMarks DEF Held
<1> QED
  BY <1>1, <1>2, <1>3, <1>4

\* Every step holds on to the marked edits.
LEMMA HeldNext == Inv /\ Held /\ [Next]_vars => Held'
<1> SUFFICES ASSUME Inv, Held, [Next]_vars PROVE Held'
  OBVIOUS
<1>1. CASE UNCHANGED vars
  <2>1. UNCHANGED <<Marks, local, center, dirty, lock, op>>
    BY <1>1 DEF vars, edgeVars, centerVars, history, Marks
  <2> QED
    BY <2>1 DEF Held, Marked, Keeps
<1>2. ASSUME NEW p \in Procs, Step(p) PROVE Held'
  BY <1>2, LockKeeps, DecideKeeps, PullBundleKeeps, AdoptKeeps, MergeKeeps, CombineKeeps,
     SmallStepsKeep, ReadKeeps, DeleteKeeps, InsertKeeps, PushEndsKeep, PushedKeeps,
     CheckKeeps, ClearKeeps, CountKeeps, MarkKeeps
  DEF Step
<1>3. CASE Next
  BY <1>2, <1>3, SmallStepsKeep, PushEndsKeep, EditLocalKeeps, EditCenterKeeps, EnvironmentKeeps
  DEF Next
<1> QED
  BY <1>1, <1>3

\* An edit made and marked between two rounds stays in SQLite until the center
\* has held it, whatever rounds, pushes, failures and restarts come after it, unless
\* an error the code ignores has kept it from a round.
THEOREM MarkedEditsKept == Spec => []MarkedEditsSurvive
<1>1. Init => Held
  <2> SUFFICES ASSUME Init PROVE Held
    OBVIOUS
  <2>1. (\A k \in Keys : Marks[k] = Absent) /\ \A p \in Procs : op[p] = Idle
    BY DEF Init, Empty, Marks
  <2> QED
    BY <2>1, IdleIs DEF Held, Marked, Keeps
<1>2. Held => MarkedEditsSurvive
  BY DEF Held, Marked, Marks, MarkedEditsSurvive
<1> QED
  BY <1>1, <1>2, HeldNext, InvInvariant, PTL DEF Spec

----------------------------------------------------------------------------
(* Tables, the least and the greatest, and rows that are re-pointed.       *)

\* All tables of such rows.
Tables(S) == {rows \in UNION {[D -> S] : D \in SUBSET Nat} : IsFiniteSet(DOMAIN rows)}

\* All databases of the schemas that the migrations see.
Databases ==
  [platforms : Tables(PlatformRows), rapis : Tables(RAPIRows),
   keys : Tables(KeyRows), keyTable : BOOLEAN,
   creds : Tables(CredentialRows), credTable : BOOLEAN, seq : Nat,
   bound : SUBSET (Nat \X Nat), chain : SUBSET Nat, traffic : Tables(Nat),
   blocks : SUBSET (Nat \X Nat), unique : {"global", "platform", "none"}]

\* A table is a function from finitely many ids to rows.
LEMMA TablesAre ==
  ASSUME NEW S, NEW rows
  PROVE  rows \in Tables(S) <=> IsTable(rows, S)
<1>1. ASSUME rows \in Tables(S) PROVE IsTable(rows, S)
  <2>1. PICK D \in SUBSET Nat : rows \in [D -> S]
    BY <1>1 DEF Tables
  <2>2. DOMAIN rows = D
    BY <2>1
  <2> QED
    BY <1>1, <2>1, <2>2 DEF Tables, IsTable
<1>2. ASSUME IsTable(rows, S) PROVE rows \in Tables(S)
  <2>1. DOMAIN rows \in SUBSET Nat /\ rows \in [DOMAIN rows -> S] /\ IsFiniteSet(DOMAIN rows)
    BY <1>2 DEF IsTable
  <2> QED
    BY <2>1 DEF Tables
<1> QED
  BY <1>1, <1>2

\* What a table says of its rows.
LEMMA RowsOfTable ==
  ASSUME NEW S, NEW rows \in Tables(S)
  PROVE  /\ DOMAIN rows \subseteq Nat /\ IsFiniteSet(DOMAIN rows)
         /\ \A k \in DOMAIN rows : rows[k] \in S
         /\ rows = [k \in DOMAIN rows |-> rows[k]]
BY TablesAre DEF IsTable

\* A table is made of rows.
LEMMA TableOfRows ==
  ASSUME NEW S, NEW D, D \subseteq Nat, IsFiniteSet(D), NEW rows,
         rows = [k \in D |-> rows[k]], \A k \in D : rows[k] \in S
  PROVE  rows \in Tables(S) /\ DOMAIN rows = D
<1>1. DOMAIN rows = D /\ rows \in [D -> S]
  OBVIOUS
<1> QED
  BY <1>1 DEF Tables

\* The table without rows.
LEMMA NoRows ==
  ASSUME NEW S
  PROVE  <<>> \in Tables(S) /\ DOMAIN <<>> = {}
<1>1. <<>> = [k \in {} |-> <<>>[k]]
  OBVIOUS
<1>2. {} \subseteq Nat /\ IsFiniteSet({})
  BY FS_EmptySet
<1> QED
  BY <1>1, <1>2, TableOfRows

\* A table is empty when it has no ids.
LEMMA EmptyTable ==
  ASSUME NEW S, NEW rows \in Tables(S)
  PROVE  rows = <<>> <=> DOMAIN rows = {}
<1>1. rows = [k \in DOMAIN rows |-> rows[k]]
  BY RowsOfTable
<1> QED
  BY <1>1

\* A row is inserted or changed.
LEMMA WithARow ==
  ASSUME NEW S, NEW rows \in Tables(S), NEW id \in Nat, NEW row \in S
  PROVE  With(rows, id, row) \in Tables(S)
<1> DEFINE new == With(rows, id, row)
<1>1. DOMAIN rows \subseteq Nat /\ IsFiniteSet(DOMAIN rows) /\ \A k \in DOMAIN rows : rows[k] \in S
  BY RowsOfTable
<1>2. IsFiniteSet(DOMAIN rows \cup {id})
  BY <1>1, FS_AddElement
<1>3. /\ new = [k \in DOMAIN rows \cup {id} |-> new[k]]
      /\ \A k \in DOMAIN rows : k # id => new[k] = rows[k]
      /\ new[id] = row
  BY DEF With
<1> HIDE DEF new
<1>4. \A k \in DOMAIN rows \cup {id} : new[k] \in S
  BY <1>1, <1>3
<1>5. DOMAIN rows \cup {id} \subseteq Nat
  BY <1>1
<1>6. new \in Tables(S)
  BY <1>2, <1>3, <1>4, <1>5, TableOfRows
<1> QED
  BY <1>6 DEF new

\* Some rows are kept.
LEMMA SomeRows ==
  ASSUME NEW S, NEW rows \in Tables(S), NEW D, D \subseteq DOMAIN rows
  PROVE  /\ Restrict(rows, D) \in Tables(S) /\ DOMAIN Restrict(rows, D) = D
         /\ \A k \in D : Restrict(rows, D)[k] = rows[k]
<1> DEFINE new == Restrict(rows, D)
<1>1. DOMAIN rows \subseteq Nat /\ IsFiniteSet(DOMAIN rows) /\ \A k \in DOMAIN rows : rows[k] \in S
  BY RowsOfTable
<1>2. IsFiniteSet(D)
  BY <1>1, FS_Subset
<1>3. new = [k \in D |-> new[k]] /\ \A k \in D : new[k] = rows[k]
  BY DEF Restrict
<1> HIDE DEF new
<1>4. D \subseteq Nat /\ \A k \in D : new[k] \in S
  BY <1>1, <1>3
<1>5. new \in Tables(S) /\ DOMAIN new = D
  BY <1>2, <1>3, <1>4, TableOfRows
<1> QED
  BY <1>3, <1>5 DEF new

\* A row is deleted.
LEMMA WithoutARow ==
  ASSUME NEW S, NEW rows \in Tables(S), NEW id
  PROVE  /\ Without(rows, id) \in Tables(S) /\ DOMAIN Without(rows, id) = DOMAIN rows \ {id}
         /\ \A k \in DOMAIN rows : k # id => Without(rows, id)[k] = rows[k]
<1> DEFINE D == DOMAIN rows \ {id}
<1>1. D \subseteq DOMAIN rows
  OBVIOUS
<1> HIDE DEF D
<1>2. /\ Restrict(rows, D) \in Tables(S) /\ DOMAIN Restrict(rows, D) = D
      /\ \A k \in D : Restrict(rows, D)[k] = rows[k]
  BY <1>1, SomeRows
<1> QED
  BY <1>2 DEF Without, D

\* Every row is changed in place.
LEMMA ChangedRows ==
  ASSUME NEW S, NEW T, NEW rows \in Tables(S), NEW new,
         new = [k \in DOMAIN rows |-> new[k]], \A k \in DOMAIN rows : new[k] \in T
  PROVE  new \in Tables(T) /\ DOMAIN new = DOMAIN rows
<1>1. DOMAIN rows \subseteq Nat /\ IsFiniteSet(DOMAIN rows)
  BY RowsOfTable
<1> QED
  BY <1>1, TableOfRows

\* The least of some ids.
LEMMA MinIs ==
  ASSUME NEW S, S \subseteq Nat, S # {}
  PROVE  Min(S) \in S /\ \A k \in S : Min(S) <= k
<1>1. \E i \in S : \A k \in S : i <= k
  BY LeastNatural
<1> QED
  BY <1>1 DEF Min

\* Finitely many numbers have a bound.
LEMMA FiniteBounded ==
  ASSUME NEW S, S \subseteq Nat, IsFiniteSet(S)
  PROVE  \E n \in Nat : \A k \in S : k <= n
<1> DEFINE N == Cardinality(S)
           Good == {i \in 0..N : \A T \in SUBSET S :
                                   Cardinality(T) = i => \E n \in Nat : \A k \in T : k <= n}
<1>1. N \in Nat
  BY FS_CardinalityType
<1>2. \A T \in SUBSET S : IsFiniteSet(T) /\ Cardinality(T) \in Nat /\ Cardinality(T) <= N
  BY FS_Subset, FS_CardinalityType
<1>3. 0 \in Good
  <2>1. \A T \in SUBSET S : Cardinality(T) = 0 => T = {}
    BY <1>2, FS_EmptySet
  <2>2. \A T \in SUBSET S : Cardinality(T) = 0 => \E n \in Nat : \A k \in T : k <= n
    BY <2>1
  <2> QED
    BY <1>1, <2>2
<1>4. ASSUME NEW i \in 0..N, i \in Good, i < N PROVE i + 1 \in Good
  <2>1. ASSUME NEW T \in SUBSET S, Cardinality(T) = i + 1
        PROVE  \E n \in Nat : \A k \in T : k <= n
    <3>1. PICK x \in T : TRUE
      <4>1. T # {}
        BY <2>1, <1>1, FS_EmptySet
      <4> QED
        BY <4>1
    <3>2. T \ {x} \in SUBSET S /\ Cardinality(T \ {x}) = i
      <4>1. Cardinality(T \ {x}) = Cardinality(T) - 1
        BY <1>2, <3>1, FS_RemoveElement
      <4> QED
        BY <1>1, <2>1, <4>1
    <3>3. PICK n \in Nat : \A k \in T \ {x} : k <= n
      BY <1>4, <3>2
    <3>4. x \in Nat
      BY <3>1
    <3>5. \A k \in T : k <= n + x
      BY <3>3, <3>4
    <3>6. n + x \in Nat
      BY <3>4
    <3> QED
      BY <3>5, <3>6
  <2>2. i + 1 \in 0..N
    BY <1>1, <1>4
  <2> QED
    BY <2>1, <2>2
<1>5. 0..N \subseteq Good
  <2> HIDE DEF Good, N
  <2> QED
    BY <1>1, <1>3, <1>4, InductionUpTo
<1>6. N \in Good
  BY <1>1, <1>5
<1> QED
  BY <1>6

\* The greatest of some ids.
LEMMA MaxIs ==
  ASSUME NEW S, S \subseteq Nat, IsFiniteSet(S), S # {}
  PROVE  Max(S) \in S /\ \A k \in S : k <= Max(S)
<1> DEFINE Bounds == {n \in Nat : \A k \in S : k <= n}
<1>1. Bounds # {} /\ Bounds \subseteq Nat
  BY FiniteBounded
<1>2. PICK n \in Bounds : \A i \in Bounds : n <= i
  BY <1>1, LeastNatural
<1>3. n \in S
  <2>1. SUFFICES ASSUME n \notin S PROVE FALSE
    OBVIOUS
  <2>2. \A k \in S : k <= n - 1 /\ k \in Nat
    BY <1>2, <2>1
  <2>3. n - 1 \in Nat
    <3>1. PICK k \in S : TRUE
      OBVIOUS
    <3>2. n \in Nat /\ k \in Nat /\ k <= n - 1
      BY <1>2, <2>2, <3>1
    <3> QED
      BY <3>2
  <2>4. n - 1 \in Bounds
    BY <2>2, <2>3
  <2> QED
    BY <1>2, <2>3, <2>4
<1>4. \E i \in S : \A k \in S : i >= k
  BY <1>2, <1>3
<1>5. Max(S) \in S /\ \A k \in S : Max(S) >= k
  BY <1>4 DEF Max
<1> QED
  BY <1>5

\* The first of two numbers is re-pointed.
LEMMA RePointedFirst ==
  ASSUME NEW pairs, pairs \subseteq Nat \X Nat, NEW old \in Nat, NEW new \in Nat, NEW after,
         after = RePointed(pairs, 1, old, new)
  PROVE  /\ after \subseteq Nat \X Nat
         /\ \A b \in pairs : <<IF b[1] = old THEN new ELSE b[1], b[2]>> \in after
         /\ \A c \in after : \E b \in pairs :
               c[1] = (IF b[1] = old THEN new ELSE b[1]) /\ c[2] = b[2]
<1>1. ASSUME NEW b \in pairs
      PROVE  (IF b[1] = old THEN [b EXCEPT ![1] = new] ELSE b) =
                <<IF b[1] = old THEN new ELSE b[1], b[2]>>
  <2>1. PICK i \in Nat, j \in Nat : b = <<i, j>>
    OBVIOUS
  <2> QED
    BY <2>1
<1>2. after = {<<IF b[1] = old THEN new ELSE b[1], b[2]>> : b \in pairs}
  BY <1>1 DEF RePointed
<1>3. \A b \in pairs : b[1] \in Nat /\ b[2] \in Nat
  OBVIOUS
<1> QED
  BY <1>2, <1>3

\* The second of two numbers is re-pointed.
LEMMA RePointedSecond ==
  ASSUME NEW pairs, pairs \subseteq Nat \X Nat, NEW old \in Nat, NEW new \in Nat, NEW after,
         after = RePointed(pairs, 2, old, new)
  PROVE  /\ after \subseteq Nat \X Nat
         /\ \A b \in pairs : <<b[1], IF b[2] = old THEN new ELSE b[2]>> \in after
         /\ \A c \in after : \E b \in pairs :
               c[1] = b[1] /\ c[2] = (IF b[2] = old THEN new ELSE b[2])
<1>1. ASSUME NEW b \in pairs
      PROVE  (IF b[2] = old THEN [b EXCEPT ![2] = new] ELSE b) =
                <<b[1], IF b[2] = old THEN new ELSE b[2]>>
  <2>1. PICK i \in Nat, j \in Nat : b = <<i, j>>
    OBVIOUS
  <2> QED
    BY <2>1
<1>2. after = {<<b[1], IF b[2] = old THEN new ELSE b[2]>> : b \in pairs}
  BY <1>1 DEF RePointed
<1>3. \A b \in pairs : b[1] \in Nat /\ b[2] \in Nat
  OBVIOUS
<1> QED
  BY <1>2, <1>3

----------------------------------------------------------------------------
(* Sums of numbers over finite sets.                                       *)

\* The sum of a table over some of its ids.
SumOn(g, S) == MapThenSumSet(LAMBDA r : g[r], S)

\* The member that the library's sum takes first.
AnyOf(s) == CHOOSE x \in s : TRUE

\* The recursion of a sum, as the library writes it.
IsSum(h, g, S) ==
  h = [s \in SUBSET S |-> IF s = {} THEN 0 ELSE g[AnyOf(s)] + h[s \ {AnyOf(s)}]]

\* The library's sum is a function with that recursion, if there is one.
LEMMA SumIs == ASSUME NEW g, NEW S PROVE SumOn(g, S) = (CHOOSE h : IsSum(h, g, S))[S]
BY DEF SumOn, IsSum, MapThenSumSet, MapThenFoldSet, AnyOf

\* One of the members of a set, and the others.
LEMMA AnyOfIs ==
  ASSUME NEW S, IsFiniteSet(S), NEW s \in SUBSET S, s # {}
  PROVE  /\ AnyOf(s) \in s /\ s \ {AnyOf(s)} \in SUBSET S
         /\ Cardinality(s) \in Nat /\ Cardinality(s) # 0 /\ Cardinality(s \ {AnyOf(s)}) = Cardinality(s) - 1
<1>1. AnyOf(s) \in s
  BY DEF AnyOf
<1>2. IsFiniteSet(s)
  BY FS_Subset
<1>3. Cardinality(s) \in Nat /\ Cardinality(s) # 0
  BY <1>2, FS_CardinalityType, FS_EmptySet
<1>4. Cardinality(s \ {AnyOf(s)}) = Cardinality(s) - 1
  BY <1>1, <1>2, FS_RemoveElement
<1>5. s \ {AnyOf(s)} \in SUBSET S
  OBVIOUS
<1> QED
  BY <1>1, <1>3, <1>4, <1>5

\* Over a finite set there is one.
LEMMA SumExists ==
  ASSUME NEW g, NEW S, IsFiniteSet(S)
  PROVE  \E h : IsSum(h, g, S)
<1> DEFINE N == Cardinality(S)
           Upto(i) == {s \in SUBSET S : Cardinality(s) <= i}
           Partial(i, h) == h = [s \in Upto(i) |-> IF s = {} THEN 0
                                                   ELSE g[AnyOf(s)] + h[s \ {AnyOf(s)}]]
           Good == {i \in 0..N : \E h : Partial(i, h)}
<1>1. N \in Nat
  BY FS_CardinalityType
<1>2. \A s \in SUBSET S : Cardinality(s) \in Nat /\ Cardinality(s) <= N
  BY FS_Subset, FS_CardinalityType
<1>3. 0 \in Good
  <2>1. \A s \in Upto(0) : s = {}
    <3>1. \A s \in SUBSET S : s # {} => Cardinality(s) # 0
      BY AnyOfIs
    <3> QED
      BY <1>2, <3>1
  <2>2. Partial(0, [s \in Upto(0) |-> 0])
    BY <2>1
  <2> HIDE DEF Partial
  <2>3. \E h : Partial(0, h)
    BY <2>2
  <2> QED
    BY <1>1, <2>3
<1>4. ASSUME NEW i \in 0..N, i \in Good, i < N PROVE i + 1 \in Good
  <2>1. PICK h : Partial(i, h)
    BY <1>4
  <2> DEFINE k == [s \in Upto(i + 1) |-> IF s = {} THEN 0 ELSE g[AnyOf(s)] + h[s \ {AnyOf(s)}]]
  <2>2. ASSUME NEW s \in Upto(i + 1), s # {}
        PROVE  s \ {AnyOf(s)} \in Upto(i) /\ s \ {AnyOf(s)} \in Upto(i + 1)
    <3>1. /\ Cardinality(s \ {AnyOf(s)}) = Cardinality(s) - 1 /\ Cardinality(s) \in Nat
          /\ s \ {AnyOf(s)} \in SUBSET S
      BY <2>2, AnyOfIs
    <3>2. Cardinality(s) <= i + 1
      BY <2>2
    <3>3. Cardinality(s \ {AnyOf(s)}) <= i /\ Cardinality(s \ {AnyOf(s)}) <= i + 1
      BY <3>1, <3>2, <1>1
    <3> QED
      BY <3>1, <3>3
  <2>3. ASSUME NEW t \in Upto(i), t \in Upto(i + 1) PROVE k[t] = h[t]
    BY <2>1, <2>3
  <2>4. \A s \in Upto(i + 1) : s # {} => k[s \ {AnyOf(s)}] = h[s \ {AnyOf(s)}]
    <3> HIDE DEF Upto, k
    <3> QED
      BY <2>2, <2>3
  <2>5. Partial(i + 1, k)
    <3> HIDE DEF Upto
    <3> QED
      BY <2>4
  <2>6. \E f : Partial(i + 1, f)
    <3> HIDE DEF Partial, k
    <3> QED
      BY <2>5
  <2>7. i + 1 \in 0..N
    BY <1>1, <1>4
  <2> QED
    BY <2>6, <2>7
<1>5. N \in Good
  <2> HIDE DEF Good, N
  <2> QED
    BY <1>1, <1>3, <1>4, InductionUpTo
<1>6. PICK h : Partial(N, h)
  BY <1>5
<1>7. Upto(N) = SUBSET S
  BY <1>2
<1>8. IsSum(h, g, S)
  BY <1>6, <1>7 DEF IsSum
<1> QED
  BY <1>8

\* What the recursion says of every set.
Follows(h, g, S) ==
  /\ h[{}] = 0
  /\ \A s \in SUBSET S : s # {} => h[s] = g[AnyOf(s)] + h[s \ {AnyOf(s)}]

\* The sum is that of a function with the recursion.
LEMMA SumRecursion ==
  ASSUME NEW g, NEW S, IsFiniteSet(S)
  PROVE  \E h : SumOn(g, S) = h[S] /\ Follows(h, g, S)
<1> DEFINE h == CHOOSE h : IsSum(h, g, S)
<1>1. IsSum(h, g, S)
  BY SumExists
<1>2. SumOn(g, S) = h[S]
  BY SumIs
<1> HIDE DEF h
<1>3. Follows(h, g, S)
  BY <1>1 DEF IsSum, Follows
<1> QED
  BY <1>2, <1>3

\* Two such functions agree where both are defined.
LEMMA SumUnique ==
  ASSUME NEW g, NEW S, IsFiniteSet(S), NEW T \in SUBSET S, NEW h, NEW k,
         Follows(h, g, S), Follows(k, g, T)
  PROVE  h[T] = k[T]
<1> DEFINE N == Cardinality(T)
           Good == {i \in 0..N : \A s \in SUBSET T : Cardinality(s) = i => h[s] = k[s]}
<1>1. N \in Nat /\ IsFiniteSet(T)
  BY FS_Subset, FS_CardinalityType
<1>2. 0 \in Good
  <2>1. \A s \in SUBSET T : Cardinality(s) = 0 => s = {}
    BY <1>1, AnyOfIs
  <2> QED
    BY <1>1, <2>1 DEF Follows
<1>3. ASSUME NEW i \in 0..N, i \in Good, i < N PROVE i + 1 \in Good
  <2>1. ASSUME NEW s \in SUBSET T, Cardinality(s) = i + 1 PROVE h[s] = k[s]
    <3>0. Cardinality({}) = 0
      BY FS_EmptySet
    <3>1. s # {}
      BY <1>1, <2>1, <3>0
    <3>2. s \ {AnyOf(s)} \in SUBSET T /\ Cardinality(s \ {AnyOf(s)}) = Cardinality(s) - 1
      BY <1>1, <3>1, AnyOfIs
    <3>3. h[s \ {AnyOf(s)}] = k[s \ {AnyOf(s)}]
      BY <1>1, <1>3, <2>1, <3>2
    <3>4. s \in SUBSET S
      OBVIOUS
    <3> QED
      BY <3>1, <3>3, <3>4 DEF Follows
  <2> QED
    BY <1>1, <1>3, <2>1
<1>4. N \in Good
  <2> HIDE DEF Good, N
  <2> QED
    BY <1>1, <1>2, <1>3, InductionUpTo
<1> QED
  BY <1>4

\* The sum over nothing.
LEMMA SumOfNone == ASSUME NEW g PROVE SumOn(g, {}) = 0
<1>1. IsFiniteSet({})
  BY FS_EmptySet
<1> QED
  BY <1>1, SumRecursion DEF Follows

\* The sum splits off the member the library chooses.
LEMMA SumSplitsAny ==
  ASSUME NEW g, NEW S, IsFiniteSet(S), S # {}
  PROVE  SumOn(g, S) = g[AnyOf(S)] + SumOn(g, S \ {AnyOf(S)})
<1> DEFINE T == S \ {AnyOf(S)}
<1>1. IsFiniteSet(T) /\ T \in SUBSET S
  BY FS_Subset
<1>2. PICK h : SumOn(g, S) = h[S] /\ Follows(h, g, S)
  BY SumRecursion
<1>3. PICK k : SumOn(g, T) = k[T] /\ Follows(k, g, T)
  <2> HIDE DEF T
  <2> QED
    BY <1>1, SumRecursion
<1>4. h[T] = k[T]
  <2> HIDE DEF T
  <2> QED
    BY <1>1, <1>2, <1>3, SumUnique
<1>5. S \in SUBSET S
  OBVIOUS
<1> QED
  BY <1>2, <1>3, <1>4, <1>5 DEF Follows

\* It is a number when its members are.
LEMMA SumIsNumber ==
  ASSUME NEW g, NEW S, IsFiniteSet(S), \A r \in S : g[r] \in Nat
  PROVE  SumOn(g, S) \in Nat
<1> DEFINE N == Cardinality(S)
           Good == {i \in 0..N : \A s \in SUBSET S : Cardinality(s) = i => SumOn(g, s) \in Nat}
<1>1. N \in Nat
  BY FS_CardinalityType
<1>2. 0 \in Good
  <2>1. \A s \in SUBSET S : Cardinality(s) = 0 => s = {}
    BY AnyOfIs
  <2> QED
    BY <1>1, <2>1, SumOfNone
<1>3. ASSUME NEW i \in 0..N, i \in Good, i < N PROVE i + 1 \in Good
  <2>1. ASSUME NEW s \in SUBSET S, Cardinality(s) = i + 1 PROVE SumOn(g, s) \in Nat
    <3>1. s # {} /\ IsFiniteSet(s)
      BY <1>1, <2>1, FS_EmptySet, FS_Subset
    <3>2. /\ AnyOf(s) \in s /\ s \ {AnyOf(s)} \in SUBSET S
          /\ Cardinality(s \ {AnyOf(s)}) = Cardinality(s) - 1
      BY <3>1, AnyOfIs
    <3>3. SumOn(g, s \ {AnyOf(s)}) \in Nat
      BY <1>1, <1>3, <2>1, <3>2
    <3>4. SumOn(g, s) = g[AnyOf(s)] + SumOn(g, s \ {AnyOf(s)})
      BY <3>1, SumSplitsAny
    <3>5. g[AnyOf(s)] \in Nat
      BY <3>2
    <3> QED
      BY <3>3, <3>4, <3>5
  <2> QED
    BY <1>1, <1>3, <2>1
<1>4. N \in Good
  <2> HIDE DEF Good, N
  <2> QED
    BY <1>1, <1>2, <1>3, InductionUpTo
<1> QED
  BY <1>4

\* It splits off any member, whichever the library chooses.
LEMMA SumSplits ==
  ASSUME NEW g, NEW S, IsFiniteSet(S), \A r \in S : g[r] \in Nat, NEW x \in S
  PROVE  SumOn(g, S) = g[x] + SumOn(g, S \ {x})
<1> DEFINE N == Cardinality(S)
           Good == {i \in 0..N : \A s \in SUBSET S : \A y \in s :
                       Cardinality(s) = i => SumOn(g, s) = g[y] + SumOn(g, s \ {y})}
<1>1. N \in Nat
  BY FS_CardinalityType
<1>2. 0 \in Good
  <2>1. \A s \in SUBSET S : Cardinality(s) = 0 => s = {}
    BY AnyOfIs
  <2> QED
    BY <1>1, <2>1
<1>3. ASSUME NEW i \in 0..N, i \in Good, i < N PROVE i + 1 \in Good
  <2>1. ASSUME NEW s \in SUBSET S, NEW y \in s, Cardinality(s) = i + 1
        PROVE  SumOn(g, s) = g[y] + SumOn(g, s \ {y})
    <3> DEFINE c == AnyOf(s)
    <3>1. IsFiniteSet(s) /\ s # {} /\ IsFiniteSet(s \ {c, y})
      BY FS_Subset
    <3>2. SumOn(g, s) = g[c] + SumOn(g, s \ {c})
      BY <3>1, SumSplitsAny
    <3>3. c \in s
      BY <3>1, AnyOfIs
    <3> HIDE DEF c
    <3>4. CASE c = y
      BY <3>2, <3>4
    <3>5. CASE c # y
      <4>1. s \ {c} \in SUBSET S /\ y \in s \ {c} /\ s \ {y} \in SUBSET S /\ c \in s \ {y}
        BY <3>3, <3>5
      <4>2. Cardinality(s \ {c}) = i /\ Cardinality(s \ {y}) = i
        <5>1. Cardinality(s \ {c}) = Cardinality(s) - 1 /\ Cardinality(s \ {y}) = Cardinality(s) - 1
          BY <3>1, <3>3, FS_RemoveElement
        <5> QED
          BY <1>1, <2>1, <5>1
      <4>3. SumOn(g, s \ {c}) = g[y] + SumOn(g, (s \ {c}) \ {y})
        BY <1>3, <4>1, <4>2
      <4>4. SumOn(g, s \ {y}) = g[c] + SumOn(g, (s \ {y}) \ {c})
        BY <1>3, <4>1, <4>2
      <4>5. (s \ {c}) \ {y} = s \ {c, y} /\ (s \ {y}) \ {c} = s \ {c, y}
        OBVIOUS
      <4>6. SumOn(g, s \ {c, y}) \in Nat /\ g[c] \in Nat /\ g[y] \in Nat
        <5>1. \A r \in s \ {c, y} : g[r] \in Nat
          OBVIOUS
        <5>2. SumOn(g, s \ {c, y}) \in Nat
          BY <3>1, <5>1, SumIsNumber
        <5>3. c \in S /\ y \in S
          BY <3>3
        <5> QED
          BY <5>2, <5>3
      <4> QED
        BY <3>2, <4>3, <4>4, <4>5, <4>6
    <3> QED
      BY <3>4, <3>5
  <2> QED
    BY <1>1, <1>3, <2>1
<1>4. N \in Good
  <2> HIDE DEF Good, N
  <2> QED
    BY <1>1, <1>2, <1>3, InductionUpTo
<1> QED
  BY <1>4

\* It depends on the members only.
LEMMA SumAgrees ==
  ASSUME NEW g, NEW h, NEW S, IsFiniteSet(S), \A r \in S : g[r] = h[r]
  PROVE  SumOn(g, S) = SumOn(h, S)
<1> DEFINE N == Cardinality(S)
           Good == {i \in 0..N : \A s \in SUBSET S : Cardinality(s) = i => SumOn(g, s) = SumOn(h, s)}
<1>1. N \in Nat
  BY FS_CardinalityType
<1>2. 0 \in Good
  <2>1. \A s \in SUBSET S : Cardinality(s) = 0 => s = {}
    BY AnyOfIs
  <2> QED
    BY <1>1, <2>1, SumOfNone
<1>3. ASSUME NEW i \in 0..N, i \in Good, i < N PROVE i + 1 \in Good
  <2>1. ASSUME NEW s \in SUBSET S, Cardinality(s) = i + 1 PROVE SumOn(g, s) = SumOn(h, s)
    <3>1. s # {} /\ IsFiniteSet(s)
      BY <1>1, <2>1, FS_EmptySet, FS_Subset
    <3>2. /\ AnyOf(s) \in s /\ s \ {AnyOf(s)} \in SUBSET S
          /\ Cardinality(s \ {AnyOf(s)}) = Cardinality(s) - 1
      BY <3>1, AnyOfIs
    <3>3. SumOn(g, s \ {AnyOf(s)}) = SumOn(h, s \ {AnyOf(s)})
      BY <1>1, <1>3, <2>1, <3>2
    <3>4. SumOn(g, s) = g[AnyOf(s)] + SumOn(g, s \ {AnyOf(s)})
      BY <3>1, SumSplitsAny
    <3>5. SumOn(h, s) = h[AnyOf(s)] + SumOn(h, s \ {AnyOf(s)})
      BY <3>1, SumSplitsAny
    <3>6. g[AnyOf(s)] = h[AnyOf(s)]
      BY <3>2
    <3> QED
      BY <3>3, <3>4, <3>5, <3>6
  <2> QED
    BY <1>1, <1>3, <2>1
<1>4. N \in Good
  <2> HIDE DEF Good, N
  <2> QED
    BY <1>1, <1>2, <1>3, InductionUpTo
<1> QED
  BY <1>4

----------------------------------------------------------------------------
(* The databases are well formed, and the phase tells what the transaction has.*)

\* The phases in the transaction, and those of them after the keys are moved.
InTx == {"move", "remap", "dedupe", "platforms", "merge", "dedupe again", "finish"}
KeysGone == {"dedupe", "platforms", "merge", "dedupe again", "finish"}

\* The tables of one database, in groups of those that change together.
SameModels(d, e) == e.platforms = d.platforms /\ e.rapis = d.rapis /\ e.unique = d.unique
SameKeys(d, e) == e.keys = d.keys /\ e.keyTable = d.keyTable
SameCreds(d, e) == e.creds = d.creds /\ e.credTable = d.credTable /\ e.seq = d.seq
SameRefs(d, e) ==
  e.chain = d.chain /\ e.traffic = d.traffic /\ e.blocks = d.blocks /\ e.bound = d.bound

\* A database whose rows fit together.
Shape(d) == d \in Databases /\ WellTyped(d)

\* The first part of the invariant: both databases are well formed, the phase
\* tells which tables there are, and the loops visit rows that are there.
Sane ==
  /\ Shape(db) /\ Shape(tx)
  /\ phase \in Phases /\ faults \in 0..Faults
  /\ todo \subseteq Nat /\ idOf \in Tables(Nat)
  /\ IF phase \in InTx THEN before = db /\ tx.credTable ELSE tx = db
  /\ phase \in {"keys", "backfill", "alias", "inspect"} => before = NoDb
  /\ phase = "backfill" => db.keyTable
  /\ phase \in KeysGone => ~tx.keyTable
  /\ phase = "move" => todo \subseteq DOMAIN tx.keys /\ tx.keys = db.keys
  /\ phase = "remap" => todo \subseteq DOMAIN idOf
  /\ phase \in {"clean", "up"} => Natural(db)

\* What a database holds.
LEMMA Fields ==
  ASSUME NEW d \in Databases
  PROVE  /\ d.platforms \in Tables(PlatformRows) /\ d.rapis \in Tables(RAPIRows)
         /\ d.keys \in Tables(KeyRows) /\ d.keyTable \in BOOLEAN
         /\ d.creds \in Tables(CredentialRows) /\ d.credTable \in BOOLEAN /\ d.seq \in Nat
         /\ d.bound \subseteq Nat \X Nat /\ d.chain \subseteq Nat /\ d.traffic \in Tables(Nat)
         /\ d.blocks \subseteq Nat \X Nat /\ d.unique \in {"global", "platform", "none"}
BY DEF Databases

\* No constraint on aliases.
LEMMA RebuiltIs ==
  ASSUME NEW d \in Databases, NEW e, e = Rebuilt(d)
  PROVE  /\ e \in Databases /\ e.unique = "none" /\ e.platforms = d.platforms
         /\ e.rapis = d.rapis /\ SameKeys(d, e) /\ SameCreds(d, e) /\ SameRefs(d, e)
BY DEF Databases, SameKeys, SameCreds, SameRefs, Rebuilt

\* Other models.
LEMMA ModelRowsChanged ==
  ASSUME NEW d \in Databases, NEW R \in Tables(RAPIRows), NEW e, e = [d EXCEPT !.rapis = R]
  PROVE  /\ e \in Databases /\ e.rapis = R /\ e.platforms = d.platforms /\ e.unique = d.unique
         /\ SameKeys(d, e) /\ SameCreds(d, e) /\ SameRefs(d, e)
BY DEF Databases, SameKeys, SameCreds, SameRefs

\* The lists become what the bindings say.
LEMMA ProjectedIs ==
  ASSUME NEW d \in Databases, NEW e, e = Projected(d)
  PROVE  /\ e \in Databases /\ e.platforms = d.platforms /\ e.unique = d.unique
         /\ SameKeys(d, e) /\ SameCreds(d, e) /\ SameRefs(d, e)
         /\ DOMAIN e.rapis = DOMAIN d.rapis
         /\ \A r \in DOMAIN d.rapis :
              /\ e.rapis[r].platform = d.rapis[r].platform
              /\ e.rapis[r].alias = d.rapis[r].alias /\ e.rapis[r].model = d.rapis[r].model
              /\ e.rapis[r].keyIDs = {b[2] : b \in {x \in d.bound : x[1] = r}}
<1> DEFINE list(r) == {b[2] : b \in {x \in d.bound : x[1] = r}}
           R == [r \in DOMAIN d.rapis |-> [d.rapis[r] EXCEPT !.keyIDs = list(r)]]
<1>1. e = [d EXCEPT !.rapis = R]
  BY DEF Projected
<1>2. d.rapis \in Tables(RAPIRows) /\ d.bound \subseteq Nat \X Nat
  BY Fields
<1>3. ASSUME NEW r \in DOMAIN d.rapis
      PROVE  /\ R[r] \in RAPIRows /\ R[r].platform = d.rapis[r].platform
             /\ R[r].alias = d.rapis[r].alias /\ R[r].model = d.rapis[r].model
             /\ R[r].keyIDs = list(r)
  <2>1. d.rapis[r] \in RAPIRows
    BY <1>2, RowsOfTable
  <2>2. list(r) \in SUBSET Nat
    BY <1>2
  <2> HIDE DEF list
  <2> QED
    BY <2>1, <2>2 DEF RAPIRows
<1>4. DOMAIN R = DOMAIN d.rapis /\ R = [r \in DOMAIN d.rapis |-> R[r]]
  OBVIOUS
<1>5. R \in Tables(RAPIRows)
  <2> HIDE DEF R
  <2> QED
    BY <1>2, <1>3, <1>4, ChangedRows
<1>6. /\ e \in Databases /\ e.rapis = R /\ e.platforms = d.platforms /\ e.unique = d.unique
      /\ SameKeys(d, e) /\ SameCreds(d, e) /\ SameRefs(d, e)
  <2> HIDE DEF R
  <2> QED
    BY <1>1, <1>5, ModelRowsChanged
<1> HIDE DEF R
<1> QED
  BY <1>3, <1>4, <1>6

----------------------------------------------------------------------------
(* What the merges, the backfill and the clean-up make of a database.      *)

\* The rows of one platform become rows of another.
To(rows, p, keep) ==
  [k \in DOMAIN rows |->
     IF rows[k].platform = p THEN [rows[k] EXCEPT !.platform = keep] ELSE rows[k]]

\* The platform p is merged into keep.
MergedPlatform(d, p, keep) ==
  [d EXCEPT !.rapis = To(@, p, keep), !.creds = To(@, p, keep), !.platforms = Without(@, p)]

\* What is moved keeps everything but its platform.
LEMMA ModelsMoved ==
  ASSUME NEW rows \in Tables(RAPIRows), NEW p, NEW keep \in Nat, NEW new, new = To(rows, p, keep)
  PROVE  /\ new \in Tables(RAPIRows) /\ DOMAIN new = DOMAIN rows
         /\ \A r \in DOMAIN rows :
              /\ new[r].platform = (IF rows[r].platform = p THEN keep ELSE rows[r].platform)
              /\ new[r].alias = rows[r].alias /\ new[r].model = rows[r].model
              /\ new[r].keyIDs = rows[r].keyIDs
<1>1. DOMAIN new = DOMAIN rows /\ new = [r \in DOMAIN rows |-> new[r]]
  BY DEF To
<1>2. ASSUME NEW r \in DOMAIN rows
      PROVE  /\ new[r] \in RAPIRows
             /\ new[r].platform = (IF rows[r].platform = p THEN keep ELSE rows[r].platform)
             /\ new[r].alias = rows[r].alias /\ new[r].model = rows[r].model
             /\ new[r].keyIDs = rows[r].keyIDs
  <2>1. rows[r] \in RAPIRows
    BY RowsOfTable
  <2> QED
    BY <2>1 DEF RAPIRows, To
<1>3. new \in Tables(RAPIRows)
  BY <1>1, <1>2, ChangedRows
<1> QED
  BY <1>1, <1>2, <1>3

\* The same of credentials.
LEMMA CredsMoved ==
  ASSUME NEW rows \in Tables(CredentialRows), NEW p, NEW keep \in Nat, NEW new,
         new = To(rows, p, keep)
  PROVE  /\ new \in Tables(CredentialRows) /\ DOMAIN new = DOMAIN rows
         /\ \A c \in DOMAIN rows : new[c].token = rows[c].token
<1>1. DOMAIN new = DOMAIN rows /\ new = [r \in DOMAIN rows |-> new[r]]
  BY DEF To
<1>2. ASSUME NEW c \in DOMAIN rows
      PROVE  new[c] \in CredentialRows /\ new[c].token = rows[c].token
  <2>1. rows[c] \in CredentialRows
    BY RowsOfTable
  <2> QED
    BY <2>1 DEF CredentialRows, To
<1>3. new \in Tables(CredentialRows)
  BY <1>1, <1>2, ChangedRows
<1> QED
  BY <1>1, <1>2, <1>3

\* A platform is merged into another one.
LEMMA MergedPlatformIs ==
  ASSUME NEW d \in Databases, NEW p, NEW keep \in Nat, NEW e, e = MergedPlatform(d, p, keep)
  PROVE  /\ e \in Databases /\ e.unique = d.unique /\ e.credTable = d.credTable /\ e.seq = d.seq
         /\ SameKeys(d, e) /\ SameRefs(d, e)
         /\ DOMAIN e.platforms = DOMAIN d.platforms \ {p}
         /\ \A q \in DOMAIN d.platforms : q # p => e.platforms[q] = d.platforms[q]
         /\ DOMAIN e.rapis = DOMAIN d.rapis
         /\ \A r \in DOMAIN d.rapis :
              /\ e.rapis[r].platform = (IF d.rapis[r].platform = p THEN keep ELSE d.rapis[r].platform)
              /\ e.rapis[r].alias = d.rapis[r].alias /\ e.rapis[r].model = d.rapis[r].model
              /\ e.rapis[r].keyIDs = d.rapis[r].keyIDs
         /\ DOMAIN e.creds = DOMAIN d.creds
         /\ \A c \in DOMAIN d.creds : Token(e, c) = Token(d, c)
<1> DEFINE R == To(d.rapis, p, keep)
           C == To(d.creds, p, keep)
           P == Without(d.platforms, p)
<1>1. e = [d EXCEPT !.rapis = R, !.creds = C, !.platforms = P]
  BY DEF MergedPlatform
<1>2. /\ d.rapis \in Tables(RAPIRows) /\ d.creds \in Tables(CredentialRows)
      /\ d.platforms \in Tables(PlatformRows)
  BY Fields
<1>3. /\ R \in Tables(RAPIRows) /\ DOMAIN R = DOMAIN d.rapis
      /\ \A r \in DOMAIN d.rapis :
           /\ R[r].platform = (IF d.rapis[r].platform = p THEN keep ELSE d.rapis[r].platform)
           /\ R[r].alias = d.rapis[r].alias /\ R[r].model = d.rapis[r].model
           /\ R[r].keyIDs = d.rapis[r].keyIDs
  BY <1>2, ModelsMoved
<1>4. /\ C \in Tables(CredentialRows) /\ DOMAIN C = DOMAIN d.creds
      /\ \A c \in DOMAIN d.creds : C[c].token = d.creds[c].token
  BY <1>2, CredsMoved
<1>5. /\ P \in Tables(PlatformRows) /\ DOMAIN P = DOMAIN d.platforms \ {p}
      /\ \A q \in DOMAIN d.platforms : q # p => P[q] = d.platforms[q]
  BY <1>2, WithoutARow
<1> HIDE DEF R, C, P
<1>6. /\ e \in Databases /\ e.platforms = P /\ e.rapis = R /\ e.creds = C
      /\ e.unique = d.unique /\ e.credTable = d.credTable /\ e.seq = d.seq
      /\ SameKeys(d, e) /\ SameRefs(d, e)
  <2>1. P \in Tables(PlatformRows) /\ R \in Tables(RAPIRows) /\ C \in Tables(CredentialRows)
    BY <1>3, <1>4, <1>5
  <2> QED
    BY <1>1, <2>1 DEF Databases, SameKeys, SameRefs
<1> QED
  BY <1>3, <1>4, <1>5, <1>6 DEF Token

\* What refers to a duplicate refers to the model that is kept.
RefsMerged(d, keep, dup, e) ==
  /\ e.chain = {IF r = dup THEN keep ELSE r : r \in d.chain}
  /\ e.blocks = RePointed(d.blocks, 2, dup, keep)
  /\ e.bound = RePointed(d.bound, 1, dup, keep)
  /\ dup \notin DOMAIN d.traffic => e.traffic = d.traffic
  /\ dup \in DOMAIN d.traffic =>
       /\ DOMAIN e.traffic = (DOMAIN d.traffic \ {dup}) \cup {keep}
       /\ \A r \in DOMAIN d.traffic : r # dup /\ r # keep => e.traffic[r] = d.traffic[r]
       /\ e.traffic[keep] = SumOn(d.traffic, {keep, dup} \cap DOMAIN d.traffic)

\* A duplicate is merged into the model that is kept.
LEMMA MergedRAPIIs ==
  ASSUME NEW d, Shape(d), NEW keep \in DOMAIN d.rapis, NEW dup \in DOMAIN d.rapis, keep # dup,
         NEW e, e = MergedRAPI(d, keep, dup)
  PROVE  /\ Shape(e) /\ e.platforms = d.platforms /\ e.unique = d.unique
         /\ SameKeys(d, e) /\ SameCreds(d, e)
         /\ DOMAIN e.rapis = DOMAIN d.rapis \ {dup}
         /\ \A r \in DOMAIN d.rapis : r # dup => e.rapis[r] = d.rapis[r]
         /\ RefsMerged(d, keep, dup, e)
<1> DEFINE R == Without(d.rapis, dup)
           H == {IF r = dup THEN keep ELSE r : r \in d.chain}
           total == SumOn(d.traffic, {keep, dup} \cap DOMAIN d.traffic)
           T == IF dup \in DOMAIN d.traffic
                THEN With(Without(d.traffic, dup), keep, total) ELSE d.traffic
           L == RePointed(d.blocks, 2, dup, keep)
           B == RePointed(d.bound, 1, dup, keep)
<1>1. d \in Databases /\ WellTyped(d)
  BY DEF Shape
<1>2. e = [d EXCEPT !.chain = H, !.traffic = T, !.blocks = L, !.bound = B, !.rapis = R]
  BY DEF MergedRAPI, SumOn
<1>3. /\ d.rapis \in Tables(RAPIRows) /\ d.traffic \in Tables(Nat)
      /\ d.blocks \subseteq Nat \X Nat /\ d.bound \subseteq Nat \X Nat
      /\ d.chain \subseteq DOMAIN d.rapis /\ DOMAIN d.traffic \subseteq DOMAIN d.rapis
      /\ \A b \in d.bound : b[1] \in DOMAIN d.rapis
  BY <1>1, Fields DEF WellTyped
<1>4. DOMAIN d.rapis \subseteq Nat /\ keep \in Nat /\ dup \in Nat
  BY <1>3, RowsOfTable
<1>5. /\ R \in Tables(RAPIRows) /\ DOMAIN R = DOMAIN d.rapis \ {dup}
      /\ \A r \in DOMAIN d.rapis : r # dup => R[r] = d.rapis[r]
  <2>1. d.rapis \in Tables(RAPIRows)
    BY <1>3
  <2> QED
    BY <2>1, WithoutARow
<1>6. H \subseteq DOMAIN d.rapis \ {dup} /\ H \subseteq Nat
  BY <1>3, <1>4
<1>7. total \in Nat
  <2>1. IsFiniteSet({keep, dup} \cap DOMAIN d.traffic)
    <3>1. IsFiniteSet(DOMAIN d.traffic)
      BY <1>3, RowsOfTable
    <3> QED
      BY <3>1, FS_Subset
  <2>2. \A r \in {keep, dup} \cap DOMAIN d.traffic : d.traffic[r] \in Nat
    BY <1>3, RowsOfTable
  <2> QED
    BY <2>1, <2>2, SumIsNumber
<1>8. /\ T \in Tables(Nat) /\ DOMAIN T \subseteq DOMAIN R
      /\ dup \notin DOMAIN d.traffic => T = d.traffic
      /\ dup \in DOMAIN d.traffic =>
           /\ DOMAIN T = (DOMAIN d.traffic \ {dup}) \cup {keep}
           /\ \A r \in DOMAIN d.traffic : r # dup /\ r # keep => T[r] = d.traffic[r]
           /\ T[keep] = total
  <2>1. CASE dup \notin DOMAIN d.traffic
    BY <1>3, <1>5, <2>1
  <2>2. CASE dup \in DOMAIN d.traffic
    <3> DEFINE U == Without(d.traffic, dup)
    <3>1. /\ U \in Tables(Nat) /\ DOMAIN U = DOMAIN d.traffic \ {dup}
          /\ \A r \in DOMAIN d.traffic : r # dup => U[r] = d.traffic[r]
      <4>1. d.traffic \in Tables(Nat)
        BY <1>3
      <4> QED
        BY <4>1, WithoutARow
    <3>2. T = With(U, keep, total)
      BY <2>2
    <3> HIDE DEF U, T, total
    <3>3. keep \in Nat /\ total \in Nat
      BY <1>4, <1>7
    <3>4. /\ T \in Tables(Nat) /\ DOMAIN T = DOMAIN U \cup {keep}
          /\ \A r \in DOMAIN U : r # keep => T[r] = U[r]
          /\ T[keep] = total
      <4>1. U \in Tables(Nat)
        BY <3>1
      <4>2. With(U, keep, total) \in Tables(Nat)
        BY <3>3, <4>1, WithARow
      <4>3. /\ DOMAIN T = DOMAIN U \cup {keep}
            /\ \A r \in DOMAIN U : r # keep => T[r] = U[r]
            /\ T[keep] = total
        BY <3>2 DEF With
      <4> QED
        BY <3>2, <4>2, <4>3
    <3> QED
      BY <1>3, <1>5, <2>2, <3>1, <3>4
  <2> QED
    BY <2>1, <2>2
<1>9. L \subseteq Nat \X Nat
  BY <1>3, <1>4, RePointedSecond
<1>10. B \subseteq Nat \X Nat /\ \A b \in B : b[1] \in DOMAIN R
  <2> HIDE DEF R
  <2>1. /\ B \subseteq Nat \X Nat
        /\ \A c \in B : \E b \in d.bound : c[1] = (IF b[1] = dup THEN keep ELSE b[1]) /\ c[2] = b[2]
    BY <1>3, <1>4, RePointedFirst
  <2> HIDE DEF B
  <2> QED
    BY <1>3, <1>5, <2>1
<1> HIDE DEF R, H, T, L, B
<1>11. /\ e \in Databases /\ e.rapis = R /\ e.chain = H /\ e.traffic = T /\ e.blocks = L
       /\ e.bound = B /\ e.platforms = d.platforms /\ e.unique = d.unique
       /\ SameKeys(d, e) /\ SameCreds(d, e)
  <2>1. R \in Tables(RAPIRows) /\ H \in SUBSET Nat /\ T \in Tables(Nat)
    BY <1>5, <1>6, <1>8
  <2>2. L \in SUBSET (Nat \X Nat) /\ B \in SUBSET (Nat \X Nat) /\ d \in Databases
    BY <1>1, <1>9, <1>10
  <2>3. d \in Databases
    BY <1>1
  <2>4. /\ e.rapis = R /\ e.chain = H /\ e.traffic = T /\ e.blocks = L
        /\ e.bound = B /\ e.platforms = d.platforms /\ e.unique = d.unique
        /\ SameKeys(d, e) /\ SameCreds(d, e)
    BY <1>2, <2>3 DEF Databases, SameKeys, SameCreds
  <2>5. e \in Databases
    BY <1>2, <2>1, <2>2 DEF Databases
  <2> QED
    BY <2>4, <2>5
<1>12. WellTyped(e)
  BY <1>1, <1>5, <1>6, <1>8, <1>10, <1>11 DEF WellTyped, SameKeys, SameCreds
<1>13. RefsMerged(d, keep, dup, e)
  BY <1>8, <1>11 DEF RefsMerged, H, L, B
<1> QED
  BY <1>5, <1>11, <1>12, <1>13 DEF Shape

\* The models whose platform is gone go, and what refers to them.
LEMMA WithoutOrphansIs ==
  ASSUME NEW d, Shape(d), NEW e, e = WithoutOrphans(d)
  PROVE  /\ Shape(e) /\ e.platforms = d.platforms /\ e.unique = d.unique
         /\ SameKeys(d, e) /\ SameCreds(d, e)
         /\ DOMAIN e.rapis \subseteq DOMAIN d.rapis
         /\ \A r \in DOMAIN e.rapis : e.rapis[r] = d.rapis[r]
         /\ e.bound = {b \in d.bound : b[1] \in DOMAIN e.rapis}
<1> DEFINE here == {r \in DOMAIN d.rapis : d.rapis[r].platform \in DOMAIN d.platforms}
           R == Restrict(d.rapis, here)
           H == d.chain \cap here
           T == Restrict(d.traffic, DOMAIN d.traffic \cap here)
           L == {b \in d.blocks : b[2] \in here}
           B == {b \in d.bound : b[1] \in here}
<1>1. d \in Databases /\ WellTyped(d)
  BY DEF Shape
<1>2. e = [d EXCEPT !.rapis = R, !.chain = H, !.traffic = T, !.blocks = L, !.bound = B]
  BY DEF WithoutOrphans
<1>3. e = [d EXCEPT !.chain = H, !.traffic = T, !.blocks = L, !.bound = B, !.rapis = R]
  <2> HIDE DEF R, H, T, L, B
  <2> QED
    BY <1>1, <1>2 DEF Databases
<1>4. /\ d.rapis \in Tables(RAPIRows) /\ d.traffic \in Tables(Nat) /\ d.chain \subseteq Nat
      /\ d.blocks \subseteq Nat \X Nat /\ d.bound \subseteq Nat \X Nat
  BY <1>1, Fields
<1>5. R \in Tables(RAPIRows) /\ DOMAIN R = here /\ \A r \in here : R[r] = d.rapis[r]
  <2>1. here \subseteq DOMAIN d.rapis
    OBVIOUS
  <2> HIDE DEF here
  <2> QED
    BY <1>4, <2>1, SomeRows
<1>6. T \in Tables(Nat) /\ DOMAIN T = DOMAIN d.traffic \cap here
  <2> HIDE DEF here
  <2> QED
    BY <1>4, SomeRows
<1>7. /\ L \subseteq Nat \X Nat /\ B \subseteq Nat \X Nat /\ H \subseteq Nat /\ H \subseteq here
      /\ \A b \in B : b[1] \in here
  BY <1>4
<1>8. here \subseteq DOMAIN d.rapis /\ B = {b \in d.bound : b[1] \in here}
  OBVIOUS
<1> HIDE DEF here, R, H, T, L, B
<1>9. /\ e \in Databases /\ e.rapis = R /\ e.chain = H /\ e.traffic = T /\ e.blocks = L
      /\ e.bound = B /\ e.platforms = d.platforms /\ e.unique = d.unique
      /\ SameKeys(d, e) /\ SameCreds(d, e)
  <2>1. R \in Tables(RAPIRows) /\ H \in SUBSET Nat /\ T \in Tables(Nat)
    BY <1>5, <1>6, <1>7
  <2>2. L \in SUBSET (Nat \X Nat) /\ B \in SUBSET (Nat \X Nat) /\ d \in Databases
    BY <1>1, <1>7
  <2>3. d \in Databases
    BY <1>1
  <2>4. /\ e.rapis = R /\ e.chain = H /\ e.traffic = T /\ e.blocks = L
        /\ e.bound = B /\ e.platforms = d.platforms /\ e.unique = d.unique
        /\ SameKeys(d, e) /\ SameCreds(d, e)
    BY <1>3, <2>3 DEF Databases, SameKeys, SameCreds
  <2>5. e \in Databases
    BY <1>3, <2>1, <2>2 DEF Databases
  <2> QED
    BY <2>4, <2>5
<1>10. WellTyped(e)
  BY <1>1, <1>5, <1>6, <1>7, <1>9 DEF WellTyped, SameKeys, SameCreds
<1> QED
  BY <1>5, <1>8, <1>9, <1>10 DEF Shape

\* Rows for the tokens of platforms are added to those there are.
LEMMA DefaultsAre ==
  ASSUME NEW d \in Databases, NEW new, new = WithDefaults(d)
  PROVE  /\ new \in Tables(KeyRows) /\ DOMAIN d.keys \subseteq DOMAIN new
         /\ \A k \in DOMAIN d.keys : new[k] = d.keys[k]
         /\ \A k \in DOMAIN new : k \notin DOMAIN d.keys =>
              /\ new[k].kind = "default" /\ new[k].platform \in DOMAIN d.platforms
              /\ new[k].token = d.platforms[new[k].platform].token
<1> DEFINE wanting == {p \in DOMAIN d.platforms :
                         /\ d.platforms[p].token # NoToken
                         /\ \A k \in DOMAIN d.keys :
                              d.keys[k].platform = p => d.keys[k].kind = "more"}
           id(p) == Max({0} \cup DOMAIN d.keys) + Cardinality({q \in wanting : q <= p})
           ids == {id(p) : p \in wanting}
           of(k) == CHOOSE p \in wanting : id(p) = k
<1>1. d.platforms \in Tables(PlatformRows) /\ d.keys \in Tables(KeyRows)
  BY Fields
<1>2. /\ DOMAIN d.platforms \subseteq Nat /\ IsFiniteSet(DOMAIN d.platforms)
      /\ \A p \in DOMAIN d.platforms : d.platforms[p] \in PlatformRows
      /\ DOMAIN d.keys \subseteq Nat /\ IsFiniteSet(DOMAIN d.keys)
      /\ \A k \in DOMAIN d.keys : d.keys[k] \in KeyRows
  BY <1>1, RowsOfTable
<1>3. wanting \subseteq DOMAIN d.platforms /\ IsFiniteSet(wanting)
  <2>1. wanting \subseteq DOMAIN d.platforms
    OBVIOUS
  <2> HIDE DEF wanting
  <2> QED
    BY <1>2, <2>1, FS_Subset
<1>4. Max({0} \cup DOMAIN d.keys) \in Nat
  <2>1. IsFiniteSet(DOMAIN d.keys \cup {0})
    BY <1>2, FS_AddElement
  <2>2. DOMAIN d.keys \cup {0} = {0} \cup DOMAIN d.keys
    OBVIOUS
  <2>3. IsFiniteSet({0} \cup DOMAIN d.keys) /\ {0} \cup DOMAIN d.keys \subseteq Nat
        /\ {0} \cup DOMAIN d.keys # {}
    BY <1>2, <2>1, <2>2
  <2>4. Max({0} \cup DOMAIN d.keys) \in {0} \cup DOMAIN d.keys
    BY <2>3, MaxIs
  <2> QED
    BY <2>3, <2>4
<1>5. \A p \in wanting : id(p) \in Nat
  <2> HIDE DEF wanting
  <2>1. ASSUME NEW p \in wanting PROVE id(p) \in Nat
    <3>1. IsFiniteSet({q \in wanting : q <= p})
      BY <1>3, FS_Subset
    <3>2. Cardinality({q \in wanting : q <= p}) \in Nat
      BY <3>1, FS_CardinalityType
    <3> QED
      BY <1>4, <3>2
  <2> QED
    BY <2>1
<1>6. ids \subseteq Nat /\ IsFiniteSet(ids)
  <2> HIDE DEF wanting, id
  <2>1. ids \subseteq Nat
    BY <1>5
  <2> DEFINE f == [p \in wanting |-> id(p)]
  <2>2. f \in Surjection(wanting, ids)
    BY DEF Surjection
  <2> HIDE DEF f, ids
  <2> QED
    BY <1>3, <2>1, <2>2, FS_Surjection
<1>7. \A k \in ids : of(k) \in wanting
  <2> HIDE DEF wanting, id
  <2> QED
    OBVIOUS
<1>8. /\ new = [k \in DOMAIN d.keys \cup ids |->
                  IF k \in DOMAIN d.keys THEN d.keys[k]
                  ELSE [platform |-> of(k), token |-> d.platforms[of(k)].token, kind |-> "default"]]
  BY DEF WithDefaults
<1>9. \A k \in ids : of(k) \in DOMAIN d.platforms
  <2> HIDE DEF of, ids, wanting
  <2> QED
    BY <1>3, <1>7
<1> HIDE DEF wanting, id, ids, of
<1>10. ASSUME NEW k \in DOMAIN d.keys \cup ids
       PROVE  /\ new[k] \in KeyRows
              /\ k \in DOMAIN d.keys => new[k] = d.keys[k]
              /\ k \notin DOMAIN d.keys =>
                   /\ new[k].kind = "default" /\ new[k].platform \in DOMAIN d.platforms
                   /\ new[k].token = d.platforms[new[k].platform].token
  <2>1. CASE k \in DOMAIN d.keys
    BY <1>2, <1>8, <2>1
  <2>2. CASE k \notin DOMAIN d.keys
    <3>1. new[k] = [platform |-> of(k), token |-> d.platforms[of(k)].token, kind |-> "default"]
      BY <1>8, <2>2
    <3>2. of(k) \in DOMAIN d.platforms /\ of(k) \in Nat
      BY <1>2, <1>9, <2>2
    <3>3. d.platforms[of(k)].token \in Secrets \cup {NoToken}
      BY <1>2, <3>2 DEF PlatformRows
    <3> QED
      BY <2>2, <3>1, <3>2, <3>3 DEF KeyRows
  <2> QED
    BY <2>1, <2>2
<1>11. IsFiniteSet(DOMAIN d.keys \cup ids) /\ DOMAIN d.keys \cup ids \subseteq Nat
  BY <1>2, <1>6, FS_Union
<1>12. DOMAIN new = DOMAIN d.keys \cup ids /\ new = [k \in DOMAIN d.keys \cup ids |-> new[k]]
  BY <1>8
<1>13. new \in Tables(KeyRows)
  <2> DEFINE D == DOMAIN d.keys \cup ids
  <2>1. D \subseteq Nat /\ IsFiniteSet(D) /\ new = [k \in D |-> new[k]]
    BY <1>11, <1>12
  <2>2. \A k \in D : new[k] \in KeyRows
    BY <1>10
  <2> HIDE DEF D
  <2> QED
    BY <2>1, <2>2, TableOfRows
<1> QED
  BY <1>10, <1>12, <1>13

\* The first of the platforms of one URL.
LEMMA CanonicalIs ==
  ASSUME NEW d \in Databases, NEW p
  PROVE  /\ p \notin DOMAIN d.platforms => Canonical(d, p) = p
         /\ p \in DOMAIN d.platforms =>
              /\ Canonical(d, p) \in SamePlatform(d, p) /\ Canonical(d, p) \in DOMAIN d.platforms
              /\ Canonical(d, p) \in Nat
              /\ \A q \in SamePlatform(d, p) : Canonical(d, p) <= q
              /\ Canonical(d, p) # p =>
                   /\ d.platforms[Canonical(d, p)].url = d.platforms[p].url
                   /\ d.platforms[p].url # NoURL
<1>1. p \notin DOMAIN d.platforms => Canonical(d, p) = p
  BY DEF Canonical
<1>2. ASSUME p \in DOMAIN d.platforms
      PROVE  /\ Canonical(d, p) \in SamePlatform(d, p) /\ Canonical(d, p) \in DOMAIN d.platforms
             /\ Canonical(d, p) \in Nat
             /\ \A q \in SamePlatform(d, p) : Canonical(d, p) <= q
             /\ Canonical(d, p) # p =>
                   /\ d.platforms[Canonical(d, p)].url = d.platforms[p].url
                   /\ d.platforms[p].url # NoURL
  <2>1. DOMAIN d.platforms \subseteq Nat
    BY Fields, RowsOfTable
  <2>2. SamePlatform(d, p) \subseteq DOMAIN d.platforms /\ p \in SamePlatform(d, p)
    BY <1>2 DEF SamePlatform
  <2>3. Canonical(d, p) = Min(SamePlatform(d, p))
    BY <1>2 DEF Canonical
  <2>4. /\ Canonical(d, p) \in SamePlatform(d, p)
        /\ \A q \in SamePlatform(d, p) : Canonical(d, p) <= q
    BY <2>1, <2>2, <2>3, MinIs
  <2>5. Canonical(d, p) # p =>
                   /\ d.platforms[Canonical(d, p)].url = d.platforms[p].url
                   /\ d.platforms[p].url # NoURL
    BY <2>4 DEF SamePlatform
  <2> QED
    BY <2>1, <2>2, <2>4, <2>5
<1> QED
  BY <1>1, <1>2

----------------------------------------------------------------------------
(* What the steps before the transaction and of the keys do.               *)

\* What an earlier version leaves is a database.
LEMMA OldDatabasesAre ==
  ASSUME NEW d \in OldDatabases
  PROVE  /\ Shape(d) /\ d.creds = <<>> /\ DOMAIN d.creds = {} /\ d.bound = {} /\ Allowed(d)
         /\ d.unique \in {"platform", "global"} /\ (d.credTable => d.unique = "platform")
<1>1. d = [platforms |-> d.platforms, rapis |-> d.rapis, keys |-> d.keys, keyTable |-> d.keyTable,
           creds |-> <<>>, credTable |-> d.credTable, seq |-> 0, bound |-> {}, chain |-> d.chain,
           traffic |-> d.traffic, blocks |-> d.blocks, unique |-> d.unique]
  BY OldDatabasesAssumption
<1>2. /\ d.platforms \in Tables(PlatformRows) /\ d.rapis \in Tables(RAPIRows)
      /\ d.keys \in Tables(KeyRows) /\ d.traffic \in Tables(Nat)
  BY OldDatabasesAssumption, TablesAre
<1>3. /\ d.keyTable \in BOOLEAN /\ d.credTable \in BOOLEAN /\ (d.keys # <<>> => d.keyTable)
      /\ d.chain \subseteq DOMAIN d.rapis /\ DOMAIN d.traffic \subseteq DOMAIN d.rapis
      /\ d.blocks \in SUBSET (Nat \X Nat)
      /\ d.unique \in {"platform", "global"} /\ (d.credTable => d.unique = "platform")
      /\ Allowed(d)
  BY OldDatabasesAssumption
<1>4. d.creds = <<>> /\ d.seq = 0 /\ d.bound = {}
  BY <1>1
<1>5. <<>> \in Tables(CredentialRows) /\ DOMAIN <<>> = {}
  BY NoRows
<1>6. d.chain \in SUBSET Nat
  BY <1>2, <1>3, RowsOfTable
<1>7. d \in Databases
  <2>1. 0 \in Nat /\ {} \in SUBSET (Nat \X Nat) /\ d.unique \in {"global", "platform", "none"}
    BY <1>3
  <2> QED
    BY <1>1, <1>2, <1>3, <1>5, <1>6, <2>1 DEF Databases
<1>8. DOMAIN d.keys # {} => d.keyTable
  BY <1>2, <1>3, EmptyTable
<1>9. DOMAIN d.creds = {}
  BY <1>4, <1>5
<1>10. WellTyped(d)
  BY <1>3, <1>4, <1>8, <1>9 DEF WellTyped
<1> QED
  BY <1>3, <1>4, <1>7, <1>9, <1>10 DEF Shape

\* Initially.
LEMMA SaneInit == UpgradeInit => Sane
<1> SUFFICES ASSUME UpgradeInit PROVE Sane
  OBVIOUS
<1>1. Shape(db) /\ Shape(tx)
  BY OldDatabasesAre DEF UpgradeInit
<1>2. faults \in 0..Faults
  BY FaultsAssumption DEF UpgradeInit
<1>3. idOf \in Tables(Nat)
  BY NoRows DEF UpgradeInit
<1> QED
  BY <1>1, <1>2, <1>3 DEF UpgradeInit, Sane, Phases, InTx, KeysGone

\* Nothing of the two databases changes, and no phase of the transaction begins.
LEMMA QuietSane ==
  ASSUME Sane, UNCHANGED db, phase' \in Phases \ (InTx \cup {"clean", "up"}), tx' = db, phase' # "backfill",
         faults' \in 0..Faults, todo' \subseteq Nat, idOf' \in Tables(Nat),
         phase' \in {"keys", "backfill", "alias", "inspect"} => before' = NoDb
  PROVE  Sane'
BY DEF Sane, InTx, KeysGone, Shape, WellTyped

\* A start begins with what is committed.
LEMMA StartSane == Sane /\ Start => Sane'
<1> SUFFICES ASSUME Sane, Start PROVE Sane'
  OBVIOUS
<1>1. <<>> \in Tables(Nat)
  BY NoRows
<1>2. UNCHANGED <<db, faults>> /\ tx' = db /\ phase' = "keys" /\ before' = NoDb
      /\ todo' = {} /\ idOf' = <<>> /\ faults' \in 0..Faults
  BY DEF Start, Sane, InTx
<1>3. "keys" \in Phases \ (InTx \cup {"clean", "up"})
  BY DEF Phases, InTx
<1>4. todo' \subseteq Nat /\ idOf' \in Tables(Nat)
  BY <1>1, <1>2
<1> QED
  BY <1>2, <1>3, <1>4, QuietSane

\* A step before the transaction.
LEMMA CommittedSane ==
  ASSUME Sane, Shape(db'), tx' = db', phase' \in Phases \ InTx,
         phase' \in {"clean", "up"} => Natural(db)', phase' = "backfill" => db'.keyTable,
         faults' \in 0..Faults, UNCHANGED <<todo, idOf>>,
         phase' \in {"keys", "backfill", "alias", "inspect"} => before' = NoDb
  PROVE  Sane'
BY DEF Sane, InTx, KeysGone, Shape, WellTyped

\* What the steps before the transaction do.
LEMMA CreateKeyTableDoes ==
  ASSUME Sane, CreateKeyTable
  PROVE  /\ phase = "keys" /\ UNCHANGED <<todo, idOf, report, before, deleted, faults>>
         /\ tx' = db' /\ Shape(db')
         /\ \/ DOMAIN db.creds # {} /\ phase' = "alias" /\ db' = db
            \/ /\ ~db.credTable \/ DOMAIN db.creds = {}
               /\ phase' = "backfill" /\ db'.keys = db.keys /\ db'.keyTable = TRUE
               /\ SameModels(db, db') /\ SameCreds(db, db') /\ SameRefs(db, db')
<1>1. db \in Databases /\ WellTyped(db) /\ tx = db
  BY DEF Sane, Shape, CreateKeyTable, InTx
<1>2. db.creds = <<>> <=> DOMAIN db.creds = {}
  BY <1>1, Fields, EmptyTable
<1>3. CASE db.credTable /\ db.creds # <<>>
  BY <1>1, <1>2, <1>3 DEF CreateKeyTable, Shape
<1>4. CASE ~(db.credTable /\ db.creds # <<>>)
  <2>1. db' = [db EXCEPT !.keyTable = TRUE] /\ tx' = db' /\ phase' = "backfill"
    BY <1>4 DEF CreateKeyTable, Commit
  <2>2. /\ db' \in Databases /\ db'.keys = db.keys /\ db'.keyTable = TRUE
        /\ SameModels(db, db') /\ SameCreds(db, db') /\ SameRefs(db, db')
    BY <1>1, <2>1 DEF Databases, SameModels, SameCreds, SameRefs
  <2>3. WellTyped(db')
    BY <1>1, <2>2 DEF WellTyped, SameModels, SameCreds, SameRefs
  <2> QED
    BY <1>2, <1>4, <2>1, <2>2, <2>3 DEF Shape, CreateKeyTable
<1> QED
  BY <1>3, <1>4


\* Rows for the tokens of platforms are added.
LEMMA BackfillDoes ==
  ASSUME Sane, Backfill
  PROVE  /\ phase = "backfill" /\ phase' = "alias" /\ tx' = db' /\ Shape(db')
         /\ UNCHANGED <<todo, idOf, report, before, deleted, faults>>
         /\ SameModels(db, db') /\ SameCreds(db, db') /\ SameRefs(db, db')
         /\ db'.keyTable = db.keyTable
<1>1. db \in Databases /\ WellTyped(db) /\ db.keyTable
  BY DEF Sane, Shape, Backfill
<1> DEFINE K == WithDefaults(db)
<1>2. K \in Tables(KeyRows)
  BY <1>1, DefaultsAre
<1>3. db' = [db EXCEPT !.keys = K] /\ tx' = db'
  BY DEF Backfill, Commit
<1> HIDE DEF K
<1>4. /\ db' \in Databases /\ db'.keyTable = db.keyTable
      /\ SameModels(db, db') /\ SameCreds(db, db') /\ SameRefs(db, db')
  BY <1>1, <1>2, <1>3 DEF Databases, SameModels, SameCreds, SameRefs
<1>5. WellTyped(db')
  BY <1>1, <1>4 DEF WellTyped, SameModels, SameCreds, SameRefs
<1> QED
  BY <1>3, <1>4, <1>5 DEF Shape, Backfill

\* The table of models is made anew, or not.
LEMMA PerPlatformAliasDoes ==
  ASSUME Sane, PerPlatformAlias
  PROVE  /\ phase = "alias" /\ phase' = "inspect" /\ tx' = db' /\ Shape(db')
         /\ UNCHANGED <<todo, idOf, report, before, deleted, faults>>
         /\ SameKeys(db, db') /\ SameCreds(db, db')
         /\ db'.platforms = db.platforms /\ db'.rapis = db.rapis /\ db'.bound = db.bound
         /\ \/ db' = db /\ (db.credTable \/ db.unique # "global")
            \/ ~db.credTable /\ db.unique = "global" /\ db'.unique = "platform"
<1>1. db \in Databases /\ WellTyped(db) /\ tx = db
  BY DEF Sane, Shape, PerPlatformAlias, InTx
<1>2. CASE db.credTable \/ db.unique # "global"
  BY <1>1, <1>2 DEF PerPlatformAlias, Shape, SameKeys, SameCreds
<1>3. CASE ~(db.credTable \/ db.unique # "global")
  <2>1. db' = [db EXCEPT !.unique = "platform", !.chain = {}, !.traffic = <<>>] /\ tx' = db'
    BY <1>3 DEF PerPlatformAlias, Commit
  <2>2. <<>> \in Tables(Nat) /\ DOMAIN <<>> = {}
    BY NoRows
  <2>3. /\ db' \in Databases /\ db'.unique = "platform" /\ db'.chain = {} /\ db'.traffic = <<>>
        /\ db'.platforms = db.platforms /\ db'.rapis = db.rapis /\ db'.bound = db.bound
        /\ SameKeys(db, db') /\ SameCreds(db, db')
    BY <1>1, <2>1, <2>2 DEF Databases, SameKeys, SameCreds
  <2>4. WellTyped(db')
    BY <1>1, <2>2, <2>3 DEF WellTyped, SameKeys, SameCreds
  <2> QED
    BY <1>3, <2>1, <2>3, <2>4 DEF Shape, PerPlatformAlias
<1> QED
  BY <1>2, <1>3

\* The transaction begins, unless there is nothing to do.
LEMMA InspectDoes ==
  ASSUME Sane, Inspect
  PROVE  /\ phase = "inspect" /\ UNCHANGED <<db, idOf, report, deleted, faults>>
         /\ \/ Natural(db) /\ phase' = "clean" /\ UNCHANGED <<tx, todo, before>>
            \/ /\ ~Natural(db) /\ before' = db /\ Shape(tx') /\ tx'.credTable /\ tx'.creds = db.creds
               /\ tx'.seq = db.seq /\ SameModels(db, tx') /\ SameRefs(db, tx')
               /\ \/ /\ db.keyTable /\ ~Residue(db)
                     /\ phase' = "move" /\ todo' = DOMAIN db.keys
                     /\ SameKeys(db, tx')
                  \/ /\ ~db.keyTable \/ Residue(db)
                     /\ phase' = "dedupe" /\ UNCHANGED todo
                     /\ tx'.keys = <<>> /\ tx'.keyTable = FALSE
<1>1. db \in Databases /\ WellTyped(db) /\ tx = db
  BY DEF Sane, Shape, Inspect, InTx
<1>2. CASE Natural(db)
  BY <1>1, <1>2 DEF Inspect
<1>3. CASE ~Natural(db) /\ db.keyTable /\ ~Residue(db)
  <2>1. tx' = [db EXCEPT !.credTable = TRUE]
    BY <1>3 DEF Inspect
  <2>2. /\ tx' \in Databases /\ tx'.credTable = TRUE /\ tx'.creds = db.creds /\ tx'.seq = db.seq
        /\ SameModels(db, tx') /\ SameKeys(db, tx') /\ SameRefs(db, tx')
    BY <1>1, <2>1 DEF Databases, SameModels, SameKeys, SameRefs
  <2>3. WellTyped(tx')
    BY <1>1, <2>2 DEF WellTyped, SameModels, SameKeys, SameRefs
  <2> QED
    BY <1>3, <2>2, <2>3 DEF Shape, Inspect
<1>4. CASE ~Natural(db) /\ ~(db.keyTable /\ ~Residue(db))
  <2>1. tx' = [db EXCEPT !.credTable = TRUE, !.keyTable = FALSE, !.keys = <<>>]
    BY <1>4 DEF Inspect
  <2>2. <<>> \in Tables(KeyRows) /\ DOMAIN <<>> = {}
    BY NoRows
  <2>3. /\ tx' \in Databases /\ tx'.credTable = TRUE /\ tx'.creds = db.creds /\ tx'.seq = db.seq
        /\ tx'.keyTable = FALSE /\ tx'.keys = <<>> /\ SameModels(db, tx') /\ SameRefs(db, tx')
    BY <1>1, <2>1, <2>2 DEF Databases, SameModels, SameRefs
  <2>4. WellTyped(tx')
    BY <1>1, <2>2, <2>3 DEF WellTyped, SameModels, SameRefs
  <2> QED
    BY <1>4, <2>3, <2>4 DEF Shape, Inspect
<1> QED
  BY <1>2, <1>3, <1>4

\* A row of platform_keys is found to be known, or becomes a credential; there
\* is an id for it.
LEMMA MoveKeyDoes ==
  ASSUME Sane, MoveKey, NEW k, k = Min(todo)
  PROVE  /\ phase = "move" /\ phase' = "move" /\ UNCHANGED <<db, before, deleted, faults>>
         /\ k \in todo /\ k \in DOMAIN tx.keys /\ todo' = todo \ {k} /\ (\A j \in todo : k <= j)
         /\ Shape(tx') /\ SameModels(tx, tx') /\ SameKeys(tx, tx') /\ SameRefs(tx, tx')
         /\ tx'.credTable = tx.credTable
         /\ \/ \E c \in DOMAIN tx.creds :
                 /\ tx.keys[k].token # NoToken /\ Token(tx, c) = tx.keys[k].token
                 /\ \A a \in DOMAIN tx.creds : Token(tx, a) = tx.keys[k].token => c <= a
                 /\ tx' = tx /\ idOf' = With(idOf, k, c)
                 /\ report' = [report EXCEPT !.keys = @ \cup
                       IF Token(tx, k) = tx.keys[k].token /\ k \in DOMAIN tx.creds
                       THEN {} ELSE {<<c, k>>}]
            \/ \E id \in Nat :
                 /\ \A c \in DOMAIN tx.creds :
                      tx.keys[k].token # NoToken => Token(tx, c) # tx.keys[k].token
                 /\ id \notin DOMAIN tx.creds /\ (k \notin DOMAIN tx.creds => id = k)
                 /\ tx'.creds = With(tx.creds, id, [platform |-> tx.keys[k].platform,
                                                    token |-> tx.keys[k].token])
                 /\ idOf' = With(idOf, k, id)
                 /\ report' = [report EXCEPT !.created = @ + 1]
<1>1. /\ tx \in Databases /\ WellTyped(tx) /\ phase = "move" /\ todo \subseteq DOMAIN tx.keys
      /\ todo # {} /\ UNCHANGED <<db, before, deleted, faults>>
  BY DEF Sane, Shape, MoveKey
<1>2. /\ DOMAIN tx.keys \subseteq Nat /\ DOMAIN tx.creds \subseteq Nat
      /\ \A j \in DOMAIN tx.keys : tx.keys[j] \in KeyRows
  BY <1>1, Fields, RowsOfTable
<1>3. k \in todo /\ (\A j \in todo : k <= j) /\ k \in DOMAIN tx.keys /\ k \in Nat
  BY <1>1, <1>2, MinIs
<1> DEFINE row == tx.keys[k]
           known == {c \in DOMAIN tx.creds : row.token # NoToken /\ Token(tx, c) = row.token}
           id == NewId(tx, k)
<1>4. id \in Nat /\ id \notin DOMAIN tx.creds /\ (k \notin DOMAIN tx.creds => id = k)
  <2>1. tx.seq \in Nat /\ \A c \in DOMAIN tx.creds : c <= tx.seq
    BY <1>1, Fields DEF WellTyped
  <2> QED
    BY <1>2, <1>3, <2>1 DEF NewId
<1>5. CASE known # {}
  <2> DEFINE c == Min(known)
  <2>1. known \subseteq Nat
    BY <1>2
  <2>2. c \in known /\ \A a \in known : c <= a
    <3> HIDE DEF known
    <3> QED
      BY <1>5, <2>1, MinIs
  <2>3. /\ idOf' = With(idOf, k, c) /\ todo' = todo \ {k} /\ UNCHANGED <<tx, phase>>
        /\ report' = [report EXCEPT !.keys = @ \cup IF k \in known THEN {} ELSE {<<c, k>>}]
    BY <1>5 DEF MoveKey
  <2>4. k \in known <=> (Token(tx, k) = tx.keys[k].token /\ k \in DOMAIN tx.creds)
    BY <2>2
  <2>5. /\ c \in DOMAIN tx.creds /\ row.token # NoToken /\ Token(tx, c) = row.token
        /\ \A a \in DOMAIN tx.creds : Token(tx, a) = row.token => c <= a
    BY <2>2
  <2>6. Shape(tx') /\ SameModels(tx, tx') /\ SameKeys(tx, tx') /\ SameRefs(tx, tx')
    BY <1>1, <2>3 DEF Shape, SameModels, SameKeys, SameRefs
  <2> HIDE DEF c, known
  <2> QED
    BY <1>1, <1>3, <2>3, <2>4, <2>5, <2>6
<1>6. CASE known = {}
  <2> DEFINE new == [platform |-> row.platform, token |-> row.token]
             C == With(tx.creds, id, new)
             q == Max({tx.seq, id})
  <2>1. /\ tx' = [tx EXCEPT !.creds = C, !.seq = q] /\ idOf' = With(idOf, k, id)
        /\ report' = [report EXCEPT !.created = @ + 1] /\ todo' = todo \ {k} /\ UNCHANGED phase
    BY <1>4, <1>6 DEF MoveKey
  <2>2. new \in CredentialRows
    BY <1>2, <1>3 DEF KeyRows, CredentialRows
  <2>3. C \in Tables(CredentialRows) /\ DOMAIN C = DOMAIN tx.creds \cup {id}
    <3>1. tx.creds \in Tables(CredentialRows)
      BY <1>1, Fields
    <3> HIDE DEF new, id
    <3>2. C \in Tables(CredentialRows)
      BY <1>4, <2>2, <3>1, WithARow
    <3> QED
      BY <3>2 DEF With
  <2>4. q \in Nat /\ tx.seq <= q /\ id <= q
    <3>1. tx.seq \in Nat
      BY <1>1, Fields
    <3> HIDE DEF id
    <3>2. IsFiniteSet({tx.seq, id}) /\ {tx.seq, id} \subseteq Nat /\ {tx.seq, id} # {}
      <4>1. IsFiniteSet({tx.seq}) /\ IsFiniteSet({tx.seq} \cup {id})
        BY FS_Singleton, FS_AddElement
      <4>2. {tx.seq} \cup {id} = {tx.seq, id}
        OBVIOUS
      <4> QED
        BY <1>4, <3>1, <4>1, <4>2
    <3>3. q \in {tx.seq, id} /\ \A j \in {tx.seq, id} : j <= q
      BY <3>2, MaxIs
    <3> QED
      BY <3>2, <3>3
  <2>5. tx.creds \in Tables(CredentialRows) /\ tx.seq \in Nat
    BY <1>1, Fields
  <2> HIDE DEF C, q, id, known, new
  <2>6. /\ tx' \in Databases /\ tx'.creds = C /\ tx'.seq = q /\ tx'.credTable = tx.credTable
        /\ SameModels(tx, tx') /\ SameKeys(tx, tx') /\ SameRefs(tx, tx')
    BY <1>1, <2>1, <2>3, <2>4 DEF Databases, SameModels, SameKeys, SameRefs
  <2>7. WellTyped(tx')
    <3>1. \A c \in DOMAIN C : c <= q
      <4>1. \A c \in DOMAIN tx.creds : c <= tx.seq /\ c \in Nat
        BY <1>1, <1>2 DEF WellTyped
      <4> QED
        BY <1>4, <2>3, <2>4, <2>5, <4>1
    <3>2. tx.credTable
      BY <1>1 DEF Sane, InTx
    <3> QED
      BY <1>1, <2>6, <3>1, <3>2 DEF WellTyped, SameModels, SameKeys, SameRefs
  <2>8. \A c \in DOMAIN tx.creds : row.token # NoToken => Token(tx, c) # row.token
    BY <1>6 DEF known
  <2> QED
    BY <1>1, <1>3, <1>4, <2>1, <2>6, <2>7, <2>8 DEF Shape, C, new
<1> QED
  BY <1>5, <1>6

----------------------------------------------------------------------------
(* What the other steps do.                                                *)

\* The blocks of a key are re-pointed to its credential.
LEMMA RemapDoes ==
  ASSUME Sane, NEW k \in todo, Remap(k)
  PROVE  /\ phase = "remap" /\ todo' = todo \ {k} /\ k \in DOMAIN idOf
         /\ UNCHANGED <<db, phase, idOf, report, before, deleted, faults>>
         /\ Shape(tx') /\ SameModels(tx, tx') /\ SameKeys(tx, tx') /\ SameCreds(tx, tx')
         /\ tx'.chain = tx.chain /\ tx'.traffic = tx.traffic /\ tx'.bound = tx.bound
         /\ tx'.blocks = RePointed(tx.blocks, 1, k, idOf[k])
<1>1. tx \in Databases /\ WellTyped(tx) /\ phase = "remap" /\ k \in DOMAIN idOf /\ idOf \in Tables(Nat)
  BY DEF Sane, Shape, Remap
<1> DEFINE L == RePointed(tx.blocks, 1, k, idOf[k])
<1>2. L \in SUBSET (Nat \X Nat)
  <2>1. tx.blocks \subseteq Nat \X Nat
    BY <1>1, Fields
  <2>2. k \in Nat /\ idOf[k] \in Nat
    BY <1>1, RowsOfTable
  <2> DEFINE i == idOf[k]
  <2>3. i \in Nat
    BY <2>2
  <2> HIDE DEF i
  <2>4. RePointed(tx.blocks, 1, k, i) \subseteq Nat \X Nat
    BY <2>1, <2>2, <2>3, RePointedFirst
  <2> QED
    BY <2>4 DEF i
<1>3. tx' = [tx EXCEPT !.blocks = L]
  BY DEF Remap
<1> HIDE DEF L
<1>4. /\ tx' \in Databases /\ tx'.blocks = L /\ tx'.chain = tx.chain /\ tx'.traffic = tx.traffic
      /\ tx'.bound = tx.bound /\ SameModels(tx, tx') /\ SameKeys(tx, tx') /\ SameCreds(tx, tx')
  BY <1>1, <1>2, <1>3 DEF Databases, SameModels, SameKeys, SameCreds
<1>5. WellTyped(tx')
  BY <1>1, <1>4 DEF WellTyped, SameModels, SameKeys, SameCreds
<1> QED
  BY <1>1, <1>4, <1>5 DEF Remap, Shape, L

\* The bindings are made of the lists.
LEMMA BindDoes ==
  ASSUME Sane, Bind
  PROVE  /\ phase = "remap" /\ todo = {} /\ phase' = "dedupe"
         /\ UNCHANGED <<db, todo, idOf, report, before, deleted, faults>>
         /\ Shape(tx') /\ SameModels(tx, tx') /\ SameCreds(tx, tx')
         /\ tx'.chain = tx.chain /\ tx'.traffic = tx.traffic /\ tx'.blocks = tx.blocks
         /\ tx'.keys = <<>> /\ tx'.keyTable = FALSE
         /\ tx'.bound = tx.bound \cup UNION {{r} \X Bindings(tx, r) : r \in DOMAIN tx.rapis}
<1>1. tx \in Databases /\ WellTyped(tx) /\ idOf \in Tables(Nat)
  BY DEF Sane, Shape
<1> DEFINE made == UNION {{r} \X Bindings(tx, r) : r \in DOMAIN tx.rapis}
           B == tx.bound \cup made
<1>2. /\ DOMAIN tx.rapis \subseteq Nat /\ DOMAIN tx.creds \subseteq Nat
      /\ \A r \in DOMAIN tx.rapis : tx.rapis[r] \in RAPIRows
      /\ \A k \in DOMAIN idOf : idOf[k] \in Nat
      /\ tx.bound \subseteq Nat \X Nat
  BY <1>1, Fields, RowsOfTable
<1>3. \A r \in DOMAIN tx.rapis : Bindings(tx, r) \subseteq Nat
  <2>1. \A r \in DOMAIN tx.rapis : tx.rapis[r].keyIDs \subseteq Nat
    BY <1>2 DEF RAPIRows
  <2> QED
    BY <1>2, <2>1 DEF Bindings
<1>4. \A b \in made : b \in Nat \X Nat /\ b[1] \in DOMAIN tx.rapis
  BY <1>2, <1>3
<1>5. B \in SUBSET (Nat \X Nat) /\ \A b \in B : b \in tx.bound \/ b[1] \in DOMAIN tx.rapis
  <2> HIDE DEF made
  <2> QED
    BY <1>2, <1>4
<1>6. tx' = [tx EXCEPT !.bound = B, !.keys = <<>>, !.keyTable = FALSE]
  BY DEF Bind
<1>7. <<>> \in Tables(KeyRows) /\ DOMAIN <<>> = {}
  BY NoRows
<1> HIDE DEF B
<1>8. /\ tx' \in Databases /\ tx'.bound = B /\ tx'.keys = <<>> /\ tx'.keyTable = FALSE
      /\ tx'.chain = tx.chain /\ tx'.traffic = tx.traffic /\ tx'.blocks = tx.blocks
      /\ SameModels(tx, tx') /\ SameCreds(tx, tx')
  BY <1>1, <1>5, <1>6, <1>7 DEF Databases, SameModels, SameCreds
<1>9. WellTyped(tx')
  BY <1>1, <1>5, <1>7, <1>8 DEF WellTyped, SameModels, SameCreds
<1> QED
  BY <1>8, <1>9 DEF Bind, Shape, B

\* A duplicate goes where its first model is.
LEMMA MergeRAPIDoes ==
  ASSUME Sane, MergeRAPI
  PROVE  /\ phase \in {"dedupe", "dedupe again"}
         /\ UNCHANGED <<db, phase, todo, idOf, before, deleted, faults>>
         /\ \E keep, dup \in DOMAIN tx.rapis :
              /\ keep < dup /\ tx.rapis[keep].platform = tx.rapis[dup].platform
              /\ tx.rapis[keep].model = tx.rapis[dup].model /\ tx.rapis[dup].model # NoModel
              /\ tx' = MergedRAPI(tx, keep, dup)
              /\ report' = [report EXCEPT !.rapis = @ \cup {dup}]
<1>1. tx \in Databases
  BY DEF Sane, Shape
<1>2. DOMAIN tx.rapis \subseteq Nat
  BY <1>1, Fields, RowsOfTable
<1> DEFINE dup == Min(Duplicates(tx))
           S == {r \in DOMAIN tx.rapis : /\ tx.rapis[r].platform = tx.rapis[dup].platform
                                         /\ tx.rapis[r].model = tx.rapis[dup].model}
           keep == Min(S)
<1>3. dup \in Duplicates(tx)
  <2>1. Duplicates(tx) \subseteq Nat /\ Duplicates(tx) # {}
    BY <1>2 DEF Duplicates, MergeRAPI
  <2> QED
    BY <2>1, MinIs
<1>4. tx' = MergedRAPI(tx, keep, dup) /\ report' = [report EXCEPT !.rapis = @ \cup {dup}]
  BY DEF MergeRAPI
<1> HIDE DEF dup
<1>5. PICK q \in DOMAIN tx.rapis : /\ q < dup /\ tx.rapis[q].platform = tx.rapis[dup].platform
                                   /\ tx.rapis[q].model = tx.rapis[dup].model
  BY <1>3 DEF Duplicates
<1>6. dup \in DOMAIN tx.rapis /\ tx.rapis[dup].model # NoModel
  BY <1>3 DEF Duplicates
<1>7. keep \in S /\ keep <= q
  <2>1. q \in S /\ S \subseteq Nat
    BY <1>2, <1>5
  <2> HIDE DEF S
  <2> QED
    BY <2>1, MinIs
<1>8. /\ keep \in DOMAIN tx.rapis /\ tx.rapis[keep].platform = tx.rapis[dup].platform
      /\ tx.rapis[keep].model = tx.rapis[dup].model
  BY <1>7
<1> HIDE DEF S, keep
<1>9. keep < dup
  BY <1>2, <1>5, <1>6, <1>7, <1>8
<1> QED
  BY <1>4, <1>6, <1>8, <1>9 DEF MergeRAPI

\* URLs are written in their normal form: they are told apart as before.
LEMMA NormaliseDoes ==
  ASSUME Sane, Normalise
  PROVE  /\ phase = "platforms" /\ phase' = "merge"
         /\ UNCHANGED <<db, todo, idOf, before, deleted, faults>>
         /\ Shape(tx') /\ SameKeys(tx, tx') /\ SameCreds(tx, tx') /\ SameRefs(tx, tx')
         /\ tx'.rapis = tx.rapis /\ tx'.unique = tx.unique
         /\ DOMAIN tx'.platforms = DOMAIN tx.platforms
         /\ \A p \in DOMAIN tx.platforms : tx'.platforms[p].url = tx.platforms[p].url
         /\ report' = [report EXCEPT !.renormalised =
                         {p \in DOMAIN tx.platforms : tx.platforms[p].raw}]
<1>1. tx \in Databases /\ WellTyped(tx)
  BY DEF Sane, Shape
<1> DEFINE P == [p \in DOMAIN tx.platforms |-> [tx.platforms[p] EXCEPT !.raw = FALSE]]
<1>2. tx.platforms \in Tables(PlatformRows)
  BY <1>1, Fields
<1>3. ASSUME NEW p \in DOMAIN tx.platforms
      PROVE  P[p] \in PlatformRows /\ P[p].url = tx.platforms[p].url
  <2>1. tx.platforms[p] \in PlatformRows
    BY <1>2, RowsOfTable
  <2> QED
    BY <2>1 DEF PlatformRows
<1>4. P = [p \in DOMAIN tx.platforms |-> P[p]] /\ DOMAIN P = DOMAIN tx.platforms
  OBVIOUS
<1>5. tx' = [tx EXCEPT !.platforms = P]
  BY DEF Normalise
<1> HIDE DEF P
<1>6. P \in Tables(PlatformRows)
  BY <1>2, <1>3, <1>4, ChangedRows
<1>7. /\ tx' \in Databases /\ tx'.platforms = P /\ tx'.rapis = tx.rapis /\ tx'.unique = tx.unique
      /\ SameKeys(tx, tx') /\ SameCreds(tx, tx') /\ SameRefs(tx, tx')
  BY <1>1, <1>5, <1>6 DEF Databases, SameKeys, SameCreds, SameRefs
<1>8. WellTyped(tx')
  BY <1>1, <1>7 DEF WellTyped, SameKeys, SameCreds, SameRefs
<1> QED
  BY <1>3, <1>4, <1>7, <1>8 DEF Normalise, Shape

\* A platform goes into the first of its URL, or the start fails.
LEMMA MergePlatformDoes ==
  ASSUME Sane, NEW p \in DOMAIN tx.platforms, MergePlatform(p), NEW keep, keep = Canonical(tx, p),
         NEW merged, merged = MergedPlatform(tx, p, keep)
  PROVE  /\ phase = "merge" /\ keep # p /\ keep \in DOMAIN tx.platforms /\ keep \in Nat
         /\ UNCHANGED <<db, todo, idOf, before, deleted, faults>>
         /\ Shape(merged)
         /\ \/ Allowed(merged) /\ tx' = merged /\ UNCHANGED phase
               /\ report' = [report EXCEPT !.platforms = @ \cup {<<keep, p>>}]
            \/ ~Allowed(merged) /\ phase' = "failed" /\ tx' = db /\ UNCHANGED report
<1>1. tx \in Databases /\ WellTyped(tx)
  BY DEF Sane, Shape
<1>2. keep \in DOMAIN tx.platforms /\ keep \in Nat
  BY <1>1, CanonicalIs
<1>3. /\ phase = "merge" /\ keep # p
      /\ UNCHANGED <<db, todo, idOf, before, deleted, faults>>
      /\ \/ Allowed(merged) /\ tx' = merged /\ UNCHANGED phase
            /\ report' = [report EXCEPT !.platforms = @ \cup {<<keep, p>>}]
         \/ ~Allowed(merged) /\ phase' = "failed" /\ tx' = db /\ UNCHANGED report
  BY DEF MergePlatform, MergedPlatform, To
<1>4. /\ merged \in Databases /\ merged.credTable = tx.credTable /\ merged.seq = tx.seq
      /\ SameKeys(tx, merged) /\ SameRefs(tx, merged) /\ merged.unique = tx.unique
      /\ DOMAIN merged.rapis = DOMAIN tx.rapis /\ DOMAIN merged.creds = DOMAIN tx.creds
  BY <1>1, <1>2, MergedPlatformIs
<1>5. WellTyped(merged)
  BY <1>1, <1>4 DEF WellTyped, SameKeys, SameRefs
<1> QED
  BY <1>2, <1>3, <1>4, <1>5 DEF Shape

\* The transaction is committed, unless what it made is not allowed.
LEMMA RebuildDoes ==
  ASSUME Sane, Rebuild, NEW new, new = Projected(Rebuilt(tx))
  PROVE  /\ phase = "finish" /\ UNCHANGED <<todo, idOf, report, before, deleted, faults>>
         /\ \/ Allowed(Rebuilt(tx)) /\ db' = new /\ tx' = new /\ phase' = "clean"
            \/ ~Allowed(Rebuilt(tx)) /\ phase' = "failed" /\ tx' = db /\ UNCHANGED db
         /\ Shape(new) /\ new.unique = "none" /\ SameKeys(tx, new) /\ SameCreds(tx, new)
         /\ SameRefs(tx, new) /\ new.platforms = tx.platforms
         /\ DOMAIN new.rapis = DOMAIN tx.rapis
         /\ \A r \in DOMAIN tx.rapis :
              /\ new.rapis[r].platform = tx.rapis[r].platform
              /\ new.rapis[r].alias = tx.rapis[r].alias /\ new.rapis[r].model = tx.rapis[r].model
              /\ new.rapis[r].keyIDs = {b[2] : b \in {x \in tx.bound : x[1] = r}}
<1>1. tx \in Databases /\ WellTyped(tx)
  BY DEF Sane, Shape
<1> DEFINE d == Rebuilt(tx)
<1>2. /\ d \in Databases /\ d.unique = "none" /\ d.platforms = tx.platforms
      /\ d.rapis = tx.rapis /\ SameKeys(tx, d) /\ SameCreds(tx, d) /\ SameRefs(tx, d)
  BY <1>1, RebuiltIs
<1>3. new = Projected(d)
  OBVIOUS
<1>4. /\ phase = "finish" /\ UNCHANGED <<todo, idOf, report, before, deleted, faults>>
      /\ \/ Allowed(Rebuilt(tx)) /\ db' = new /\ tx' = new /\ phase' = "clean"
         \/ ~Allowed(Rebuilt(tx)) /\ phase' = "failed" /\ tx' = db /\ UNCHANGED db
  BY DEF Rebuild, Commit
<1> HIDE DEF d
<1>5. /\ new \in Databases /\ new.platforms = d.platforms /\ new.unique = d.unique
      /\ SameKeys(d, new) /\ SameCreds(d, new) /\ SameRefs(d, new)
      /\ DOMAIN new.rapis = DOMAIN d.rapis
      /\ \A r \in DOMAIN d.rapis :
              /\ new.rapis[r].platform = d.rapis[r].platform
              /\ new.rapis[r].alias = d.rapis[r].alias /\ new.rapis[r].model = d.rapis[r].model
              /\ new.rapis[r].keyIDs = {b[2] : b \in {x \in d.bound : x[1] = r}}
  BY <1>2, <1>3, ProjectedIs
<1>6. SameKeys(tx, new) /\ SameCreds(tx, new) /\ SameRefs(tx, new) /\ d.bound = tx.bound
  BY <1>2, <1>5 DEF SameKeys, SameCreds, SameRefs
<1>7. WellTyped(new)
  BY <1>1, <1>2, <1>5, <1>6 DEF WellTyped, SameKeys, SameCreds, SameRefs
<1> QED
  BY <1>2, <1>4, <1>5, <1>6, <1>7 DEF Shape

\* The models whose platform is gone go.
LEMMA CleanUpDoes ==
  ASSUME Sane, CleanUp
  PROVE  /\ phase = "clean" /\ phase' = "up" /\ tx' = db' /\ Shape(db') /\ Natural(db')
         /\ UNCHANGED <<todo, idOf, report, before, deleted, faults>>
         /\ db'.platforms = db.platforms /\ db'.unique = db.unique
         /\ SameKeys(db, db') /\ SameCreds(db, db')
         /\ DOMAIN db'.rapis \subseteq DOMAIN db.rapis
         /\ \A r \in DOMAIN db'.rapis : db'.rapis[r] = db.rapis[r]
         /\ db'.bound = {b \in db.bound : b[1] \in DOMAIN db'.rapis}
<1>1. Shape(db) /\ db' = WithoutOrphans(db) /\ tx' = db' /\ Natural(db)
  BY DEF Sane, CleanUp, Commit
<1>2. /\ Shape(db') /\ db'.platforms = db.platforms /\ db'.unique = db.unique
      /\ SameKeys(db, db') /\ SameCreds(db, db')
      /\ DOMAIN db'.rapis \subseteq DOMAIN db.rapis
      /\ \A r \in DOMAIN db'.rapis : db'.rapis[r] = db.rapis[r]
      /\ db'.bound = {b \in db.bound : b[1] \in DOMAIN db'.rapis}
  BY <1>1, WithoutOrphansIs
<1>3. Natural(db')
  BY <1>1, <1>2 DEF Natural, SameKeys, SameCreds
<1> QED
  BY <1>1, <1>2, <1>3 DEF CleanUp

\* A key is deleted, with its bindings and its blocks.
LEMMA DeleteKeyDoes ==
  ASSUME Sane, NEW c \in DOMAIN db.creds, DeleteKey(c)
  PROVE  /\ phase = "up" /\ phase' = "up" /\ tx' = db' /\ Shape(db') /\ Natural(db')
         /\ UNCHANGED <<todo, idOf, report, before>> /\ faults > 0 /\ faults' = faults - 1
         /\ db'.creds = Without(db.creds, c) /\ DOMAIN db'.creds = DOMAIN db.creds \ {c}
         /\ \A b \in DOMAIN db'.creds : db'.creds[b] = db.creds[b]
         /\ SameKeys(db, db') /\ db'.platforms = db.platforms /\ db'.unique = db.unique
         /\ DOMAIN db'.rapis = DOMAIN db.rapis
         /\ db'.bound = {b \in db.bound : b[2] # c}
         /\ \A r \in DOMAIN db.rapis :
              /\ db'.rapis[r].platform = db.rapis[r].platform
              /\ db'.rapis[r].alias = db.rapis[r].alias /\ db'.rapis[r].model = db.rapis[r].model
              /\ db'.rapis[r].keyIDs = {b[2] : b \in {x \in db'.bound : x[1] = r}}
         /\ deleted' = IF DOMAIN db'.creds = {} THEN {}
                       ELSE deleted \cup ({Token(db, c)} \ {NoToken})
<1>1. db \in Databases /\ WellTyped(db) /\ Natural(db) /\ phase = "up"
  BY DEF Sane, Shape, DeleteKey
<1>2. /\ db.creds \in Tables(CredentialRows) /\ db.bound \subseteq Nat \X Nat
      /\ db.blocks \subseteq Nat \X Nat
  BY <1>1, Fields
<1> DEFINE C == Without(db.creds, c)
           B == {b \in db.bound : b[2] # c}
           L == {b \in db.blocks : b[1] # c}
           d == [db EXCEPT !.creds = C, !.bound = B, !.blocks = L]
<1>3. /\ C \in Tables(CredentialRows) /\ DOMAIN C = DOMAIN db.creds \ {c}
      /\ \A b \in DOMAIN db.creds : b # c => C[b] = db.creds[b]
  <2>1. db.creds \in Tables(CredentialRows)
    BY <1>2
  <2> QED
    BY <2>1, WithoutARow
<1>4. B \in SUBSET (Nat \X Nat) /\ L \in SUBSET (Nat \X Nat) /\ B \subseteq db.bound
  BY <1>2
<1>5. db' = Projected(d) /\ tx' = db'
  BY DEF DeleteKey, Commit
<1>6. deleted' = IF C = <<>> THEN {} ELSE deleted \cup ({Token(db, c)} \ {NoToken})
  BY DEF DeleteKey
<1>7. C = <<>> <=> DOMAIN C = {}
  BY <1>3, EmptyTable
<1> HIDE DEF C, B, L
<1>8. /\ d \in Databases /\ d.creds = C /\ d.bound = B /\ d.credTable = db.credTable
      /\ d.seq = db.seq /\ d.chain = db.chain /\ d.traffic = db.traffic
      /\ SameModels(db, d) /\ SameKeys(db, d)
  BY <1>1, <1>3, <1>4 DEF Databases, SameModels, SameKeys
<1> HIDE DEF d
<1>9. /\ db' \in Databases /\ db'.platforms = d.platforms /\ db'.unique = d.unique
      /\ SameKeys(d, db') /\ SameCreds(d, db') /\ SameRefs(d, db')
      /\ DOMAIN db'.rapis = DOMAIN d.rapis
      /\ \A r \in DOMAIN d.rapis :
              /\ db'.rapis[r].platform = d.rapis[r].platform
              /\ db'.rapis[r].alias = d.rapis[r].alias /\ db'.rapis[r].model = d.rapis[r].model
              /\ db'.rapis[r].keyIDs = {b[2] : b \in {x \in d.bound : x[1] = r}}
  BY <1>5, <1>8, ProjectedIs
<1>10. /\ db'.creds = C /\ db'.bound = B /\ SameKeys(db, db') /\ db'.credTable = db.credTable
       /\ db'.seq = db.seq /\ db'.chain = db.chain /\ db'.traffic = db.traffic /\ d.bound = B
       /\ db'.platforms = db.platforms /\ db'.unique = db.unique /\ d.rapis = db.rapis
       /\ DOMAIN db'.rapis = DOMAIN db.rapis
  BY <1>8, <1>9 DEF SameModels, SameKeys, SameCreds, SameRefs
<1>11. WellTyped(db') /\ Natural(db')
  BY <1>1, <1>3, <1>4, <1>10 DEF WellTyped, Natural, SameKeys
<1>12. /\ phase' = "up" /\ UNCHANGED <<todo, idOf, report, before>>
       /\ faults > 0 /\ faults' = faults - 1
  BY DEF DeleteKey, Disturbed
<1> QED
  BY <1>1, <1>3, <1>5, <1>6, <1>7, <1>9, <1>10, <1>11, <1>12 DEF Shape, C, B

\* An earlier version makes rows of its own, and perhaps a key.
LEMMA DowngradeDoes ==
  ASSUME Sane, NEW t \in AddedTokens \cup {NoToken}, Downgrade(t)
  PROVE  /\ phase = "up" /\ phase' = "off" /\ tx' = db' /\ Shape(db')
         /\ UNCHANGED <<todo, idOf, report, before>> /\ faults > 0 /\ faults' = faults - 1
         /\ SameModels(db, db') /\ SameCreds(db, db') /\ SameRefs(db, db')
         /\ deleted' = (IF t = NoToken THEN deleted ELSE {})
         /\ t = NoToken =>
              \A k \in DOMAIN db'.keys :
                /\ db'.keys[k].kind = "default" /\ db'.keys[k].platform \in DOMAIN db.platforms
                /\ db'.keys[k].token = db.platforms[db'.keys[k].platform].token
<1>1. db \in Databases /\ WellTyped(db) /\ Natural(db) /\ phase = "up"
  BY DEF Sane, Shape, Downgrade
<1> DEFINE d == [db EXCEPT !.keys = <<>>]
           rows == WithDefaults(d)
           new == Max(DOMAIN rows \cup {0}) + 1
           row == [platform |-> Min(DOMAIN db.platforms), token |-> t, kind |-> "more"]
           K == IF t = NoToken THEN rows ELSE With(rows, new, row)
<1>2. <<>> \in Tables(KeyRows) /\ DOMAIN <<>> = {}
  BY NoRows
<1>3. d \in Databases /\ d.keys = <<>> /\ d.platforms = db.platforms
  BY <1>1, <1>2 DEF Databases
<1>4. /\ rows \in Tables(KeyRows)
      /\ \A k \in DOMAIN rows :
              /\ rows[k].kind = "default" /\ rows[k].platform \in DOMAIN db.platforms
              /\ rows[k].token = db.platforms[rows[k].platform].token
  <2> HIDE DEF d
  <2>1. /\ rows \in Tables(KeyRows)
        /\ \A k \in DOMAIN rows : k \notin DOMAIN d.keys =>
              /\ rows[k].kind = "default" /\ rows[k].platform \in DOMAIN d.platforms
              /\ rows[k].token = d.platforms[rows[k].platform].token
    BY <1>3, DefaultsAre
  <2> QED
    BY <1>2, <1>3, <2>1
<1>5. db' = [db EXCEPT !.keyTable = TRUE, !.keys = K] /\ tx' = db'
  BY DEF Downgrade, Commit
<1>6. /\ phase' = "off" /\ UNCHANGED <<todo, idOf, report, before>>
      /\ faults > 0 /\ faults' = faults - 1
      /\ deleted' = (IF t = NoToken THEN deleted ELSE {})
      /\ t # NoToken => DOMAIN db.platforms # {}
  BY DEF Downgrade, Disturbed
<1>7. K \in Tables(KeyRows)
  <2> HIDE DEF rows
  <2>1. CASE t = NoToken
    BY <1>4, <2>1
  <2>2. CASE t # NoToken
    <3>1. new \in Nat
      <4>1. DOMAIN rows \subseteq Nat /\ IsFiniteSet(DOMAIN rows)
        BY <1>4, RowsOfTable
      <4>2. IsFiniteSet(DOMAIN rows \cup {0}) /\ DOMAIN rows \cup {0} \subseteq Nat
            /\ DOMAIN rows \cup {0} # {}
        BY <4>1, FS_AddElement
      <4>3. Max(DOMAIN rows \cup {0}) \in DOMAIN rows \cup {0}
        BY <4>2, MaxIs
      <4> QED
        BY <4>2, <4>3
    <3>2. row \in KeyRows
      <4>1. DOMAIN db.platforms \subseteq Nat
        BY <1>1, Fields, RowsOfTable
      <4>2. Min(DOMAIN db.platforms) \in Nat
        BY <1>6, <2>2, <4>1, MinIs
      <4>3. t \in Secrets \cup {NoToken}
        BY FaultsAssumption
      <4> QED
        BY <4>2, <4>3 DEF KeyRows
    <3>3. rows \in Tables(KeyRows)
      BY <1>4
    <3> HIDE DEF new, row
    <3>4. With(rows, new, row) \in Tables(KeyRows)
      BY <3>1, <3>2, <3>3, WithARow
    <3> QED
      BY <2>2, <3>4
  <2> QED
    BY <2>1, <2>2
<1>8. t = NoToken => K = rows
  OBVIOUS
<1> HIDE DEF K, rows
<1>9. /\ db' \in Databases /\ db'.keys = K /\ db'.keyTable = TRUE
      /\ SameModels(db, db') /\ SameCreds(db, db') /\ SameRefs(db, db')
  BY <1>1, <1>5, <1>7 DEF Databases, SameModels, SameCreds, SameRefs
<1>10. WellTyped(db')
  BY <1>1, <1>9 DEF WellTyped, SameModels, SameCreds, SameRefs
<1> QED
  BY <1>1, <1>4, <1>5, <1>6, <1>8, <1>9, <1>10 DEF Shape

----------------------------------------------------------------------------
(* Types.                                                                  *)

\* A step inside the transaction.
LEMMA InsideSane ==
  ASSUME Sane, phase \in InTx, phase' \in InTx, UNCHANGED <<db, before, faults>>,
         Shape(tx'), tx'.credTable = tx.credTable, todo' \subseteq Nat, idOf' \in Tables(Nat),
         phase' \in KeysGone => ~tx'.keyTable,
         phase' = "move" => todo' \subseteq DOMAIN tx'.keys /\ tx'.keys = db.keys,
         phase' = "remap" => todo' \subseteq DOMAIN idOf'
  PROVE  Sane'
BY DEF Sane, InTx, KeysGone, Phases

\* The transaction fails, or a crash undoes it.
LEMMA UndoneSane ==
  ASSUME Sane, phase' \in {"off", "failed"}, UNCHANGED <<db, todo, idOf>>, tx' = db,
         faults' \in 0..Faults
  PROVE  Sane'
<1>1. phase' \in Phases \ (InTx \cup {"clean", "up"}) /\ phase' # "backfill"
      /\ phase' \notin {"keys", "backfill", "alias", "inspect"}
  BY DEF Phases, InTx
<1>2. todo' \subseteq Nat /\ idOf' \in Tables(Nat)
  BY DEF Sane
<1> QED
  BY <1>1, <1>2, QuietSane

\* The ids that Remap visits are those of rows that have others.
LEMMA KeysMovedSane == Sane /\ KeysMoved => Sane'
<1> SUFFICES ASSUME Sane, KeysMoved PROVE Sane'
  OBVIOUS
<1>1. /\ phase = "move" /\ phase' = "remap" /\ todo' = {k \in DOMAIN idOf : idOf[k] # k}
      /\ UNCHANGED <<db, tx, idOf, report, before, deleted, faults>>
  BY DEF KeysMoved
<1>2. idOf \in Tables(Nat) /\ Shape(tx)
  BY DEF Sane
<1>3. DOMAIN idOf \subseteq Nat
  BY <1>2, RowsOfTable
<1>4. phase \in InTx /\ phase' \in InTx /\ phase' \notin KeysGone /\ phase' # "move"
  BY <1>1 DEF InTx, KeysGone
<1>5. todo' \subseteq Nat /\ todo' \subseteq DOMAIN idOf' /\ idOf' \in Tables(Nat) /\ Shape(tx')
  BY <1>1, <1>2, <1>3
<1> QED
  BY <1>1, <1>4, <1>5, InsideSane

\* The loop remembers which credential a row of platform_keys became.
LEMMA MoveKeyIds ==
  ASSUME Sane, MoveKey, NEW k, k = Min(todo)
  PROVE  \/ \E c \in DOMAIN tx.creds : idOf' = With(idOf, k, c)
         \/ \E id \in Nat : idOf' = With(idOf, k, id)
<1>1. \/ \E c \in DOMAIN tx.creds :
           /\ tx.keys[k].token # NoToken /\ Token(tx, c) = tx.keys[k].token
           /\ \A a \in DOMAIN tx.creds : Token(tx, a) = tx.keys[k].token => c <= a
           /\ tx' = tx /\ idOf' = With(idOf, k, c)
           /\ report' = [report EXCEPT !.keys = @ \cup
                 IF Token(tx, k) = tx.keys[k].token /\ k \in DOMAIN tx.creds
                 THEN {} ELSE {<<c, k>>}]
      \/ \E id \in Nat :
           /\ \A c \in DOMAIN tx.creds :
                tx.keys[k].token # NoToken => Token(tx, c) # tx.keys[k].token
           /\ id \notin DOMAIN tx.creds /\ (k \notin DOMAIN tx.creds => id = k)
           /\ tx'.creds = With(tx.creds, id, [platform |-> tx.keys[k].platform,
                                               token |-> tx.keys[k].token])
           /\ idOf' = With(idOf, k, id)
           /\ report' = [report EXCEPT !.created = @ + 1]
  BY MoveKeyDoes
<1> QED
  BY <1>1

\* A row more in idMap.
LEMMA MoveKeySane == Sane /\ MoveKey => Sane'
<1> SUFFICES ASSUME Sane, MoveKey PROVE Sane'
  OBVIOUS
<1>1. PICK k : k = Min(todo)
  OBVIOUS
<1>2. /\ phase = "move" /\ phase' = "move" /\ UNCHANGED <<db, before, deleted, faults>>
      /\ k \in todo /\ k \in DOMAIN tx.keys /\ todo' = todo \ {k}
      /\ Shape(tx') /\ SameKeys(tx, tx') /\ tx'.credTable = tx.credTable
  BY <1>1, MoveKeyDoes
<1>3. DOMAIN tx.creds \subseteq Nat /\ DOMAIN tx.keys \subseteq Nat
  BY Fields, RowsOfTable DEF Sane, Shape
<1>4. idOf' \in Tables(Nat)
  <2>1. PICK i \in Nat : idOf' = With(idOf, k, i)
    BY <1>1, <1>3, MoveKeyIds
  <2>2. idOf \in Tables(Nat) /\ k \in Nat
    BY <1>2, <1>3 DEF Sane
  <2> QED
    BY <2>1, <2>2, WithARow
<1>5. phase \in InTx /\ phase' \in InTx /\ phase' \notin KeysGone /\ phase' # "remap"
  BY <1>2 DEF InTx, KeysGone
<1>6. todo' \subseteq Nat /\ todo' \subseteq DOMAIN tx'.keys /\ tx'.keys = db.keys
  BY <1>2 DEF Sane, SameKeys
<1> QED
  BY <1>2, <1>4, <1>5, <1>6, InsideSane

\* Every step keeps it.
LEMMA SaneNext == Sane /\ [UpgradeNext]_upgradeVars => Sane'
<1> SUFFICES ASSUME Sane, [UpgradeNext]_upgradeVars PROVE Sane'
  OBVIOUS
<1> USE DEF InTx, KeysGone
<1>0. /\ Shape(db) /\ Shape(tx) /\ phase \in Phases /\ faults \in 0..Faults /\ Faults \in Nat
      /\ todo \subseteq Nat /\ idOf \in Tables(Nat)
  BY FaultsAssumption DEF Sane
<1>1. CASE Start
  BY <1>1, StartSane
<1>2. CASE CreateKeyTable
  <2>1. /\ phase = "keys" /\ UNCHANGED <<todo, idOf, before, faults>> /\ tx' = db' /\ Shape(db')
        /\ \/ phase' = "alias"
           \/ phase' = "backfill" /\ db'.keyTable = TRUE
    BY <1>2, CreateKeyTableDoes
  <2>2. before = NoDb
    BY <2>1 DEF Sane
  <2>3. phase' \in Phases \ InTx /\ phase' \notin {"clean", "up"}
        /\ (phase' = "backfill" => db'.keyTable)
    BY <2>1 DEF Phases
  <2> QED
    BY <1>0, <2>1, <2>2, <2>3, CommittedSane
<1>3. CASE Backfill
  <2>1. /\ phase = "backfill" /\ UNCHANGED <<todo, idOf, before, faults>> /\ tx' = db'
        /\ Shape(db') /\ phase' = "alias"
    BY <1>3, BackfillDoes
  <2>2. before = NoDb
    BY <2>1 DEF Sane
  <2>3. phase' \in Phases \ InTx /\ phase' \notin {"clean", "up"} /\ phase' # "backfill"
    BY <2>1 DEF Phases
  <2> QED
    BY <1>0, <2>1, <2>2, <2>3, CommittedSane
<1>4. CASE PerPlatformAlias
  <2>1. /\ phase = "alias" /\ UNCHANGED <<todo, idOf, before, faults>> /\ tx' = db'
        /\ Shape(db') /\ phase' = "inspect"
    BY <1>4, PerPlatformAliasDoes
  <2>2. before = NoDb
    BY <2>1 DEF Sane
  <2>3. phase' \in Phases \ InTx /\ phase' \notin {"clean", "up"} /\ phase' # "backfill"
    BY <2>1 DEF Phases
  <2> QED
    BY <1>0, <2>1, <2>2, <2>3, CommittedSane
<1>5. CASE Inspect
  <2>1. /\ phase = "inspect" /\ UNCHANGED <<db, idOf, faults>>
         /\ \/ Natural(db) /\ phase' = "clean" /\ UNCHANGED <<tx, todo, before>>
            \/ /\ before' = db /\ Shape(tx') /\ tx'.credTable
               /\ \/ phase' = "move" /\ todo' = DOMAIN db.keys /\ SameKeys(db, tx')
                  \/ phase' = "dedupe" /\ UNCHANGED todo /\ tx'.keyTable = FALSE
    BY <1>5, InspectDoes
  <2>2. CASE Natural(db) /\ phase' = "clean" /\ UNCHANGED <<tx, todo, before>>
    <3>1. tx = db
      BY <2>1 DEF Sane
    <3>2. phase' \in Phases \ InTx /\ phase' \notin {"keys", "backfill", "alias", "inspect"}
          /\ phase' # "backfill" /\ Natural(db')
      BY <2>1, <2>2 DEF Phases
    <3>3. Shape(db') /\ tx' = db'
      BY <1>0, <2>1, <2>2, <3>1
    <3>4. Natural(db)'
      BY <2>1, <2>2
    <3> QED
      BY <1>0, <2>1, <2>2, <3>2, <3>3, <3>4, CommittedSane
  <2>3. CASE before' = db /\ Shape(tx') /\ tx'.credTable /\ phase' = "move" /\ todo' = DOMAIN db.keys
             /\ SameKeys(db, tx')
    <3>1. DOMAIN db.keys \subseteq Nat
      BY <1>0, Fields, RowsOfTable DEF Shape
    <3> QED
      BY <1>0, <2>1, <2>3, <3>1 DEF Sane, SameKeys, Phases
  <2>4. CASE before' = db /\ Shape(tx') /\ tx'.credTable /\ phase' = "dedupe" /\ UNCHANGED todo
             /\ tx'.keyTable = FALSE
    BY <1>0, <2>1, <2>4 DEF Sane, Phases
  <2> QED
    BY <2>1, <2>2, <2>3, <2>4
<1>6. CASE MoveKey
  BY <1>6, MoveKeySane
<1>7. CASE KeysMoved
  BY <1>7, KeysMovedSane
<1>8. ASSUME NEW k \in todo, Remap(k) PROVE Sane'
  <2>1. /\ phase = "remap" /\ todo' = todo \ {k} /\ UNCHANGED <<db, phase, idOf, before, faults>>
        /\ Shape(tx') /\ SameCreds(tx, tx')
    BY <1>8, RemapDoes
  <2>2. todo \subseteq DOMAIN idOf
    BY <2>1 DEF Sane
  <2> QED
    BY <1>0, <2>1, <2>2, InsideSane DEF SameCreds
<1>9. CASE Bind
  <2>1. /\ phase = "remap" /\ phase' = "dedupe" /\ UNCHANGED <<db, todo, idOf, before, faults>>
        /\ Shape(tx') /\ SameCreds(tx, tx') /\ tx'.keyTable = FALSE
    BY <1>9, BindDoes
  <2> QED
    BY <1>0, <2>1, InsideSane DEF SameCreds
<1>10. CASE MergeRAPI
  <2>1. /\ phase \in {"dedupe", "dedupe again"}
        /\ UNCHANGED <<db, phase, todo, idOf, before, faults>>
    BY <1>10, MergeRAPIDoes
  <2>2. PICK keep \in DOMAIN tx.rapis, dup \in DOMAIN tx.rapis :
             keep < dup /\ tx' = MergedRAPI(tx, keep, dup)
    BY <1>10, MergeRAPIDoes
  <2>3. keep # dup
    <3>1. DOMAIN tx.rapis \subseteq Nat
      BY <1>0, Fields, RowsOfTable DEF Shape
    <3> QED
      BY <2>2, <3>1
  <2>4. Shape(tx') /\ SameKeys(tx, tx') /\ SameCreds(tx, tx')
    BY <1>0, <2>2, <2>3, MergedRAPIIs
  <2>5. ~tx.keyTable
    BY <2>1 DEF Sane
  <2> QED
    BY <1>0, <2>1, <2>4, <2>5, InsideSane DEF SameCreds, SameKeys
<1>11. CASE RAPIsMerged
  <2>1. /\ phase \in {"dedupe", "dedupe again"} /\ phase' \in {"platforms", "finish"}
        /\ UNCHANGED <<db, tx, todo, idOf, before, faults>>
    BY <1>11 DEF RAPIsMerged
  <2>2. ~tx.keyTable
    BY <2>1 DEF Sane
  <2> QED
    BY <1>0, <2>1, <2>2, InsideSane
<1>12. CASE Normalise
  <2>1. /\ phase = "platforms" /\ phase' = "merge" /\ UNCHANGED <<db, todo, idOf, before, faults>>
        /\ Shape(tx') /\ SameKeys(tx, tx') /\ SameCreds(tx, tx')
    BY <1>12, NormaliseDoes
  <2>2. ~tx.keyTable
    BY <2>1 DEF Sane
  <2> QED
    BY <1>0, <2>1, <2>2, InsideSane DEF SameCreds, SameKeys
<1>13. ASSUME NEW p \in DOMAIN tx.platforms, MergePlatform(p) PROVE Sane'
  <2> DEFINE keep == Canonical(tx, p)
             merged == MergedPlatform(tx, p, keep)
  <2>1. /\ phase = "merge" /\ keep \in Nat /\ UNCHANGED <<db, todo, idOf, before, faults>>
        /\ Shape(merged)
        /\ \/ tx' = merged /\ UNCHANGED phase
           \/ phase' = "failed" /\ tx' = db
    BY <1>13, MergePlatformDoes
  <2>2. SameKeys(tx, merged) /\ merged.credTable = tx.credTable
    <3>1. tx \in Databases /\ keep \in Nat
      BY <1>0, <2>1 DEF Shape
    <3> HIDE DEF keep
    <3> QED
      BY <3>1, MergedPlatformIs
  <2>3. ~tx.keyTable
    BY <2>1 DEF Sane
  <2> HIDE DEF merged, keep
  <2>4. CASE tx' = merged /\ UNCHANGED phase
    BY <1>0, <2>1, <2>2, <2>3, <2>4, InsideSane DEF SameKeys
  <2>5. CASE phase' = "failed" /\ tx' = db
    BY <1>0, <2>1, <2>5, UndoneSane
  <2> QED
    BY <2>1, <2>4, <2>5
<1>14. CASE PlatformsMerged
  <2>1. /\ phase = "merge" /\ phase' = "dedupe again"
        /\ UNCHANGED <<db, tx, todo, idOf, before, faults>>
    BY <1>14 DEF PlatformsMerged
  <2>2. ~tx.keyTable
    BY <2>1 DEF Sane
  <2> QED
    BY <1>0, <2>1, <2>2, InsideSane
<1>15. CASE Rebuild
  <2> DEFINE new == Projected(Rebuilt(tx))
  <2>1. /\ phase = "finish" /\ UNCHANGED <<todo, idOf, before, faults>>
        /\ \/ db' = new /\ tx' = new /\ phase' = "clean"
           \/ phase' = "failed" /\ tx' = db /\ UNCHANGED db
        /\ Shape(new) /\ new.unique = "none" /\ SameKeys(tx, new) /\ SameCreds(tx, new)
    BY <1>15, RebuildDoes
  <2> HIDE DEF new
  <2>2. CASE db' = new /\ tx' = new /\ phase' = "clean"
    <3>1. tx.credTable /\ ~tx.keyTable
      BY <2>1 DEF Sane
    <3>2. Natural(db)' /\ Shape(db')
      BY <2>1, <2>2, <3>1 DEF Natural, SameKeys, SameCreds
    <3>3. phase' \in Phases \ InTx /\ phase' \notin {"keys", "backfill", "alias", "inspect"}
          /\ phase' # "backfill" /\ tx' = db'
      BY <2>1, <2>2 DEF Phases
    <3> QED
      BY <1>0, <2>1, <3>2, <3>3, CommittedSane
  <2>3. CASE phase' = "failed" /\ tx' = db /\ UNCHANGED db
    BY <1>0, <2>1, <2>3, UndoneSane
  <2> QED
    BY <2>1, <2>2, <2>3
<1>16. CASE CleanUp
  <2>1. /\ phase' = "up" /\ tx' = db' /\ Shape(db') /\ Natural(db')
        /\ UNCHANGED <<todo, idOf, before, faults>>
    BY <1>16, CleanUpDoes
  <2>2. phase' \in Phases \ InTx /\ phase' \notin {"keys", "backfill", "alias", "inspect"}
        /\ phase' # "backfill" /\ Natural(db)'
    BY <2>1 DEF Phases
  <2> QED
    BY <1>0, <2>1, <2>2, CommittedSane
<1>17. CASE Crash
  <2>1. /\ phase' = "off" /\ faults > 0 /\ faults' = faults - 1 /\ tx' = db
        /\ UNCHANGED <<db, todo, idOf>>
    BY <1>17 DEF Crash, Disturbed
  <2> QED
    BY <1>0, <2>1, UndoneSane
<1>18. ASSUME NEW c \in DOMAIN db.creds, DeleteKey(c) PROVE Sane'
  <2>1. /\ phase' = "up" /\ tx' = db' /\ Shape(db') /\ Natural(db')
        /\ UNCHANGED <<todo, idOf, before>> /\ faults > 0 /\ faults' = faults - 1
    BY <1>18, DeleteKeyDoes
  <2>2. phase' \in Phases \ InTx /\ phase' \notin {"keys", "backfill", "alias", "inspect"}
        /\ phase' # "backfill" /\ Natural(db)'
    BY <2>1 DEF Phases
  <2>3. faults' \in 0..Faults
    BY <1>0, <2>1
  <2> QED
    BY <1>0, <2>1, <2>2, <2>3, CommittedSane
<1>19. ASSUME NEW t \in AddedTokens \cup {NoToken}, Downgrade(t) PROVE Sane'
  <2>1. /\ phase' = "off" /\ tx' = db' /\ Shape(db')
        /\ UNCHANGED <<todo, idOf, before>> /\ faults > 0 /\ faults' = faults - 1
    BY <1>19, DowngradeDoes
  <2>2. phase' \in Phases \ InTx /\ phase' \notin {"clean", "up"} /\ phase' # "backfill"
        /\ phase' \notin {"keys", "backfill", "alias", "inspect"}
    BY <2>1 DEF Phases
  <2>3. faults' \in 0..Faults
    BY <1>0, <2>1
  <2> QED
    BY <1>0, <2>1, <2>2, <2>3, CommittedSane
<1>20. CASE UNCHANGED upgradeVars
  BY <1>20 DEF upgradeVars, Sane
<1> QED
  BY <1>1, <1>2, <1>3, <1>4, <1>5, <1>6, <1>7, <1>8, <1>9, <1>10, <1>11, <1>12, <1>13, <1>14,
     <1>15, <1>16, <1>17, <1>18, <1>19, <1>20 DEF UpgradeNext

\* It holds always.
LEMMA SaneAlways == UpgradeSpec => []Sane
<1>1. UpgradeInit => Sane
  BY SaneInit
<1> QED
  BY <1>1, SaneNext, PTL DEF UpgradeSpec

\* The tables stay well formed, inside the transaction too.
THEOREM UpgradeTypesHold == UpgradeSpec => []UpgradeTypeOK
<1>1. Sane => UpgradeTypeOK
  BY DEF Sane, Shape, UpgradeTypeOK
<1> QED
  BY <1>1, SaneAlways, PTL

----------------------------------------------------------------------------
(* A key that was deleted stays deleted.                                   *)

\* No two credentials have one token.
OneTokenEach(d) ==
  \A b, c \in DOMAIN d.creds : Token(d, b) = Token(d, c) /\ Token(d, b) # NoToken => b = c

\* The credentials have the tokens they had.
SameTokens(d, e) ==
  DOMAIN e.creds = DOMAIN d.creds /\ \A c \in DOMAIN d.creds : Token(e, c) = Token(d, c)

\* All rows of platform_keys were made from platform.token.
DefaultsOnly(d) ==
  \A k \in DOMAIN d.keys :
    /\ d.keys[k].kind = "default" /\ d.keys[k].platform \in DOMAIN d.platforms
    /\ d.keys[k].token = d.platforms[d.keys[k].platform].token

\* There are credentials, and none has a deleted token.
Gone(d) == DOMAIN d.creds # {} /\ \A c \in DOMAIN d.creds : Token(d, c) \notin deleted

\* The second part: while a deleted token is remembered, there are credentials, none of them with
\* it, and the rows of platform_keys are such as the migration discards.
Deleted ==
  /\ OneTokenEach(db) /\ OneTokenEach(tx) /\ NoToken \notin deleted
  /\ deleted # {} =>
       /\ Gone(db) /\ Gone(tx) /\ DefaultsOnly(db)
       /\ phase = "move" => todo = {}
       /\ phase # "backfill"

\* Tokens that stay are as different as they were, and as little deleted.
LEMMA TokensStay ==
  ASSUME NEW d, NEW e, SameTokens(d, e)
  PROVE  (OneTokenEach(d) => OneTokenEach(e)) /\ (Gone(d) => Gone(e))
BY DEF SameTokens, OneTokenEach, Gone

\* Credentials that stay keep their tokens.
LEMMA CredsStay ==
  ASSUME NEW d, NEW e, e.creds = d.creds
  PROVE  SameTokens(d, e)
BY DEF SameTokens, Token

\* A step that commits, and deletes nothing.
LEMMA DeletedOutside ==
  ASSUME Sane, Deleted, SameTokens(db, db') \/ SameTokens(tx, db'), tx' = db', UNCHANGED deleted,
         deleted # {} /\ DefaultsOnly(db) => DefaultsOnly(db')
           /\ phase' # "move" /\ phase' # "backfill"
  PROVE  Deleted'
<1>1. OneTokenEach(db) /\ OneTokenEach(tx)
  BY DEF Deleted
<1>2. OneTokenEach(db') /\ ((Gone(db) /\ Gone(tx)) => Gone(db'))
  BY <1>1, TokensStay
<1>3. OneTokenEach(db)' /\ OneTokenEach(tx)'
  BY <1>2 DEF OneTokenEach, Token
<1>4. DefaultsOnly(db') => DefaultsOnly(db)'
  BY DEF DefaultsOnly
<1>5. Gone(db') => Gone(db)' /\ Gone(tx)'
  BY DEF Gone, Token
<1> QED
  BY <1>2, <1>3, <1>4, <1>5 DEF Deleted

\* A step of the transaction that makes no credential.
LEMMA DeletedInside ==
  ASSUME Deleted, SameTokens(tx, tx') \/ SameTokens(db, tx'), UNCHANGED <<db, deleted>>,
         deleted # {} /\ DefaultsOnly(db) /\ phase' = "move" => todo' = {}, phase' # "backfill"
  PROVE  Deleted'
<1>1. OneTokenEach(db) /\ OneTokenEach(tx)
  BY DEF Deleted
<1>2. OneTokenEach(tx') /\ ((Gone(db) /\ Gone(tx)) => Gone(tx'))
  BY <1>1, TokensStay
<1>3. OneTokenEach(tx)' /\ OneTokenEach(db)'
  BY <1>1, <1>2 DEF OneTokenEach, Token
<1>4. (Gone(tx') => Gone(tx)') /\ (Gone(db) => Gone(db)')
  BY DEF Gone, Token
<1>5. DefaultsOnly(db) => DefaultsOnly(db)'
  BY DEF DefaultsOnly
<1> QED
  BY <1>2, <1>3, <1>4, <1>5 DEF Deleted

\* A key becomes a credential when no other has its token.
LEMMA MoveKeyDeleted == Sane /\ Deleted /\ MoveKey => Deleted'
<1> SUFFICES ASSUME Sane, Deleted, MoveKey PROVE Deleted'
  OBVIOUS
<1> DEFINE k == Min(todo)
           row == [platform |-> tx.keys[k].platform, token |-> tx.keys[k].token]
<1>1. /\ phase = "move" /\ phase' = "move" /\ UNCHANGED <<db, before, deleted, faults>> /\ k \in todo
      /\ \/ tx' = tx
         \/ \E id \in Nat :
                 /\ \A c \in DOMAIN tx.creds :
                      tx.keys[k].token # NoToken => Token(tx, c) # tx.keys[k].token
                 /\ id \notin DOMAIN tx.creds
                 /\ tx'.creds = With(tx.creds, id, row)
  BY MoveKeyDoes
<1>2. deleted = {} /\ deleted' = {} /\ OneTokenEach(db) /\ OneTokenEach(tx)
  BY <1>1 DEF Deleted
<1>3. OneTokenEach(tx')
  <2>1. CASE tx' = tx
    BY <1>2, <2>1
  <2>2. ASSUME NEW id \in Nat,
                 \A c \in DOMAIN tx.creds :
                      tx.keys[k].token # NoToken => Token(tx, c) # tx.keys[k].token,
                 id \notin DOMAIN tx.creds, tx'.creds = With(tx.creds, id, row)
        PROVE  OneTokenEach(tx')
    <3>1. row.token = tx.keys[k].token
      OBVIOUS
    <3> HIDE DEF k, row
    <3>2. /\ DOMAIN tx'.creds = DOMAIN tx.creds \cup {id} /\ tx'.creds[id] = row
          /\ \A c \in DOMAIN tx.creds : tx'.creds[c] = tx.creds[c]
      BY <2>2 DEF With
    <3> QED
      BY <1>2, <2>2, <3>1, <3>2 DEF OneTokenEach, Token
  <2> QED
    BY <1>1, <2>1, <2>2
<1>4. OneTokenEach(tx)' /\ OneTokenEach(db)'
  BY <1>1, <1>2, <1>3 DEF OneTokenEach, Token
<1> QED
  BY <1>2, <1>4 DEF Deleted

\* A deleted key goes, and no other has its token.
LEMMA DeleteKeyDeleted ==
  ASSUME Sane, Deleted, NEW c \in DOMAIN db.creds, DeleteKey(c)
  PROVE  Deleted'
<1>1. /\ phase = "up" /\ phase' = "up" /\ tx' = db' /\ DOMAIN db'.creds = DOMAIN db.creds \ {c}
      /\ \A b \in DOMAIN db'.creds : db'.creds[b] = db.creds[b]
      /\ SameKeys(db, db') /\ db'.platforms = db.platforms
      /\ deleted' = IF DOMAIN db'.creds = {} THEN {}
                    ELSE deleted \cup ({Token(db, c)} \ {NoToken})
  BY DeleteKeyDoes
<1>2. OneTokenEach(db) /\ NoToken \notin deleted
  BY DEF Deleted
<1>3. OneTokenEach(db') /\ OneTokenEach(db)' /\ OneTokenEach(tx)' /\ NoToken \notin deleted'
  BY <1>1, <1>2 DEF OneTokenEach, Token
<1>4. CASE DOMAIN db'.creds = {}
  BY <1>1, <1>3, <1>4 DEF Deleted
<1>5. CASE DOMAIN db'.creds # {}
  <2>1. \A b \in DOMAIN db'.creds : Token(db, b) \notin deleted
    BY <1>1 DEF Deleted, Gone
  <2>2. \A b \in DOMAIN db'.creds : Token(db', b) = Token(db, b)
    BY <1>1 DEF Token
  <2>3. \A b \in DOMAIN db'.creds : Token(db', b) \notin deleted'
    BY <1>1, <1>2, <1>5, <2>1, <2>2 DEF OneTokenEach
  <2>4. Gone(db)' /\ Gone(tx)'
    BY <1>1, <1>5, <2>3 DEF Gone, Token
  <2>5. DefaultsOnly(db)'
    <3>1. Natural(db) /\ WellTyped(db)
      BY <1>1 DEF Sane, Shape
    <3>2. DOMAIN db'.keys = {}
      BY <1>1, <3>1 DEF Natural, WellTyped, SameKeys
    <3> QED
      BY <3>2 DEF DefaultsOnly
  <2> QED
    BY <1>1, <1>3, <2>4, <2>5 DEF Deleted
<1> QED
  BY <1>4, <1>5

\* An earlier version brings back no token that is deleted, but forgets it.
LEMMA DowngradeDeleted ==
  ASSUME Sane, Deleted, NEW t \in AddedTokens \cup {NoToken}, Downgrade(t)
  PROVE  Deleted'
<1>1. /\ phase' = "off" /\ tx' = db' /\ SameModels(db, db') /\ SameCreds(db, db')
      /\ deleted' = (IF t = NoToken THEN deleted ELSE {})
      /\ t = NoToken =>
              \A k \in DOMAIN db'.keys :
                /\ db'.keys[k].kind = "default" /\ db'.keys[k].platform \in DOMAIN db.platforms
                /\ db'.keys[k].token = db.platforms[db'.keys[k].platform].token
  BY DowngradeDoes
<1>2. SameTokens(db, db')
  BY <1>1, CredsStay DEF SameCreds
<1>3. CASE t = NoToken
  <2>1. DefaultsOnly(db')
    BY <1>1, <1>3 DEF DefaultsOnly, SameModels
  <2> QED
    BY <1>1, <1>2, <1>3, <2>1, DeletedOutside
<1>4. CASE t # NoToken
  <2>1. OneTokenEach(db') /\ OneTokenEach(db)
    BY <1>2, TokensStay DEF Deleted
  <2>2. OneTokenEach(db)' /\ OneTokenEach(tx)'
    BY <1>1, <2>1 DEF OneTokenEach, Token
  <2> QED
    BY <1>1, <1>4, <2>2 DEF Deleted
<1> QED
  BY <1>3, <1>4

\* Every step keeps it.
LEMMA DeletedNext == Sane /\ Deleted /\ [UpgradeNext]_upgradeVars => Deleted'
<1> SUFFICES ASSUME Sane, Deleted, [UpgradeNext]_upgradeVars PROVE Deleted'
  OBVIOUS
<1>0. Shape(db) /\ Shape(tx)
  BY DEF Sane
<1>1. CASE Start
  <2>1. UNCHANGED <<db, tx, deleted>> /\ phase' = "keys"
    BY <1>1 DEF Start
  <2>2. SameTokens(tx, tx')
    BY <2>1, CredsStay
  <2> QED
    BY <2>1, <2>2, DeletedInside
<1>2. CASE CreateKeyTable
  <2>1. /\ tx' = db' /\ UNCHANGED deleted
        /\ \/ DOMAIN db.creds # {} /\ phase' = "alias" /\ db' = db
           \/ /\ ~db.credTable \/ DOMAIN db.creds = {}
              /\ phase' = "backfill" /\ db'.keys = db.keys /\ SameModels(db, db')
              /\ SameCreds(db, db')
    BY <1>2, CreateKeyTableDoes
  <2>2. SameTokens(db, db') /\ DefaultsOnly(db) => DefaultsOnly(db')
    BY <2>1, CredsStay DEF SameCreds, DefaultsOnly, SameModels
  <2>3. deleted # {} => db.credTable /\ DOMAIN db.creds # {}
    BY <1>0 DEF Deleted, Gone, Shape, WellTyped
  <2>4. SameTokens(db, db')
    BY <2>1, CredsStay DEF SameCreds
  <2> QED
    BY <2>1, <2>2, <2>3, <2>4, DeletedOutside
<1>3. CASE Backfill
  <2>1. phase = "backfill" /\ phase' = "alias" /\ tx' = db' /\ UNCHANGED deleted /\ SameCreds(db, db')
    BY <1>3, BackfillDoes
  <2>2. deleted = {}
    BY <2>1 DEF Deleted
  <2>3. SameTokens(db, db')
    BY <2>1, CredsStay DEF SameCreds
  <2> QED
    BY <2>1, <2>2, <2>3, DeletedOutside
<1>4. CASE PerPlatformAlias
  <2>1. /\ phase' = "inspect" /\ tx' = db' /\ UNCHANGED deleted /\ SameKeys(db, db')
        /\ SameCreds(db, db') /\ db'.platforms = db.platforms
    BY <1>4, PerPlatformAliasDoes
  <2>2. DefaultsOnly(db) => DefaultsOnly(db')
    BY <2>1 DEF SameKeys, DefaultsOnly
  <2>3. SameTokens(db, db')
    BY <2>1, CredsStay DEF SameCreds
  <2> QED
    BY <2>1, <2>2, <2>3, DeletedOutside
<1>5. CASE Inspect
  <2>1. /\ phase = "inspect" /\ UNCHANGED <<db, deleted>>
        /\ \/ phase' = "clean" /\ UNCHANGED tx
           \/ /\ tx'.creds = db.creds
              /\ \/ db.keyTable /\ ~Residue(db) /\ phase' = "move" /\ todo' = DOMAIN db.keys
                 \/ phase' = "dedupe"
    BY <1>5, InspectDoes
  <2>2. SameTokens(tx, tx') \/ SameTokens(db, tx')
    BY <2>1, CredsStay
  <2>3. ASSUME deleted # {}, DefaultsOnly(db), phase' = "move" PROVE todo' = {}
    <3>1. db.keyTable /\ ~Residue(db) /\ todo' = DOMAIN db.keys
      BY <2>1, <2>3
    <3>2. DOMAIN db.creds # {}
      BY <2>3 DEF Deleted, Gone
    <3>3. db.keys \in Tables(KeyRows)
      BY <1>0, Fields DEF Shape
    <3>4. db.creds # <<>>
      BY <3>2, NoRows
    <3>5. db.keys = <<>>
      BY <2>3, <3>1, <3>4 DEF Residue, DefaultsOnly
    <3> QED
      BY <3>1, <3>5, NoRows
  <2> QED
    BY <2>1, <2>2, <2>3, DeletedInside
<1>6. CASE MoveKey
  BY <1>6, MoveKeyDeleted
<1>7. CASE KeysMoved
  <2>1. UNCHANGED <<db, tx, deleted>> /\ phase' = "remap"
    BY <1>7 DEF KeysMoved
  <2>2. SameTokens(tx, tx')
    BY <2>1, CredsStay
  <2> QED
    BY <2>1, <2>2, DeletedInside
<1>8. ASSUME NEW k \in todo, Remap(k) PROVE Deleted'
  <2>1. UNCHANGED <<db, deleted, phase>> /\ phase = "remap" /\ SameCreds(tx, tx')
    BY <1>8, RemapDoes
  <2>2. SameTokens(tx, tx')
    BY <2>1, CredsStay DEF SameCreds
  <2> QED
    BY <2>1, <2>2, DeletedInside
<1>9. CASE Bind
  <2>1. UNCHANGED <<db, deleted>> /\ phase' = "dedupe" /\ SameCreds(tx, tx')
    BY <1>9, BindDoes
  <2>2. SameTokens(tx, tx')
    BY <2>1, CredsStay DEF SameCreds
  <2> QED
    BY <2>1, <2>2, DeletedInside
<1>10. CASE MergeRAPI
  <2>1. phase \in {"dedupe", "dedupe again"} /\ UNCHANGED <<db, phase, deleted>>
    BY <1>10, MergeRAPIDoes
  <2>2. PICK keep \in DOMAIN tx.rapis, dup \in DOMAIN tx.rapis :
             keep < dup /\ tx' = MergedRAPI(tx, keep, dup)
    BY <1>10, MergeRAPIDoes
  <2>3. tx'.creds = tx.creds
    BY <2>2 DEF MergedRAPI
  <2>4. SameTokens(tx, tx')
    BY <2>3, CredsStay
  <2> QED
    BY <2>1, <2>4, DeletedInside
<1>11. CASE RAPIsMerged
  <2>1. UNCHANGED <<db, tx, deleted>> /\ phase' \in {"platforms", "finish"}
    BY <1>11 DEF RAPIsMerged
  <2>2. SameTokens(tx, tx')
    BY <2>1, CredsStay
  <2> QED
    BY <2>1, <2>2, DeletedInside
<1>12. CASE Normalise
  <2>1. UNCHANGED <<db, deleted>> /\ phase' = "merge" /\ SameCreds(tx, tx')
    BY <1>12, NormaliseDoes
  <2>2. SameTokens(tx, tx')
    BY <2>1, CredsStay DEF SameCreds
  <2> QED
    BY <2>1, <2>2, DeletedInside
<1>13. ASSUME NEW p \in DOMAIN tx.platforms, MergePlatform(p) PROVE Deleted'
  <2> DEFINE keep == Canonical(tx, p)
             merged == MergedPlatform(tx, p, keep)
  <2>1. /\ phase = "merge" /\ keep \in Nat /\ UNCHANGED <<db, deleted>>
        /\ \/ tx' = merged /\ UNCHANGED phase
           \/ phase' = "failed" /\ tx' = db
    BY <1>13, MergePlatformDoes
  <2>2. SameTokens(tx, merged)
    <3>1. tx \in Databases /\ keep \in Nat
      BY <1>0, <2>1 DEF Shape
    <3> HIDE DEF keep
    <3>2. DOMAIN merged.creds = DOMAIN tx.creds
          /\ \A c \in DOMAIN tx.creds : Token(merged, c) = Token(tx, c)
      BY <3>1, MergedPlatformIs
    <3> QED
      BY <3>2 DEF SameTokens
  <2> HIDE DEF merged, keep
  <2>3. SameTokens(db, db)
    BY CredsStay
  <2>4. SameTokens(tx, tx') \/ SameTokens(db, tx')
    BY <2>1, <2>2, <2>3
  <2>5. phase' \notin {"move", "backfill"}
    BY <2>1
  <2> QED
    BY <2>1, <2>4, <2>5, DeletedInside
<1>14. CASE PlatformsMerged
  <2>1. UNCHANGED <<db, tx, deleted>> /\ phase' = "dedupe again"
    BY <1>14 DEF PlatformsMerged
  <2>2. SameTokens(tx, tx')
    BY <2>1, CredsStay
  <2> QED
    BY <2>1, <2>2, DeletedInside
<1>15. CASE Rebuild
  <2> DEFINE new == Projected(Rebuilt(tx))
  <2>1. /\ phase = "finish" /\ UNCHANGED deleted
        /\ \/ db' = new /\ tx' = new /\ phase' = "clean"
           \/ phase' = "failed" /\ tx' = db /\ UNCHANGED db
        /\ SameKeys(tx, new) /\ SameCreds(tx, new)
    BY <1>15, RebuildDoes
  <2> HIDE DEF new
  <2>2. CASE db' = new /\ tx' = new /\ phase' = "clean"
    <3>1. ~tx.keyTable /\ WellTyped(tx)
      BY <2>1 DEF Sane, KeysGone, Shape
    <3>2. DOMAIN db'.keys = {}
      BY <2>1, <2>2, <3>1 DEF WellTyped, SameKeys
    <3>3. DefaultsOnly(db')
      BY <3>2 DEF DefaultsOnly
    <3>4. SameTokens(tx, db')
      BY <2>1, <2>2, CredsStay DEF SameCreds
    <3> QED
      BY <2>1, <2>2, <3>3, <3>4, DeletedOutside
  <2>3. CASE phase' = "failed" /\ tx' = db /\ UNCHANGED db
    <3>1. SameTokens(db, tx')
      BY <2>3, CredsStay
    <3> QED
      BY <2>1, <2>3, <3>1, DeletedInside
  <2> QED
    BY <2>1, <2>2, <2>3
<1>16. CASE CleanUp
  <2>1. /\ phase' = "up" /\ tx' = db' /\ UNCHANGED deleted /\ SameKeys(db, db')
        /\ SameCreds(db, db') /\ db'.platforms = db.platforms
    BY <1>16, CleanUpDoes
  <2>2. DefaultsOnly(db) => DefaultsOnly(db')
    BY <2>1 DEF SameKeys, DefaultsOnly
  <2>3. SameTokens(db, db')
    BY <2>1, CredsStay DEF SameCreds
  <2> QED
    BY <2>1, <2>2, <2>3, DeletedOutside
<1>17. CASE Crash
  <2>1. phase' = "off" /\ tx' = db /\ UNCHANGED <<db, deleted>>
    BY <1>17 DEF Crash
  <2>2. SameTokens(db, tx')
    BY <2>1, CredsStay
  <2> QED
    BY <2>1, <2>2, DeletedInside
<1>18. ASSUME NEW c \in DOMAIN db.creds, DeleteKey(c) PROVE Deleted'
  BY <1>18, DeleteKeyDeleted
<1>19. ASSUME NEW t \in AddedTokens \cup {NoToken}, Downgrade(t) PROVE Deleted'
  BY <1>19, DowngradeDeleted
<1>20. CASE UNCHANGED upgradeVars
  BY <1>20 DEF upgradeVars, Deleted, OneTokenEach, Gone, DefaultsOnly, Token
<1> QED
  BY <1>1, <1>2, <1>3, <1>4, <1>5, <1>6, <1>7, <1>8, <1>9, <1>10, <1>11, <1>12, <1>13, <1>14,
     <1>15, <1>16, <1>17, <1>18, <1>19, <1>20 DEF UpgradeNext

\* Initially.
LEMMA DeletedInit == UpgradeInit => Deleted
<1> SUFFICES ASSUME UpgradeInit PROVE Deleted
  OBVIOUS
<1>1. db \in OldDatabases /\ tx = db /\ deleted = {}
  BY DEF UpgradeInit
<1>2. DOMAIN db.creds = {}
  BY <1>1, OldDatabasesAre
<1> QED
  BY <1>1, <1>2 DEF Deleted, OneTokenEach

\* A key that was deleted does not come back, whatever was left to migrate.
THEOREM DeletedKeysStayDeleted == UpgradeSpec => []DeletedStaysDeleted
<1>1. UpgradeInit => Sane /\ Deleted
  BY SaneInit, DeletedInit
<1>2. Sane /\ Deleted /\ [UpgradeNext]_upgradeVars => (Sane /\ Deleted)'
  BY SaneNext, DeletedNext
<1>3. Deleted => DeletedStaysDeleted
  BY DEF Deleted, Gone, DeletedStaysDeleted, Tokens, Token
<1> QED
  BY <1>1, <1>2, <1>3, PTL DEF UpgradeSpec

----------------------------------------------------------------------------
(* A start fails only on a clash.                                          *)

\* Every platform is the first of its URL.
AllCanonical(d) == \A p \in DOMAIN d.platforms : Canonical(d, p) = p

\* What the transaction has made of d: platforms and models of d, each model on
\* its platform or on the first of its URL.
MergesInto(d, e) ==
  /\ DOMAIN e.platforms \subseteq DOMAIN d.platforms
  /\ \A p \in DOMAIN e.platforms : e.platforms[p].url = d.platforms[p].url
  /\ \A p \in DOMAIN d.platforms : Canonical(d, p) \in DOMAIN e.platforms
  /\ DOMAIN e.rapis \subseteq DOMAIN d.rapis
  /\ \A r \in DOMAIN e.rapis :
       /\ e.rapis[r].alias = d.rapis[r].alias /\ e.rapis[r].model = d.rapis[r].model
       /\ Canonical(d, e.rapis[r].platform) = Canonical(d, d.rapis[r].platform)
       /\ e.rapis[r].platform \in DOMAIN d.platforms => e.rapis[r].platform \in DOMAIN e.platforms
  /\ e.unique = d.unique

\* Two platforms of one URL have models of one alias.
Clash(d) ==
  /\ d.unique = "platform"
  /\ \E q, r \in DOMAIN d.rapis :
       /\ q # r /\ d.rapis[q].alias = d.rapis[r].alias
       /\ d.rapis[q].platform # d.rapis[r].platform
       /\ Canonical(d, d.rapis[q].platform) = Canonical(d, d.rapis[r].platform)

\* The third part: what is allowed stays so up to the merge of platforms, and
\* nothing but that merge can end in what is not.
OnlyClash ==
  /\ Allowed(db) /\ Allowed(tx)
  /\ db.unique = "global" => ~db.credTable
  /\ db.unique = "none" => AllCanonical(db)
  /\ phase \in InTx => MergesInto(db, tx)
  /\ phase \in InTx \cup {"inspect"} => db.unique # "global"
  /\ phase \in {"dedupe again", "finish"} => AllCanonical(tx)
  /\ phase = "finish" => Duplicates(tx) = {}
  /\ phase = "failed" => Clash(db)

\* Platforms of one URL have the same first one.
LEMMA CanonicalSame ==
  ASSUME NEW d \in Databases, NEW p \in DOMAIN d.platforms, NEW q \in DOMAIN d.platforms,
         d.platforms[p].url = d.platforms[q].url, d.platforms[p].url # NoURL
  PROVE  Canonical(d, p) = Canonical(d, q)
<1>1. SamePlatform(d, p) = SamePlatform(d, q)
  BY DEF SamePlatform
<1> QED
  BY <1>1 DEF Canonical

\* The first of its URL is its own first.
LEMMA CanonicalTwice ==
  ASSUME NEW d \in Databases, NEW p
  PROVE  Canonical(d, Canonical(d, p)) = Canonical(d, p)
<1>1. CASE Canonical(d, p) = p
  BY <1>1
<1>2. CASE Canonical(d, p) # p
  <2>1. /\ p \in DOMAIN d.platforms /\ Canonical(d, p) \in DOMAIN d.platforms
        /\ d.platforms[Canonical(d, p)].url = d.platforms[p].url /\ d.platforms[p].url # NoURL
    BY <1>2, CanonicalIs
  <2> DEFINE c == Canonical(d, p)
  <2>2. Canonical(d, c) = Canonical(d, p)
    <3>1. /\ c \in DOMAIN d.platforms /\ d.platforms[c].url = d.platforms[p].url
          /\ d.platforms[c].url # NoURL /\ p \in DOMAIN d.platforms
      BY <2>1
    <3> HIDE DEF c
    <3> QED
      BY <3>1, CanonicalSame
  <2> QED
    BY <2>2
<1> QED
  BY <1>1, <1>2

\* The first one in the transaction is the first one there was.
LEMMA FirstStays ==
  ASSUME NEW d \in Databases, NEW e \in Databases, MergesInto(d, e), NEW p \in DOMAIN e.platforms,
         NEW keep, keep = Canonical(e, p)
  PROVE  /\ Canonical(d, p) = keep /\ Canonical(d, keep) = keep /\ keep \in DOMAIN e.platforms
         /\ keep # p => \A x \in DOMAIN d.platforms : Canonical(d, x) # p
<1> DEFINE m == Canonical(d, p)
<1>1. p \in DOMAIN d.platforms /\ m \in DOMAIN e.platforms
  BY DEF MergesInto
<1>2. /\ m \in SamePlatform(d, p) /\ m \in Nat /\ \A q \in SamePlatform(d, p) : m <= q
  BY <1>1, CanonicalIs
<1>3. /\ keep \in SamePlatform(e, p) /\ keep \in DOMAIN e.platforms /\ keep \in Nat
      /\ \A q \in SamePlatform(e, p) : keep <= q
  BY CanonicalIs
<1> HIDE DEF m
<1>4. m \in SamePlatform(e, p) /\ keep \in SamePlatform(d, p)
  BY <1>1, <1>2, <1>3 DEF SamePlatform, MergesInto
<1>5. m = keep
  BY <1>2, <1>3, <1>4
<1>6. Canonical(d, p) = keep
  BY <1>5 DEF m
<1>7. Canonical(d, keep) = keep
  BY <1>6, CanonicalTwice
<1>8. ASSUME NEW x \in DOMAIN d.platforms, Canonical(d, x) = p PROVE keep = p
  BY <1>6, <1>8, CanonicalTwice
<1> QED
  BY <1>3, <1>6, <1>7, <1>8

\* Fewer models, with the same keys, are allowed.
LEMMA AllowedFewer ==
  ASSUME NEW d, NEW e, Allowed(d),
         e.unique = d.unique \/ {e.unique, d.unique} \subseteq {"global", "platform"},
         DOMAIN e.rapis \subseteq DOMAIN d.rapis,
         \A r \in DOMAIN e.rapis :
           /\ e.rapis[r].platform = d.rapis[r].platform
           /\ e.rapis[r].alias = d.rapis[r].alias /\ e.rapis[r].model = d.rapis[r].model
  PROVE  Allowed(e)
BY DEF Allowed

\* The first ones depend on the platforms alone.
LEMMA CanonicalStays ==
  ASSUME NEW d, NEW e, e.platforms = d.platforms
  PROVE  (\A p : Canonical(e, p) = Canonical(d, p)) /\ (AllCanonical(d) => AllCanonical(e))
<1>1. ASSUME NEW p PROVE SamePlatform(e, p) = SamePlatform(d, p)
  BY DEF SamePlatform
<1>2. ASSUME NEW p PROVE Canonical(e, p) = Canonical(d, p)
  BY <1>1 DEF Canonical
<1> QED
  BY <1>2 DEF AllCanonical

\* The transaction begins with what is committed.
LEMMA MergesBegin ==
  ASSUME NEW d \in Databases, NEW e, SameModels(d, e)
  PROVE  MergesInto(d, e)
BY CanonicalIs DEF MergesInto, SameModels

\* What has been made stays made when models go.
LEMMA MergesFewer ==
  ASSUME NEW d, NEW e, NEW f, MergesInto(d, e), f.unique = e.unique,
         DOMAIN f.platforms = DOMAIN e.platforms,
         \A p \in DOMAIN e.platforms : f.platforms[p].url = e.platforms[p].url,
         DOMAIN f.rapis \subseteq DOMAIN e.rapis,
         \A r \in DOMAIN f.rapis : f.rapis[r] = e.rapis[r]
  PROVE  MergesInto(d, f)
BY DEF MergesInto

\* It stays made when a platform goes into the first of its URL.
LEMMA MergesFurther ==
  ASSUME NEW d \in Databases, NEW e \in Databases, MergesInto(d, e), NEW p \in DOMAIN e.platforms,
         NEW keep, keep = Canonical(e, p), keep # p, NEW f, f = MergedPlatform(e, p, keep)
  PROVE  MergesInto(d, f)
<1>1. /\ Canonical(d, p) = keep /\ Canonical(d, keep) = keep /\ keep \in DOMAIN e.platforms
      /\ \A x \in DOMAIN d.platforms : Canonical(d, x) # p
  BY FirstStays
<1>2. keep \in Nat
  BY <1>1, Fields, RowsOfTable
<1>3. /\ f.unique = e.unique /\ DOMAIN f.platforms = DOMAIN e.platforms \ {p}
      /\ \A q \in DOMAIN e.platforms : q # p => f.platforms[q] = e.platforms[q]
      /\ DOMAIN f.rapis = DOMAIN e.rapis
      /\ \A r \in DOMAIN e.rapis :
           /\ f.rapis[r].platform = (IF e.rapis[r].platform = p THEN keep ELSE e.rapis[r].platform)
           /\ f.rapis[r].alias = e.rapis[r].alias /\ f.rapis[r].model = e.rapis[r].model
  BY <1>2, MergedPlatformIs
<1>4. \A r \in DOMAIN f.rapis :
        /\ Canonical(d, f.rapis[r].platform) = Canonical(d, e.rapis[r].platform)
        /\ f.rapis[r].platform \in DOMAIN d.platforms => f.rapis[r].platform \in DOMAIN f.platforms
  <2>1. ASSUME NEW r \in DOMAIN f.rapis
        PROVE  /\ Canonical(d, f.rapis[r].platform) = Canonical(d, e.rapis[r].platform)
               /\ f.rapis[r].platform \in DOMAIN d.platforms =>
                    f.rapis[r].platform \in DOMAIN f.platforms
    <3>1. CASE e.rapis[r].platform = p
      BY <1>1, <1>3, <2>1, <3>1
    <3>2. CASE e.rapis[r].platform # p
      BY <1>3, <2>1, <3>2 DEF MergesInto
    <3> QED
      BY <3>1, <3>2
  <2> QED
    BY <2>1
<1> QED
  BY <1>1, <1>3, <1>4 DEF MergesInto

\* Where a platform cannot be merged, two models clash.
LEMMA MergeClashes ==
  ASSUME NEW d \in Databases, NEW e \in Databases, MergesInto(d, e), NEW p \in DOMAIN e.platforms,
         NEW keep, keep = Canonical(e, p), keep # p, NEW f, f = MergedPlatform(e, p, keep),
         Allowed(d), Allowed(e), ~Allowed(f), d.unique # "global", d.unique = "none" => AllCanonical(d)
  PROVE  Clash(d)
<1>1. /\ Canonical(d, p) = keep /\ Canonical(d, keep) = keep /\ keep \in DOMAIN e.platforms
  BY FirstStays
<1>2. keep \in Nat
  BY <1>1, Fields, RowsOfTable
<1>3. /\ f.unique = e.unique /\ DOMAIN f.rapis = DOMAIN e.rapis
      /\ \A r \in DOMAIN e.rapis :
           /\ f.rapis[r].platform = (IF e.rapis[r].platform = p THEN keep ELSE e.rapis[r].platform)
           /\ f.rapis[r].alias = e.rapis[r].alias /\ f.rapis[r].model = e.rapis[r].model
  BY <1>2, MergedPlatformIs
<1>4. d.unique = "platform" /\ e.unique = "platform"
  <2>1. d.unique # "none"
    BY <1>1 DEF AllCanonical, MergesInto
  <2> QED
    BY <2>1, Fields DEF MergesInto
<1>5. PICK q \in DOMAIN f.rapis, r \in DOMAIN f.rapis :
        /\ q # r /\ f.rapis[q].platform = f.rapis[r].platform /\ f.rapis[q].alias = f.rapis[r].alias
  BY <1>3, <1>4 DEF Allowed
<1>6. q \in DOMAIN d.rapis /\ r \in DOMAIN d.rapis /\ d.rapis[q].alias = d.rapis[r].alias
  BY <1>3, <1>5 DEF MergesInto
<1>7. /\ Canonical(d, f.rapis[q].platform) = Canonical(d, e.rapis[q].platform)
      /\ Canonical(d, f.rapis[r].platform) = Canonical(d, e.rapis[r].platform)
  BY <1>1, <1>3, <1>5
<1>8. Canonical(d, d.rapis[q].platform) = Canonical(d, d.rapis[r].platform)
  BY <1>3, <1>5, <1>7 DEF MergesInto
<1>9. d.rapis[q].platform # d.rapis[r].platform
  BY <1>4, <1>5, <1>6 DEF Allowed
<1> QED
  BY <1>4, <1>5, <1>6, <1>8, <1>9 DEF Clash

\* Without duplicates, nothing is against the new constraint.
LEMMA NoDuplicates ==
  ASSUME NEW d \in Databases, NEW e, Duplicates(d) = {}, e.rapis = d.rapis, e.unique = "none"
  PROVE  Allowed(e)
<1>1. DOMAIN d.rapis \subseteq Nat
  BY Fields, RowsOfTable
<1>2. ASSUME NEW q \in DOMAIN d.rapis, NEW r \in DOMAIN d.rapis, q # r,
             d.rapis[q].platform = d.rapis[r].platform
      PROVE  d.rapis[q].model = NoModel \/ d.rapis[q].model # d.rapis[r].model
  <2>1. q < r \/ r < q
    BY <1>1, <1>2
  <2> QED
    BY <1>2, <2>1 DEF Duplicates
<1> QED
  BY <1>2 DEF Allowed

\* A step that leaves what is committed, or a model of it, alone.
LEMMA ClashOutside ==
  ASSUME Sane, OnlyClash, tx' = db', db'.platforms = db.platforms, Allowed(db'),
         db'.unique = db.unique, db'.credTable = db.credTable, phase' \notin InTx, phase' # "failed",
         phase' = "inspect" => db.unique # "global"
  PROVE  OnlyClash'
<1>1. AllCanonical(db) => AllCanonical(db')
  BY CanonicalStays
<1> QED
  BY <1>1 DEF OnlyClash, InTx

\* A step inside the transaction, before the last dedupe, that keeps the models.
LEMMA ClashInside ==
  ASSUME Sane, OnlyClash, UNCHANGED db, phase \in InTx \ {"dedupe again", "finish"},
         phase' \in InTx \ {"dedupe again", "finish"},
         tx'.rapis = tx.rapis, tx'.unique = tx.unique, DOMAIN tx'.platforms = DOMAIN tx.platforms,
         \A p \in DOMAIN tx.platforms : tx'.platforms[p].url = tx.platforms[p].url
  PROVE  OnlyClash'
<1>1. MergesInto(db, tx')
  <2>1. MergesInto(db, tx)
    BY DEF OnlyClash
  <2> QED
    BY <2>1, MergesFewer
<1>2. Allowed(tx')
  <2>1. Allowed(tx)
    BY DEF OnlyClash
  <2> QED
    BY <2>1, AllowedFewer
<1>3. phase' \notin {"dedupe again", "finish", "failed"} /\ db.unique # "global"
  BY DEF InTx, OnlyClash
<1> QED
  BY <1>1, <1>2, <1>3 DEF OnlyClash

\* A step that undoes the transaction.
LEMMA ClashUndone ==
  ASSUME OnlyClash, UNCHANGED db, tx' = db, phase' \in {"off", "failed"},
         phase' = "failed" => Clash(db)
  PROVE  OnlyClash'
BY DEF OnlyClash, InTx

\* Every step keeps it.
LEMMA OnlyClashNext == Sane /\ OnlyClash /\ [UpgradeNext]_upgradeVars => OnlyClash'
<1> SUFFICES ASSUME Sane, OnlyClash, [UpgradeNext]_upgradeVars PROVE OnlyClash'
  OBVIOUS
<1>0. Shape(db) /\ Shape(tx) /\ db \in Databases /\ tx \in Databases /\ Allowed(db) /\ Allowed(tx)
  BY DEF Sane, Shape, OnlyClash
<1>1. CASE Start
  <2>1. UNCHANGED <<db, tx>> /\ phase' = "keys" /\ phase \in {"off", "failed"}
    BY <1>1 DEF Start
  <2>2. tx = db
    BY <2>1 DEF Sane, InTx
  <2> QED
    BY <1>0, <2>1, <2>2, ClashOutside DEF InTx
<1>2. CASE CreateKeyTable
  <2>1. /\ tx' = db' /\ phase' \in {"alias", "backfill"}
        /\ (db' = db \/ (SameModels(db, db') /\ SameCreds(db, db')))
    BY <1>2, CreateKeyTableDoes
  <2>2. Allowed(db') /\ db'.unique = db.unique /\ db'.platforms = db.platforms
        /\ db'.credTable = db.credTable
    BY <1>0, <2>1, AllowedFewer DEF SameModels, SameCreds
  <2> QED
    BY <2>1, <2>2, ClashOutside DEF InTx
<1>3. CASE Backfill
  <2>1. tx' = db' /\ phase' = "alias" /\ SameModels(db, db') /\ SameCreds(db, db')
    BY <1>3, BackfillDoes
  <2>2. Allowed(db') /\ db'.unique = db.unique /\ db'.platforms = db.platforms
        /\ db'.credTable = db.credTable
    BY <1>0, <2>1, AllowedFewer DEF SameModels, SameCreds
  <2> QED
    BY <2>1, <2>2, ClashOutside DEF InTx
<1>4. CASE PerPlatformAlias
  <2>1. /\ tx' = db' /\ phase' = "inspect" /\ SameCreds(db, db') /\ db'.platforms = db.platforms
        /\ db'.rapis = db.rapis
        /\ \/ db' = db /\ (db.credTable \/ db.unique # "global")
           \/ db.unique = "global" /\ db'.unique = "platform"
    BY <1>4, PerPlatformAliasDoes
  <2>2. CASE db' = db /\ (db.credTable \/ db.unique # "global")
    <3>1. db.unique # "global"
      BY <2>2 DEF OnlyClash
    <3> QED
      BY <1>0, <2>1, <2>2, <3>1, ClashOutside DEF InTx
  <2>3. CASE db.unique = "global" /\ db'.unique = "platform"
    <3>1. Allowed(db')
      BY <1>0, <2>1, <2>3, AllowedFewer
    <3> QED
      BY <2>1, <2>3, <3>1 DEF OnlyClash, InTx
  <2> QED
    BY <2>1, <2>2, <2>3
<1>5. CASE Inspect
  <2>1. /\ phase = "inspect" /\ UNCHANGED db
        /\ \/ phase' = "clean" /\ UNCHANGED tx
           \/ SameModels(db, tx') /\ phase' \in {"move", "dedupe"}
    BY <1>5, InspectDoes
  <2>2. CASE phase' = "clean" /\ UNCHANGED tx
    <3>1. tx = db
      BY <2>1 DEF Sane, InTx
    <3> QED
      BY <1>0, <2>1, <2>2, <3>1, ClashOutside DEF InTx
  <2>3. CASE SameModels(db, tx') /\ phase' \in {"move", "dedupe"}
    <3>1. MergesInto(db, tx')
      BY <1>0, <2>3, MergesBegin
    <3>2. Allowed(tx')
      BY <1>0, <2>3, AllowedFewer DEF SameModels
    <3>3. db.unique # "global"
      BY <2>1 DEF OnlyClash
    <3> QED
      BY <2>1, <2>3, <3>1, <3>2, <3>3 DEF OnlyClash
  <2> QED
    BY <2>1, <2>2, <2>3
<1>6. CASE MoveKey
  <2> DEFINE k == Min(todo)
  <2>1. phase = "move" /\ phase' = "move" /\ UNCHANGED db /\ SameModels(tx, tx')
    <3>1. k = Min(todo)
      OBVIOUS
    <3> HIDE DEF k
    <3> QED
      BY <1>6, <3>1, MoveKeyDoes
  <2> QED
    BY <2>1, ClashInside DEF SameModels, InTx
<1>7. CASE KeysMoved
  <2>1. UNCHANGED <<db, tx>> /\ phase = "move" /\ phase' = "remap"
    BY <1>7 DEF KeysMoved
  <2> QED
    BY <2>1, ClashInside DEF InTx
<1>8. ASSUME NEW k \in todo, Remap(k) PROVE OnlyClash'
  <2>1. UNCHANGED <<db, phase>> /\ phase = "remap" /\ SameModels(tx, tx')
    BY <1>8, RemapDoes
  <2> QED
    BY <2>1, ClashInside DEF SameModels, InTx
<1>9. CASE Bind
  <2>1. UNCHANGED db /\ phase = "remap" /\ phase' = "dedupe" /\ SameModels(tx, tx')
    BY <1>9, BindDoes
  <2> QED
    BY <2>1, ClashInside DEF SameModels, InTx
<1>10. CASE MergeRAPI
  <2>1. phase \in {"dedupe", "dedupe again"} /\ UNCHANGED <<db, phase>>
    BY <1>10, MergeRAPIDoes
  <2>2. PICK keep \in DOMAIN tx.rapis, dup \in DOMAIN tx.rapis :
             keep < dup /\ tx' = MergedRAPI(tx, keep, dup)
    BY <1>10, MergeRAPIDoes
  <2>3. keep # dup
    <3>1. DOMAIN tx.rapis \subseteq Nat
      BY <1>0, Fields, RowsOfTable
    <3> QED
      BY <2>2, <3>1
  <2>4. /\ tx'.platforms = tx.platforms /\ tx'.unique = tx.unique
        /\ DOMAIN tx'.rapis \subseteq DOMAIN tx.rapis
        /\ \A r \in DOMAIN tx'.rapis : tx'.rapis[r] = tx.rapis[r]
    <3>1. /\ tx'.platforms = tx.platforms /\ tx'.unique = tx.unique
          /\ DOMAIN tx'.rapis = DOMAIN tx.rapis \ {dup}
          /\ \A r \in DOMAIN tx.rapis : r # dup => tx'.rapis[r] = tx.rapis[r]
      BY <1>0, <2>2, <2>3, MergedRAPIIs
    <3> QED
      BY <3>1
  <2>5. MergesInto(db, tx) /\ db.unique # "global"
        /\ (phase = "dedupe again" => AllCanonical(tx))
    BY <2>1 DEF OnlyClash, InTx
  <2>6. MergesInto(db, tx')
    BY <2>4, <2>5, MergesFewer
  <2>7. Allowed(tx')
    BY <1>0, <2>4, AllowedFewer
  <2>8. AllCanonical(tx) => AllCanonical(tx')
    BY <2>4, CanonicalStays
  <2> QED
    BY <2>1, <2>5, <2>6, <2>7, <2>8 DEF OnlyClash
<1>11. CASE RAPIsMerged
  <2>1. /\ UNCHANGED <<db, tx>> /\ Duplicates(tx) = {} /\ phase \in {"dedupe", "dedupe again"}
        /\ phase' = IF phase = "dedupe" THEN "platforms" ELSE "finish"
    BY <1>11 DEF RAPIsMerged
  <2> QED
    BY <2>1 DEF OnlyClash, InTx
<1>12. CASE Normalise
  <2>1. /\ UNCHANGED db /\ phase = "platforms" /\ phase' = "merge" /\ tx'.rapis = tx.rapis
        /\ tx'.unique = tx.unique /\ DOMAIN tx'.platforms = DOMAIN tx.platforms
        /\ \A p \in DOMAIN tx.platforms : tx'.platforms[p].url = tx.platforms[p].url
    BY <1>12, NormaliseDoes
  <2> QED
    BY <2>1, ClashInside DEF InTx
<1>13. ASSUME NEW p \in DOMAIN tx.platforms, MergePlatform(p) PROVE OnlyClash'
  <2> DEFINE keep == Canonical(tx, p)
             merged == MergedPlatform(tx, p, keep)
  <2>1. /\ phase = "merge" /\ keep # p /\ UNCHANGED db
        /\ \/ Allowed(merged) /\ tx' = merged /\ UNCHANGED phase
           \/ ~Allowed(merged) /\ phase' = "failed" /\ tx' = db
    BY <1>13, MergePlatformDoes
  <2>2. MergesInto(db, tx) /\ db.unique # "global" /\ (db.unique = "none" => AllCanonical(db))
    BY <2>1 DEF OnlyClash, InTx
  <2>3. MergesInto(db, merged)
    <3> DEFINE f == merged
               k == keep
    <3>1. k = Canonical(tx, p) /\ f = MergedPlatform(tx, p, k) /\ k # p
      BY <2>1
    <3> HIDE DEF f, k
    <3>2. MergesInto(db, f)
      BY <1>0, <2>2, <3>1, MergesFurther
    <3> QED
      BY <3>2 DEF f
  <2>4. ~Allowed(merged) => Clash(db)
    <3> DEFINE f == merged
               k == keep
    <3>1. k = Canonical(tx, p) /\ f = MergedPlatform(tx, p, k) /\ k # p
      BY <2>1
    <3> HIDE DEF f, k
    <3>2. ~Allowed(f) => Clash(db)
      BY <1>0, <2>2, <3>1, MergeClashes
    <3> QED
      BY <3>2 DEF f
  <2> HIDE DEF merged, keep
  <2>5. CASE Allowed(merged) /\ tx' = merged /\ UNCHANGED phase
    BY <2>1, <2>2, <2>3, <2>5 DEF OnlyClash
  <2>6. CASE ~Allowed(merged) /\ phase' = "failed" /\ tx' = db
    BY <2>1, <2>4, <2>6, ClashUndone
  <2> QED
    BY <2>1, <2>5, <2>6
<1>14. CASE PlatformsMerged
  <2>1. /\ UNCHANGED <<db, tx>> /\ phase = "merge" /\ phase' = "dedupe again"
        /\ \A p \in DOMAIN tx.platforms : Canonical(tx, p) = p
    BY <1>14 DEF PlatformsMerged
  <2> QED
    BY <2>1 DEF OnlyClash, InTx, AllCanonical
<1>15. CASE Rebuild
  <2> DEFINE new == Projected(Rebuilt(tx))
             d == Rebuilt(tx)
  <2>1. /\ phase = "finish"
        /\ \/ db' = new /\ tx' = new /\ phase' = "clean"
           \/ ~Allowed(d) /\ phase' = "failed" /\ tx' = db /\ UNCHANGED db
        /\ new.unique = "none" /\ new.platforms = tx.platforms
        /\ DOMAIN new.rapis = DOMAIN tx.rapis
        /\ \A r \in DOMAIN tx.rapis :
              /\ new.rapis[r].platform = tx.rapis[r].platform
              /\ new.rapis[r].alias = tx.rapis[r].alias /\ new.rapis[r].model = tx.rapis[r].model
    BY <1>15, RebuildDoes
  <2>2. Duplicates(tx) = {} /\ AllCanonical(tx)
    BY <2>1 DEF OnlyClash
  <2>3. d.rapis = tx.rapis /\ d.unique = "none"
    BY <1>0, RebuiltIs
  <2> HIDE DEF d
  <2>4. Allowed(d)
    BY <1>0, <2>2, <2>3, NoDuplicates
  <2> HIDE DEF new
  <2>5. Allowed(new)
    BY <2>1, <2>3, <2>4, AllowedFewer
  <2>6. AllCanonical(new)
    BY <2>1, <2>2, CanonicalStays
  <2> QED
    BY <2>1, <2>4, <2>5, <2>6 DEF OnlyClash, InTx
<1>16. CASE CleanUp
  <2>1. /\ tx' = db' /\ phase' = "up" /\ db'.unique = db.unique /\ db'.platforms = db.platforms
        /\ SameCreds(db, db') /\ DOMAIN db'.rapis \subseteq DOMAIN db.rapis
        /\ \A r \in DOMAIN db'.rapis : db'.rapis[r] = db.rapis[r]
    BY <1>16, CleanUpDoes
  <2>2. Allowed(db')
    BY <1>0, <2>1, AllowedFewer
  <2> QED
    BY <2>1, <2>2, ClashOutside DEF SameCreds, InTx
<1>17. CASE Crash
  <2>1. phase' = "off" /\ tx' = db /\ UNCHANGED db
    BY <1>17 DEF Crash
  <2> QED
    BY <2>1, ClashUndone
<1>18. ASSUME NEW c \in DOMAIN db.creds, DeleteKey(c) PROVE OnlyClash'
  <2>1. /\ tx' = db' /\ phase = "up" /\ phase' = "up"
        /\ db'.unique = db.unique /\ db'.platforms = db.platforms
        /\ DOMAIN db'.rapis = DOMAIN db.rapis /\ Natural(db')
        /\ \A r \in DOMAIN db.rapis :
              /\ db'.rapis[r].platform = db.rapis[r].platform
              /\ db'.rapis[r].alias = db.rapis[r].alias /\ db'.rapis[r].model = db.rapis[r].model
    BY <1>18, DeleteKeyDoes
  <2>2. Allowed(db')
    BY <1>0, <2>1, AllowedFewer
  <2>3. Natural(db)
    BY <2>1 DEF Sane
  <2> QED
    BY <2>1, <2>2, <2>3, ClashOutside DEF Natural, InTx
<1>19. ASSUME NEW t \in AddedTokens \cup {NoToken}, Downgrade(t) PROVE OnlyClash'
  <2>1. tx' = db' /\ phase' = "off" /\ SameModels(db, db') /\ SameCreds(db, db')
    BY <1>19, DowngradeDoes
  <2>2. Allowed(db') /\ db'.unique = db.unique /\ db'.platforms = db.platforms
        /\ db'.credTable = db.credTable
    BY <1>0, <2>1, AllowedFewer DEF SameModels, SameCreds
  <2> QED
    BY <2>1, <2>2, ClashOutside DEF InTx
<1>20. CASE UNCHANGED upgradeVars
  BY <1>20 DEF upgradeVars, OnlyClash
<1> QED
  BY <1>1, <1>2, <1>3, <1>4, <1>5, <1>6, <1>7, <1>8, <1>9, <1>10, <1>11, <1>12, <1>13, <1>14,
     <1>15, <1>16, <1>17, <1>18, <1>19, <1>20 DEF UpgradeNext

\* Initially.
LEMMA OnlyClashInit == UpgradeInit => OnlyClash
<1> SUFFICES ASSUME UpgradeInit PROVE OnlyClash
  OBVIOUS
<1>1. db \in OldDatabases /\ tx = db /\ phase = "off"
  BY DEF UpgradeInit
<1>2. Allowed(db) /\ db.unique \in {"platform", "global"} /\ (db.credTable => db.unique = "platform")
  BY <1>1, OldDatabasesAre
<1> QED
  BY <1>1, <1>2 DEF OnlyClash, InTx

\* The start fails on nothing but models of one alias on platforms of one URL.
THEOREM StartFailsOnClashesOnly == UpgradeSpec => []StartFailsOnlyOnClash
<1>1. UpgradeInit => Sane /\ OnlyClash
  BY SaneInit, OnlyClashInit
<1>2. Sane /\ OnlyClash /\ [UpgradeNext]_upgradeVars => (Sane /\ OnlyClash)'
  BY SaneNext, OnlyClashNext
<1>3. OnlyClash => StartFailsOnlyOnClash
  BY DEF OnlyClash, Clash, StartFailsOnlyOnClash
<1> QED
  BY <1>1, <1>2, <1>3, PTL DEF UpgradeSpec

----------------------------------------------------------------------------
(* The preview is truthful.                                                *)

\* Rows of platform_keys that repeat the token of an earlier one.
Repeats(d) == {k \in DOMAIN d.keys : d.keys[k].token # NoToken /\ FirstWith(d.keys, k) # k}

\* A report has these fields.
IsReport(x) ==
  x = [created |-> x.created, keys |-> x.keys, rapis |-> x.rapis, platforms |-> x.platforms,
       renormalised |-> x.renormalised]

\* Before the platforms are looked at.
Early == {"move", "remap", "dedupe", "platforms"}

\* The report tells of the models and platforms that went.
Reported(d, e, x) ==
  /\ x.rapis = DOMAIN d.rapis \ DOMAIN e.rapis /\ x.rapis \subseteq Colliding(d)
  /\ x.platforms = {<<Canonical(d, p), p>> : p \in DOMAIN d.platforms \ DOMAIN e.platforms}
  /\ \A p \in DOMAIN d.platforms \ DOMAIN e.platforms : Canonical(d, p) # p

\* The rows seen have become credentials, or were known.
FirstMoved(d, e, x, seen) ==
  /\ DOMAIN e.creds = seen \ Repeats(d)
  /\ \A c \in DOMAIN e.creds : Token(e, c) = d.keys[c].token
  /\ x.created = Cardinality(DOMAIN e.creds)
  /\ x.keys = {<<FirstWith(d.keys, k), k>> : k \in seen \cap Repeats(d)}

\* The rows of platform_keys that the loop has visited.
Seen == DOMAIN db.keys \ (IF phase = "move" THEN todo ELSE {})

\* The fourth part: so far the report tells what went, and for a first migration
\* what the preview tells of the rows seen.
Foretold ==
  /\ IsReport(report)
  /\ phase \in {"keys", "backfill", "alias", "inspect"} => report = NoReport
  /\ phase \in InTx =>
       /\ Reported(db, tx, report)
       /\ IF phase \in Early THEN tx.platforms = db.platforms /\ report.renormalised = {}
          ELSE report.renormalised = {p \in DOMAIN db.platforms : db.platforms[p].raw}
       /\ db.creds = <<>> => FirstMoved(db, tx, report, Seen)
  /\ phase = "move" => \A j \in Seen : \A k \in todo : j < k
  /\ PreviewTruthful

\* A report with more keys, models or platforms.
LEMMA ReportGrows ==
  ASSUME NEW x, IsReport(x), NEW s, NEW y
  PROVE  /\ y = [x EXCEPT !.keys = s] =>
              /\ IsReport(y) /\ y.keys = s /\ y.created = x.created /\ y.rapis = x.rapis
              /\ y.platforms = x.platforms /\ y.renormalised = x.renormalised
         /\ y = [x EXCEPT !.created = s] =>
              /\ IsReport(y) /\ y.created = s /\ y.keys = x.keys /\ y.rapis = x.rapis
              /\ y.platforms = x.platforms /\ y.renormalised = x.renormalised
         /\ y = [x EXCEPT !.rapis = s] =>
              /\ IsReport(y) /\ y.rapis = s /\ y.keys = x.keys /\ y.created = x.created
              /\ y.platforms = x.platforms /\ y.renormalised = x.renormalised
         /\ y = [x EXCEPT !.platforms = s] =>
              /\ IsReport(y) /\ y.platforms = s /\ y.keys = x.keys /\ y.created = x.created
              /\ y.rapis = x.rapis /\ y.renormalised = x.renormalised
         /\ y = [x EXCEPT !.renormalised = s] =>
              /\ IsReport(y) /\ y.renormalised = s /\ y.keys = x.keys /\ y.created = x.created
              /\ y.rapis = x.rapis /\ y.platforms = x.platforms
BY DEF IsReport

\* The first row with the token of a row.
LEMMA FirstWithIs ==
  ASSUME NEW d \in Databases, NEW k \in DOMAIN d.keys, NEW f, f = FirstWith(d.keys, k)
  PROVE  /\ f \in DOMAIN d.keys /\ f \in Nat /\ f <= k /\ d.keys[f].token = d.keys[k].token
         /\ f \notin Repeats(d)
         /\ \A j \in DOMAIN d.keys : d.keys[j].token = d.keys[k].token => f <= j
<1> DEFINE S(i) == {j \in DOMAIN d.keys : d.keys[j].token = d.keys[i].token}
<1>1. DOMAIN d.keys \subseteq Nat
  BY Fields, RowsOfTable
<1>2. f = Min(S(k)) /\ k \in S(k) /\ S(k) \subseteq Nat
  BY <1>1 DEF FirstWith
<1>3. f \in S(k) /\ \A j \in S(k) : f <= j
  <2> HIDE DEF S
  <2> QED
    BY <1>2, MinIs
<1>4. f \in DOMAIN d.keys /\ d.keys[f].token = d.keys[k].token
  BY <1>3
<1>5. S(f) = S(k)
  BY <1>4
<1>6. FirstWith(d.keys, f) = f
  BY <1>2, <1>5 DEF FirstWith
<1> QED
  BY <1>1, <1>2, <1>3, <1>4, <1>6 DEF Repeats

\* A step of the transaction that makes no credential and merges nothing.
LEMMA ForetoldInside ==
  ASSUME Foretold, phase \in InTx, phase' \in InTx, UNCHANGED <<db, report>>,
         tx'.platforms = tx.platforms, DOMAIN tx'.rapis = DOMAIN tx.rapis, SameTokens(tx, tx'),
         phase \in Early <=> phase' \in Early, phase' # "move", phase = "move" => todo = {}
  PROVE  Foretold'
<1>1. Seen' = Seen
  BY DEF Seen
<1>2. Reported(db, tx', report)
  BY DEF Foretold, Reported
<1>3. db.creds = <<>> => FirstMoved(db, tx', report, Seen)
  BY DEF Foretold, FirstMoved, SameTokens
<1>4. PreviewTruthful'
  BY DEF PreviewTruthful, Migrated, InTx
<1> QED
  BY <1>1, <1>2, <1>3, <1>4 DEF Foretold, InTx

\* A step before, around or after the transaction.
LEMMA ForetoldOutside ==
  ASSUME Foretold, phase' \notin InTx, phase' # "clean", IsReport(report'),
         phase' \in {"keys", "backfill", "alias", "inspect"} => report' = NoReport
  PROVE  Foretold'
<1>1. PreviewTruthful'
  BY DEF PreviewTruthful, Migrated
<1> QED
  BY <1>1 DEF Foretold, InTx

\* The transaction begins with an empty report.
LEMMA InspectForetold == Sane /\ Foretold /\ Inspect => Foretold'
<1> SUFFICES ASSUME Sane, Foretold, Inspect PROVE Foretold'
  OBVIOUS
<1>1. /\ phase = "inspect" /\ UNCHANGED <<db, report>>
      /\ \/ phase' = "clean" /\ UNCHANGED before
         \/ /\ SameModels(db, tx') /\ tx'.creds = db.creds
            /\ \/ db.keyTable /\ ~Residue(db) /\ phase' = "move" /\ todo' = DOMAIN db.keys
               \/ (~db.keyTable \/ Residue(db)) /\ phase' = "dedupe"
  BY InspectDoes
<1>2. report = NoReport /\ IsReport(report) /\ before = NoDb /\ WellTyped(db)
  BY <1>1 DEF Foretold, Sane, Shape
<1>3. CASE phase' = "clean" /\ UNCHANGED before
  <2>1. PreviewTruthful'
    BY <1>2, <1>3 DEF PreviewTruthful, Migrated
  <2> QED
    BY <1>1, <1>2, <1>3, <2>1 DEF Foretold, InTx
<1>4. CASE /\ SameModels(db, tx') /\ tx'.creds = db.creds
           /\ \/ db.keyTable /\ ~Residue(db) /\ phase' = "move" /\ todo' = DOMAIN db.keys
              \/ (~db.keyTable \/ Residue(db)) /\ phase' = "dedupe"
  <2>1. Reported(db, tx', report') /\ report'.renormalised = {} /\ tx'.platforms = db.platforms
    BY <1>1, <1>2, <1>4 DEF Reported, NoReport, SameModels
  <2>2. ASSUME db.creds = <<>> PROVE Seen' = {} /\ FirstMoved(db, tx', report', {})
    <3>1. Seen' = {}
      <4>1. ~Residue(db)
        BY <2>2 DEF Residue
      <4> QED
        BY <1>1, <1>2, <1>4, <4>1 DEF Seen, WellTyped
    <3>2. DOMAIN tx'.creds = {}
      BY <1>4, <2>2, NoRows
    <3>3. report'.created = 0 /\ report'.keys = {}
      BY <1>1, <1>2 DEF NoReport
    <3>4. Cardinality({}) = 0
      BY FS_EmptySet
    <3> QED
      BY <3>1, <3>2, <3>3, <3>4 DEF FirstMoved
  <2>3. phase' = "move" => Seen' = {}
    BY <1>1, <1>4 DEF Seen
  <2>4. PreviewTruthful'
    BY <1>4 DEF PreviewTruthful, Migrated
  <2>5. phase' \in Early /\ phase' \in InTx /\ phase' \notin {"keys", "backfill", "alias", "inspect"}
    BY <1>4 DEF Early, InTx
  <2> QED
    BY <1>1, <1>2, <2>1, <2>2, <2>3, <2>4, <2>5 DEF Foretold
<1> QED
  BY <1>1, <1>3, <1>4

\* The rows are visited in the order of their ids: what is known is known by the
\* first row with the token.
LEMMA MoveKeyFirst ==
  ASSUME NEW d \in Databases, NEW e \in Databases, NEW seen, NEW k \in DOMAIN d.keys, NEW x,
         seen \subseteq DOMAIN d.keys, FirstMoved(d, e, x, seen), k \notin seen,
         \A j \in DOMAIN d.keys : j < k => j \in seen, \A j \in seen : j < k
  PROVE  /\ k \notin DOMAIN e.creds
         /\ \A c \in DOMAIN e.creds :
              /\ d.keys[k].token # NoToken /\ Token(e, c) = d.keys[k].token
              /\ \A a \in DOMAIN e.creds : Token(e, a) = d.keys[k].token => c <= a
              => c = FirstWith(d.keys, k) /\ k \in Repeats(d)
         /\ (\A c \in DOMAIN e.creds :
               d.keys[k].token # NoToken => Token(e, c) # d.keys[k].token) => k \notin Repeats(d)
<1> DEFINE f == FirstWith(d.keys, k)
<1>1. /\ f \in DOMAIN d.keys /\ f \in Nat /\ f <= k /\ d.keys[f].token = d.keys[k].token
      /\ f \notin Repeats(d)
      /\ \A j \in DOMAIN d.keys : d.keys[j].token = d.keys[k].token => f <= j
  BY FirstWithIs
<1>2. DOMAIN d.keys \subseteq Nat
  BY Fields, RowsOfTable
<1>3. /\ DOMAIN e.creds = seen \ Repeats(d)
      /\ \A c \in DOMAIN e.creds : Token(e, c) = d.keys[c].token
  BY DEF FirstMoved
<1>4. k \in Repeats(d) <=> d.keys[k].token # NoToken /\ f # k
  BY DEF Repeats
<1> HIDE DEF f
<1>5. f # k => f \in DOMAIN e.creds /\ Token(e, f) = d.keys[k].token
  BY <1>1, <1>2, <1>3
<1>6. ASSUME NEW c \in DOMAIN e.creds, d.keys[k].token # NoToken,
             Token(e, c) = d.keys[k].token,
             \A a \in DOMAIN e.creds : Token(e, a) = d.keys[k].token => c <= a
      PROVE  c = f /\ k \in Repeats(d)
  <2>1. c \in DOMAIN d.keys /\ c \in Nat /\ c < k /\ k \in Nat /\ d.keys[c].token = d.keys[k].token
    BY <1>2, <1>3, <1>6
  <2>2. f <= c
    BY <1>1, <2>1
  <2>3. f # k
    BY <1>1, <2>1, <2>2
  <2>4. c <= f
    BY <1>5, <1>6, <2>3
  <2> QED
    BY <1>1, <1>4, <1>6, <2>1, <2>2, <2>3, <2>4
<1>7. ASSUME \A c \in DOMAIN e.creds :
               d.keys[k].token # NoToken => Token(e, c) # d.keys[k].token
      PROVE  k \notin Repeats(d)
  BY <1>4, <1>5, <1>7
<1> QED
  BY <1>3, <1>6, <1>7 DEF f

\* The row k is known by its first one.
LEMMA FirstKnown ==
  ASSUME NEW d, NEW e, NEW x, NEW y, NEW seen, FirstMoved(d, e, x, seen), NEW k \in Repeats(d),
         y.created = x.created, y.keys = x.keys \cup {<<FirstWith(d.keys, k), k>>}
  PROVE  FirstMoved(d, e, y, seen \cup {k})
BY DEF FirstMoved

\* The row k becomes a credential.
LEMMA FirstMade ==
  ASSUME NEW d, NEW e \in Databases, NEW e2, NEW x, NEW y, NEW seen, FirstMoved(d, e, x, seen),
         NEW k, k \notin Repeats(d), k \notin DOMAIN e.creds, NEW row, row.token = d.keys[k].token,
         e2.creds = With(e.creds, k, row), y.created = x.created + 1, y.keys = x.keys
  PROVE  FirstMoved(d, e2, y, seen \cup {k})
<1>1. /\ DOMAIN e2.creds = DOMAIN e.creds \cup {k} /\ e2.creds[k] = row
      /\ \A c \in DOMAIN e.creds : e2.creds[c] = e.creds[c]
  BY DEF With
<1>2. IsFiniteSet(DOMAIN e.creds)
  BY Fields, RowsOfTable
<1>3. Cardinality(DOMAIN e2.creds) = Cardinality(DOMAIN e.creds) + 1
  BY <1>1, <1>2, FS_AddElement
<1>4. DOMAIN e2.creds = (seen \cup {k}) \ Repeats(d)
  BY <1>1 DEF FirstMoved
<1>5. \A c \in DOMAIN e2.creds : Token(e2, c) = d.keys[c].token
  BY <1>1 DEF FirstMoved, Token
<1>6. (seen \cup {k}) \cap Repeats(d) = seen \cap Repeats(d)
  OBVIOUS
<1> QED
  BY <1>3, <1>4, <1>5, <1>6 DEF FirstMoved

\* A row of platform_keys is told of as the preview tells of it.
LEMMA MoveKeyForetold == Sane /\ Foretold /\ MoveKey => Foretold'
<1> SUFFICES ASSUME Sane, Foretold, MoveKey PROVE Foretold'
  OBVIOUS
<1> DEFINE k == Min(todo)
           row == [platform |-> tx.keys[k].platform, token |-> tx.keys[k].token]
<1>1. /\ phase = "move" /\ phase' = "move" /\ UNCHANGED <<db, before, deleted, faults>>
      /\ k \in todo /\ k \in DOMAIN tx.keys /\ todo' = todo \ {k} /\ (\A j \in todo : k <= j)
      /\ SameModels(tx, tx')
      /\ \/ \E c \in DOMAIN tx.creds :
              /\ tx.keys[k].token # NoToken /\ Token(tx, c) = tx.keys[k].token
              /\ \A a \in DOMAIN tx.creds : Token(tx, a) = tx.keys[k].token => c <= a
              /\ tx' = tx
              /\ report' = [report EXCEPT !.keys = @ \cup
                    IF Token(tx, k) = tx.keys[k].token /\ k \in DOMAIN tx.creds
                    THEN {} ELSE {<<c, k>>}]
         \/ \E id \in Nat :
              /\ \A c \in DOMAIN tx.creds :
                   tx.keys[k].token # NoToken => Token(tx, c) # tx.keys[k].token
              /\ id \notin DOMAIN tx.creds /\ (k \notin DOMAIN tx.creds => id = k)
              /\ tx'.creds = With(tx.creds, id, row)
              /\ report' = [report EXCEPT !.created = @ + 1]
  BY MoveKeyDoes
<1>2. /\ db \in Databases /\ tx \in Databases /\ tx.keys = db.keys /\ IsReport(report)
      /\ DOMAIN db.keys \subseteq Nat /\ todo \subseteq DOMAIN db.keys
  BY <1>1, Fields, RowsOfTable DEF Sane, Shape, Foretold
<1>3. row.token = db.keys[k].token
  BY <1>2
<1> HIDE DEF k, row
<1>4. Seen' = Seen \cup {k} /\ Seen \subseteq DOMAIN db.keys /\ k \notin Seen /\ k \in DOMAIN db.keys
  BY <1>1, <1>2 DEF Seen
<1>5. (\A j \in DOMAIN db.keys : j < k => j \in Seen) /\ (\A j \in Seen : j < k)
  BY <1>1, <1>2 DEF Seen, Foretold
<1>6. \A j \in Seen' : \A i \in todo' : j < i
  BY <1>1, <1>2, <1>4, <1>5 DEF Foretold
<1>7. /\ IsReport(report') /\ report'.rapis = report.rapis /\ report'.platforms = report.platforms
      /\ report'.renormalised = report.renormalised
  <2>1. \/ \E s : report' = [report EXCEPT !.keys = s]
        \/ \E s : report' = [report EXCEPT !.created = s]
    BY <1>1
  <2> QED
    BY <1>2, <2>1, ReportGrows
<1>8. Reported(db, tx', report') /\ tx'.platforms = db.platforms /\ report'.renormalised = {}
  BY <1>1, <1>7 DEF Foretold, Reported, SameModels, InTx, Early
<1>9. ASSUME db.creds = <<>> PROVE FirstMoved(db, tx', report', Seen')
  <2>1. FirstMoved(db, tx, report, Seen)
    BY <1>1, <1>9 DEF Foretold, InTx
  <2>2. /\ k \notin DOMAIN tx.creds
        /\ \A c \in DOMAIN tx.creds :
              /\ db.keys[k].token # NoToken /\ Token(tx, c) = db.keys[k].token
              /\ \A a \in DOMAIN tx.creds : Token(tx, a) = db.keys[k].token => c <= a
              => c = FirstWith(db.keys, k) /\ k \in Repeats(db)
        /\ (\A c \in DOMAIN tx.creds :
               db.keys[k].token # NoToken => Token(tx, c) # db.keys[k].token) => k \notin Repeats(db)
    BY <1>2, <1>4, <1>5, <2>1, MoveKeyFirst
  <2>3. CASE \E c \in DOMAIN tx.creds :
              /\ tx.keys[k].token # NoToken /\ Token(tx, c) = tx.keys[k].token
              /\ \A a \in DOMAIN tx.creds : Token(tx, a) = tx.keys[k].token => c <= a
              /\ tx' = tx
              /\ report' = [report EXCEPT !.keys = @ \cup
                    IF Token(tx, k) = tx.keys[k].token /\ k \in DOMAIN tx.creds
                    THEN {} ELSE {<<c, k>>}]
    <3>1. PICK c \in DOMAIN tx.creds :
              /\ tx.keys[k].token # NoToken /\ Token(tx, c) = tx.keys[k].token
              /\ \A a \in DOMAIN tx.creds : Token(tx, a) = tx.keys[k].token => c <= a
              /\ tx' = tx
              /\ report' = [report EXCEPT !.keys = @ \cup
                    IF Token(tx, k) = tx.keys[k].token /\ k \in DOMAIN tx.creds
                    THEN {} ELSE {<<c, k>>}]
      BY <2>3
    <3>2. c = FirstWith(db.keys, k) /\ k \in Repeats(db)
      BY <1>2, <2>2, <3>1
    <3>3. report' = [report EXCEPT !.keys = report.keys \cup {<<c, k>>}]
      BY <2>2, <3>1
    <3>4. report'.created = report.created /\ report'.keys = report.keys \cup {<<c, k>>}
      BY <1>2, <3>3, ReportGrows
    <3>5. FirstMoved(db, tx, report', Seen \cup {k})
      BY <2>1, <3>2, <3>4, FirstKnown
    <3> QED
      BY <1>4, <3>1, <3>5
  <2>4. CASE \E id \in Nat :
              /\ \A c \in DOMAIN tx.creds :
                   tx.keys[k].token # NoToken => Token(tx, c) # tx.keys[k].token
              /\ id \notin DOMAIN tx.creds /\ (k \notin DOMAIN tx.creds => id = k)
              /\ tx'.creds = With(tx.creds, id, row)
              /\ report' = [report EXCEPT !.created = @ + 1]
    <3>1. tx'.creds = With(tx.creds, k, row) /\ k \notin Repeats(db)
      BY <1>2, <2>2, <2>4
    <3>2. report' = [report EXCEPT !.created = report.created + 1]
      BY <2>4
    <3>3. report'.created = report.created + 1 /\ report'.keys = report.keys
      BY <1>2, <3>2, ReportGrows
    <3>4. FirstMoved(db, tx', report', Seen \cup {k})
      BY <1>2, <1>3, <2>1, <2>2, <3>1, <3>3, FirstMade
    <3> QED
      BY <1>4, <3>4
  <2> QED
    BY <1>1, <2>3, <2>4
<1>10. PreviewTruthful'
  BY <1>1 DEF PreviewTruthful, Migrated
<1> QED
  BY <1>1, <1>6, <1>7, <1>8, <1>9, <1>10 DEF Foretold, InTx, Early

\* A model that is merged met an earlier one of its name.
LEMMA MergeRAPIForetold == Sane /\ OnlyClash /\ Foretold /\ MergeRAPI => Foretold'
<1> SUFFICES ASSUME Sane, OnlyClash, Foretold, MergeRAPI PROVE Foretold'
  OBVIOUS
<1>1. phase \in {"dedupe", "dedupe again"} /\ UNCHANGED <<db, phase, todo>>
  BY MergeRAPIDoes
<1>2. PICK keep \in DOMAIN tx.rapis, dup \in DOMAIN tx.rapis :
        /\ keep < dup /\ tx.rapis[keep].platform = tx.rapis[dup].platform
        /\ tx.rapis[keep].model = tx.rapis[dup].model /\ tx.rapis[dup].model # NoModel
        /\ tx' = MergedRAPI(tx, keep, dup)
        /\ report' = [report EXCEPT !.rapis = @ \cup {dup}]
  BY MergeRAPIDoes
<1>3. Shape(tx) /\ keep # dup
  <2>1. Shape(tx) /\ DOMAIN tx.rapis \subseteq Nat
    BY Fields, RowsOfTable DEF Sane, Shape
  <2> QED
    BY <1>2, <2>1
<1>4. /\ tx'.platforms = tx.platforms /\ SameCreds(tx, tx')
      /\ DOMAIN tx'.rapis = DOMAIN tx.rapis \ {dup}
  BY <1>2, <1>3, MergedRAPIIs
<1>5. /\ IsReport(report') /\ report'.rapis = report.rapis \cup {dup}
      /\ report'.keys = report.keys /\ report'.created = report.created
      /\ report'.platforms = report.platforms /\ report'.renormalised = report.renormalised
  <2>1. IsReport(report) /\ report' = [report EXCEPT !.rapis = report.rapis \cup {dup}]
    BY <1>2 DEF Foretold
  <2> QED
    BY <2>1, ReportGrows
<1>6. phase \in InTx /\ phase # "move"
  BY <1>1 DEF InTx
<1>7. Reported(db, tx', report')
  <2>1. Reported(db, tx, report) /\ MergesInto(db, tx)
    BY <1>6 DEF Foretold, OnlyClash
  <2>2. dup \in Colliding(db)
    <3>1. keep \in DOMAIN db.rapis /\ dup \in DOMAIN db.rapis
      BY <2>1 DEF MergesInto
    <3>2. db.rapis[keep].model = db.rapis[dup].model /\ db.rapis[dup].model # NoModel
      BY <1>2, <2>1 DEF MergesInto
    <3>3. Canonical(db, db.rapis[keep].platform) = Canonical(db, db.rapis[dup].platform)
      BY <1>2, <2>1 DEF MergesInto
    <3> QED
      BY <1>2, <3>1, <3>2, <3>3 DEF Colliding
  <2>3. DOMAIN db.rapis \ DOMAIN tx'.rapis = (DOMAIN db.rapis \ DOMAIN tx.rapis) \cup {dup}
    BY <1>4, <2>1 DEF MergesInto
  <2> QED
    BY <1>4, <1>5, <2>1, <2>2, <2>3 DEF Reported
<1>8. db.creds = <<>> => FirstMoved(db, tx', report', Seen)
  BY <1>4, <1>5, <1>6 DEF Foretold, FirstMoved, SameCreds, Token
<1>9. PreviewTruthful'
  BY <1>1 DEF PreviewTruthful, Migrated
<1>10. Seen' = Seen
  BY <1>1 DEF Seen
<1> QED
  BY <1>1, <1>4, <1>5, <1>6, <1>7, <1>8, <1>9, <1>10 DEF Foretold, InTx

\* The URLs that were not in their normal form are told of.
LEMMA NormaliseForetold == Sane /\ Foretold /\ Normalise => Foretold'
<1> SUFFICES ASSUME Sane, Foretold, Normalise PROVE Foretold'
  OBVIOUS
<1>1. /\ phase = "platforms" /\ phase' = "merge" /\ UNCHANGED db
      /\ SameCreds(tx, tx') /\ tx'.rapis = tx.rapis
      /\ DOMAIN tx'.platforms = DOMAIN tx.platforms
      /\ report' = [report EXCEPT !.renormalised = {p \in DOMAIN tx.platforms : tx.platforms[p].raw}]
  BY NormaliseDoes
<1>2. /\ IsReport(report') /\ report'.rapis = report.rapis
      /\ report'.keys = report.keys /\ report'.created = report.created
      /\ report'.platforms = report.platforms
      /\ report'.renormalised = {p \in DOMAIN tx.platforms : tx.platforms[p].raw}
  <2>1. IsReport(report)
    BY DEF Foretold
  <2> QED
    BY <1>1, <2>1, ReportGrows
<1>3. Reported(db, tx, report) /\ tx.platforms = db.platforms
  BY <1>1 DEF Foretold, InTx, Early
<1>4. Reported(db, tx', report')
  BY <1>1, <1>2, <1>3 DEF Reported
<1>5. db.creds = <<>> => FirstMoved(db, tx', report', Seen)
  BY <1>1, <1>2 DEF Foretold, FirstMoved, SameCreds, Token, InTx
<1>6. PreviewTruthful'
  BY <1>1 DEF PreviewTruthful, Migrated
<1>7. Seen' = Seen
  BY <1>1 DEF Seen
<1>8. phase' \notin Early /\ phase' # "move" /\ phase' \notin {"keys", "backfill", "alias", "inspect"}
  BY <1>1 DEF Early
<1> QED
  BY <1>1, <1>2, <1>3, <1>4, <1>5, <1>6, <1>7, <1>8 DEF Foretold

\* A platform that is merged is told of with the one it goes into.
LEMMA MergePlatformForetold ==
  ASSUME Sane, OnlyClash, Foretold, NEW p \in DOMAIN tx.platforms, MergePlatform(p)
  PROVE  Foretold'
<1> DEFINE keep == Canonical(tx, p)
           merged == MergedPlatform(tx, p, keep)
<1>1. /\ phase = "merge" /\ keep # p /\ keep \in Nat /\ UNCHANGED db
      /\ \/ Allowed(merged) /\ tx' = merged /\ UNCHANGED phase
            /\ report' = [report EXCEPT !.platforms = @ \cup {<<keep, p>>}]
         \/ ~Allowed(merged) /\ phase' = "failed" /\ tx' = db /\ UNCHANGED report
  BY MergePlatformDoes
<1>2. /\ tx \in Databases /\ db \in Databases /\ IsReport(report) /\ MergesInto(db, tx)
  BY <1>1 DEF Sane, Shape, Foretold, OnlyClash, InTx
<1>3. /\ DOMAIN merged.platforms = DOMAIN tx.platforms \ {p}
      /\ DOMAIN merged.rapis = DOMAIN tx.rapis /\ SameTokens(tx, merged)
  <2> HIDE DEF keep
  <2>1. /\ DOMAIN merged.platforms = DOMAIN tx.platforms \ {p}
        /\ DOMAIN merged.rapis = DOMAIN tx.rapis /\ DOMAIN merged.creds = DOMAIN tx.creds
        /\ \A c \in DOMAIN tx.creds : Token(merged, c) = Token(tx, c)
    BY <1>1, <1>2, MergedPlatformIs
  <2> QED
    BY <2>1 DEF SameTokens
<1>4. Canonical(db, p) = keep
  BY <1>2, FirstStays
<1> HIDE DEF keep, merged
<1>5. CASE ~Allowed(merged) /\ phase' = "failed" /\ tx' = db /\ UNCHANGED report
  BY <1>2, <1>5, ForetoldOutside DEF InTx
<1>6. CASE Allowed(merged) /\ tx' = merged /\ UNCHANGED phase
            /\ report' = [report EXCEPT !.platforms = @ \cup {<<keep, p>>}]
  <2>1. /\ IsReport(report') /\ report'.rapis = report.rapis
        /\ report'.keys = report.keys /\ report'.created = report.created
        /\ report'.platforms = report.platforms \cup {<<keep, p>>}
        /\ report'.renormalised = report.renormalised
    <3>1. report' = [report EXCEPT !.platforms = report.platforms \cup {<<keep, p>>}]
      BY <1>6
    <3> QED
      BY <1>2, <3>1, ReportGrows
  <2>2. Reported(db, tx, report)
    BY <1>1 DEF Foretold, InTx
  <2>3. DOMAIN db.platforms \ DOMAIN tx'.platforms =
          (DOMAIN db.platforms \ DOMAIN tx.platforms) \cup {p}
    BY <1>2, <1>3, <1>6 DEF MergesInto
  <2>4. Reported(db, tx', report')
    BY <1>1, <1>3, <1>4, <1>6, <2>1, <2>2, <2>3 DEF Reported
  <2>5. Seen' = Seen
    BY <1>1, <1>6 DEF Seen
  <2>6. db.creds = <<>> => FirstMoved(db, tx', report', Seen)
    BY <1>1, <1>3, <1>6, <2>1 DEF Foretold, FirstMoved, SameTokens, InTx
  <2>7. PreviewTruthful'
    BY <1>1, <1>6 DEF PreviewTruthful, Migrated
  <2> QED
    BY <1>1, <1>6, <2>1, <2>4, <2>5, <2>6, <2>7 DEF Foretold, Early
<1> QED
  BY <1>1, <1>5, <1>6

\* When nothing is left to merge, all models that meet an earlier one are gone.
LEMMA CollidingGone ==
  ASSUME NEW d \in Databases, NEW e \in Databases, MergesInto(d, e), AllCanonical(e),
         Duplicates(e) = {}, DOMAIN d.rapis \ DOMAIN e.rapis \subseteq Colliding(d)
  PROVE  DOMAIN d.rapis \ DOMAIN e.rapis = Colliding(d)
<1>1. DOMAIN d.rapis \subseteq Nat
  BY Fields, RowsOfTable
<1>2. SUFFICES ASSUME NEW r \in DOMAIN e.rapis PROVE r \notin Colliding(d)
  BY DEF Colliding
<1>3. \A q \in DOMAIN e.rapis : Canonical(d, e.rapis[q].platform) = e.rapis[q].platform
  <2>1. ASSUME NEW q \in DOMAIN e.rapis
        PROVE  Canonical(d, e.rapis[q].platform) = e.rapis[q].platform
    <3> DEFINE p == e.rapis[q].platform
    <3> HIDE DEF p
    <3>1. CASE p \in DOMAIN e.platforms
      <4>1. Canonical(e, p) = p
        BY <3>1 DEF AllCanonical
      <4>2. Canonical(d, p) = p
        BY <3>1, <4>1, FirstStays
      <4> QED
        BY <4>2 DEF p
    <3>2. CASE p \notin DOMAIN e.platforms
      <4>1. p \notin DOMAIN d.platforms
        BY <3>2 DEF MergesInto, p
      <4>2. Canonical(d, p) = p
        BY <4>1, CanonicalIs
      <4> QED
        BY <4>2 DEF p
    <3> QED
      BY <3>1, <3>2
  <2> QED
    BY <2>1
<1>4. SUFFICES ASSUME r \in Colliding(d) PROVE FALSE
  OBVIOUS
<1>5. PICK q \in DOMAIN d.rapis :
        /\ q < r /\ d.rapis[q].model = d.rapis[r].model
        /\ Canonical(d, d.rapis[q].platform) = Canonical(d, d.rapis[r].platform)
  BY <1>4 DEF Colliding
<1>6. r \in DOMAIN d.rapis /\ d.rapis[r].model # NoModel
  BY <1>4 DEF Colliding
<1> DEFINE like == {x \in DOMAIN d.rapis :
                      /\ d.rapis[x].model = d.rapis[r].model
                      /\ Canonical(d, d.rapis[x].platform) = Canonical(d, d.rapis[r].platform)}
           m == Min(like)
<1>7. m \in like /\ \A x \in like : m <= x
  <2>1. like \subseteq Nat /\ q \in like
    BY <1>1, <1>5
  <2> HIDE DEF like
  <2> QED
    BY <2>1, MinIs
<1>8. m \notin Colliding(d)
  <2>1. ASSUME m \in Colliding(d) PROVE FALSE
    <3>1. PICK x \in DOMAIN d.rapis :
            /\ x < m /\ d.rapis[x].model = d.rapis[m].model
            /\ Canonical(d, d.rapis[x].platform) = Canonical(d, d.rapis[m].platform)
      BY <2>1 DEF Colliding
    <3>2. x \in like
      BY <1>7, <3>1
    <3>3. m <= x
      BY <1>7, <3>2
    <3>4. m \in Nat /\ x \in Nat
      BY <1>1, <1>7, <3>1
    <3> QED
      BY <3>1, <3>3, <3>4
  <2> QED
    BY <2>1
<1>9. m < r /\ m \in DOMAIN e.rapis
  <2>1. m \in DOMAIN d.rapis /\ m <= q /\ m \in Nat
    BY <1>1, <1>5, <1>7
  <2>2. q \in Nat /\ r \in Nat
    BY <1>1, <1>5, <1>6
  <2> QED
    BY <1>5, <1>8, <2>1, <2>2
<1>10. /\ d.rapis[m].model = d.rapis[r].model
       /\ Canonical(d, d.rapis[m].platform) = Canonical(d, d.rapis[r].platform)
  BY <1>7
<1> HIDE DEF m, like
<1>11. e.rapis[m].model = e.rapis[r].model /\ e.rapis[r].model # NoModel
  BY <1>6, <1>9, <1>10 DEF MergesInto
<1>12. e.rapis[m].platform = e.rapis[r].platform
  <2>1. Canonical(d, e.rapis[m].platform) = Canonical(d, e.rapis[r].platform)
    BY <1>9, <1>10 DEF MergesInto
  <2> QED
    BY <1>3, <1>9, <2>1
<1> QED
  BY <1>9, <1>11, <1>12 DEF Duplicates

\* What was told of a first migration is what the preview tells.
LEMMA PreviewIs ==
  ASSUME NEW d \in Databases, NEW e \in Databases, NEW x, IsReport(x), MergesInto(d, e), AllCanonical(e),
         Duplicates(e) = {}, Reported(d, e, x), FirstMoved(d, e, x, DOMAIN d.keys),
         x.renormalised = {p \in DOMAIN d.platforms : d.platforms[p].raw}
  PROVE  x = Preview(d)
<1>1. x.rapis = Colliding(d)
  BY CollidingGone DEF Reported
<1>2. x.platforms = {<<Canonical(d, p), p>> : p \in {q \in DOMAIN d.platforms : Canonical(d, q) # q}}
  <2>1. ASSUME NEW p \in DOMAIN e.platforms PROVE Canonical(d, p) = p
    BY FirstStays DEF AllCanonical
  <2>2. {q \in DOMAIN d.platforms : Canonical(d, q) # q} = DOMAIN d.platforms \ DOMAIN e.platforms
    BY <2>1 DEF Reported
  <2> QED
    BY <2>2 DEF Reported
<1>3. x.created = Cardinality(DOMAIN d.keys \ Repeats(d))
  BY DEF FirstMoved
<1>4. x.keys = {<<FirstWith(d.keys, k), k>> : k \in Repeats(d)}
  <2>1. DOMAIN d.keys \cap Repeats(d) = Repeats(d)
    BY DEF Repeats
  <2> QED
    BY <2>1 DEF FirstMoved
<1>5. Preview(d) =
        [created |-> Cardinality(DOMAIN d.keys \ Repeats(d)),
         keys |-> {<<FirstWith(d.keys, k), k>> : k \in Repeats(d)},
         rapis |-> Colliding(d),
         platforms |-> {<<Canonical(d, p), p>> : p \in {q \in DOMAIN d.platforms : Canonical(d, q) # q}},
         renormalised |-> {p \in DOMAIN d.platforms : d.platforms[p].raw}]
  BY DEF Preview, Repeats
<1> QED
  BY <1>1, <1>2, <1>3, <1>4, <1>5 DEF IsReport

\* The transaction is committed with the report that was foretold.
LEMMA RebuildForetold == Sane /\ OnlyClash /\ Foretold /\ Rebuild => Foretold'
<1> SUFFICES ASSUME Sane, OnlyClash, Foretold, Rebuild PROVE Foretold'
  OBVIOUS
<1>1. /\ phase = "finish" /\ UNCHANGED <<report, before>> /\ phase' \in {"clean", "failed"}
  BY RebuildDoes
<1>2. CASE phase' = "failed"
  BY <1>1, <1>2, ForetoldOutside DEF InTx, Foretold
<1>3. CASE phase' = "clean"
  <2>1. /\ db \in Databases /\ tx \in Databases /\ IsReport(report) /\ before = db
        /\ MergesInto(db, tx) /\ AllCanonical(tx) /\ Duplicates(tx) = {} /\ Reported(db, tx, report)
        /\ report.renormalised = {p \in DOMAIN db.platforms : db.platforms[p].raw}
    BY <1>1 DEF Sane, Shape, OnlyClash, Foretold, InTx, Early
  <2>2. ASSUME db.creds = <<>> PROVE report = Preview(db)
    <3>1. FirstMoved(db, tx, report, DOMAIN db.keys)
      BY <1>1, <2>2 DEF Foretold, InTx, Seen
    <3> QED
      BY <2>1, <3>1, PreviewIs
  <2>3. PreviewTruthful'
    BY <1>1, <2>1, <2>2 DEF PreviewTruthful, First
  <2> QED
    BY <1>1, <1>3, <2>1, <2>3 DEF Foretold, InTx
<1> QED
  BY <1>1, <1>2, <1>3

\* Every step keeps it.
LEMMA ForetoldNext == Sane /\ OnlyClash /\ Foretold /\ [UpgradeNext]_upgradeVars => Foretold'
<1> SUFFICES ASSUME Sane, OnlyClash, Foretold, [UpgradeNext]_upgradeVars PROVE Foretold'
  OBVIOUS
<1>0. IsReport(report)
  BY DEF Foretold
<1>1. CASE Start
  <2>1. phase' = "keys" /\ report' = NoReport
    BY <1>1 DEF Start
  <2>2. IsReport(report')
    BY <2>1 DEF IsReport, NoReport
  <2> QED
    BY <2>1, <2>2, ForetoldOutside DEF InTx
<1>2. CASE CreateKeyTable
  <2>1. phase = "keys" /\ phase' \in {"alias", "backfill"} /\ UNCHANGED report
    BY <1>2, CreateKeyTableDoes
  <2>2. report' = NoReport
    BY <2>1 DEF Foretold
  <2> QED
    BY <1>0, <2>1, <2>2, ForetoldOutside DEF InTx
<1>3. CASE Backfill
  <2>1. phase = "backfill" /\ phase' = "alias" /\ UNCHANGED report
    BY <1>3, BackfillDoes
  <2>2. report' = NoReport
    BY <2>1 DEF Foretold
  <2> QED
    BY <1>0, <2>1, <2>2, ForetoldOutside DEF InTx
<1>4. CASE PerPlatformAlias
  <2>1. phase = "alias" /\ phase' = "inspect" /\ UNCHANGED report
    BY <1>4, PerPlatformAliasDoes
  <2>2. report' = NoReport
    BY <2>1 DEF Foretold
  <2> QED
    BY <1>0, <2>1, <2>2, ForetoldOutside DEF InTx
<1>5. CASE Inspect
  BY <1>5, InspectForetold
<1>6. CASE MoveKey
  BY <1>6, MoveKeyForetold
<1>7. CASE KeysMoved
  <2>1. phase = "move" /\ todo = {} /\ phase' = "remap" /\ UNCHANGED <<db, tx, report>>
    BY <1>7 DEF KeysMoved
  <2>2. SameTokens(tx, tx')
    BY <2>1, CredsStay
  <2> QED
    BY <2>1, <2>2, ForetoldInside DEF InTx, Early
<1>8. ASSUME NEW k \in todo, Remap(k) PROVE Foretold'
  <2>1. phase = "remap" /\ UNCHANGED <<db, phase, report>> /\ SameModels(tx, tx') /\ SameCreds(tx, tx')
    BY <1>8, RemapDoes
  <2>2. SameTokens(tx, tx')
    BY <2>1, CredsStay DEF SameCreds
  <2> QED
    BY <2>1, <2>2, ForetoldInside DEF InTx, Early, SameModels
<1>9. CASE Bind
  <2>1. /\ phase = "remap" /\ phase' = "dedupe" /\ UNCHANGED <<db, report>>
        /\ SameModels(tx, tx') /\ SameCreds(tx, tx')
    BY <1>9, BindDoes
  <2>2. SameTokens(tx, tx')
    BY <2>1, CredsStay DEF SameCreds
  <2> QED
    BY <2>1, <2>2, ForetoldInside DEF InTx, Early, SameModels
<1>10. CASE MergeRAPI
  BY <1>10, MergeRAPIForetold
<1>11. CASE RAPIsMerged
  <2>1. /\ phase \in {"dedupe", "dedupe again"} /\ UNCHANGED <<db, tx, report>>
        /\ phase' = IF phase = "dedupe" THEN "platforms" ELSE "finish"
    BY <1>11 DEF RAPIsMerged
  <2>2. SameTokens(tx, tx')
    BY <2>1, CredsStay
  <2> QED
    BY <2>1, <2>2, ForetoldInside DEF InTx, Early
<1>12. CASE Normalise
  BY <1>12, NormaliseForetold
<1>13. ASSUME NEW p \in DOMAIN tx.platforms, MergePlatform(p) PROVE Foretold'
  BY <1>13, MergePlatformForetold
<1>14. CASE PlatformsMerged
  <2>1. phase = "merge" /\ phase' = "dedupe again" /\ UNCHANGED <<db, tx, report>>
    BY <1>14 DEF PlatformsMerged
  <2>2. SameTokens(tx, tx')
    BY <2>1, CredsStay
  <2> QED
    BY <2>1, <2>2, ForetoldInside DEF InTx, Early
<1>15. CASE Rebuild
  BY <1>15, RebuildForetold
<1>16. CASE CleanUp
  <2>1. phase' = "up" /\ UNCHANGED report
    BY <1>16, CleanUpDoes
  <2> QED
    BY <1>0, <2>1, ForetoldOutside DEF InTx
<1>17. CASE Crash
  <2>1. phase' = "off" /\ UNCHANGED report
    BY <1>17 DEF Crash
  <2> QED
    BY <1>0, <2>1, ForetoldOutside DEF InTx
<1>18. ASSUME NEW c \in DOMAIN db.creds, DeleteKey(c) PROVE Foretold'
  <2>1. phase' = "up" /\ UNCHANGED report
    BY <1>18, DeleteKeyDoes
  <2> QED
    BY <1>0, <2>1, ForetoldOutside DEF InTx
<1>19. ASSUME NEW t \in AddedTokens \cup {NoToken}, Downgrade(t) PROVE Foretold'
  <2>1. phase' = "off" /\ UNCHANGED report
    BY <1>19, DowngradeDoes
  <2> QED
    BY <1>0, <2>1, ForetoldOutside DEF InTx
<1>20. CASE UNCHANGED upgradeVars
  BY <1>20 DEF upgradeVars, Foretold, Seen, PreviewTruthful, Migrated, First
<1> QED
  BY <1>1, <1>2, <1>3, <1>4, <1>5, <1>6, <1>7, <1>8, <1>9, <1>10, <1>11, <1>12, <1>13, <1>14,
     <1>15, <1>16, <1>17, <1>18, <1>19, <1>20 DEF UpgradeNext

\* Initially.
LEMMA ForetoldInit == UpgradeInit => Foretold
BY DEF UpgradeInit, Foretold, IsReport, NoReport, InTx, PreviewTruthful, Migrated

\* The dry run tells what the first migration does.
THEOREM PreviewsAreTruthful == UpgradeSpec => []PreviewTruthful
<1>1. UpgradeInit => Sane /\ OnlyClash /\ Foretold
  BY SaneInit, OnlyClashInit, ForetoldInit
<1>2. Sane /\ OnlyClash /\ Foretold /\ [UpgradeNext]_upgradeVars => (Sane /\ OnlyClash /\ Foretold)'
  BY SaneNext, OnlyClashNext, ForetoldNext
<1>3. Foretold => PreviewTruthful
  BY DEF Foretold
<1> QED
  BY <1>1, <1>2, <1>3, PTL DEF UpgradeSpec

----------------------------------------------------------------------------
(* Nothing is lost: a model keeps its name, its place on the route, its traffic.*)

\* The models of d that e still has are the models they were, the route leads to
\* the same ones, and each has the traffic it had.
Follow(d, e) ==
  /\ \A r \in DOMAIN e.rapis : r \in DOMAIN d.rapis /\ Endpoint(e, r) = Endpoint(d, r)
  /\ {Endpoint(e, r) : r \in e.chain} = {Endpoint(d, r) : r \in d.chain}
  /\ \A a : TrafficOf(e, a) = TrafficOf(d, a)

\* One after the other.
LEMMA FollowTwice ==
  ASSUME NEW d, NEW e, NEW f, Follow(d, e), Follow(e, f)
  PROVE  Follow(d, f)
BY DEF Follow

\* A model is named by its platform's URL and by its own name.
LEMMA EndpointSame ==
  ASSUME NEW d, NEW e, NEW r, e.rapis[r].platform = d.rapis[r].platform,
         e.rapis[r].model = d.rapis[r].model, DOMAIN e.platforms = DOMAIN d.platforms,
         \A p \in DOMAIN d.platforms : e.platforms[p].url = d.platforms[p].url
  PROVE  Endpoint(e, r) = Endpoint(d, r)
BY DEF Endpoint

\* The traffic of a model is a sum.
LEMMA TrafficIs ==
  ASSUME NEW d, NEW a
  PROVE  TrafficOf(d, a) = SumOn(d.traffic, {r \in DOMAIN d.traffic : Endpoint(d, r) = a})
BY DEF TrafficOf, SumOn

\* Models that keep their names, and rows that are left alone.
LEMMA FollowSame ==
  ASSUME NEW d, NEW e, WellTyped(d), DOMAIN e.rapis = DOMAIN d.rapis,
         e.chain = d.chain, e.traffic = d.traffic,
         \A r \in DOMAIN d.rapis : Endpoint(e, r) = Endpoint(d, r)
  PROVE  Follow(d, e)
<1>1. d.chain \subseteq DOMAIN d.rapis /\ DOMAIN d.traffic \subseteq DOMAIN d.rapis
  BY DEF WellTyped
<1>2. {Endpoint(e, r) : r \in e.chain} = {Endpoint(d, r) : r \in d.chain}
  BY <1>1
<1>3. ASSUME NEW a PROVE TrafficOf(e, a) = TrafficOf(d, a)
  <2>1. {r \in DOMAIN e.traffic : Endpoint(e, r) = a} = {r \in DOMAIN d.traffic : Endpoint(d, r) = a}
    BY <1>1
  <2> QED
    BY <2>1, TrafficIs
<1> QED
  BY <1>2, <1>3 DEF Follow

\* Models and platforms that stay as they are.
LEMMA FollowSameModels ==
  ASSUME NEW d, NEW e, WellTyped(d), SameModels(d, e), e.chain = d.chain, e.traffic = d.traffic
  PROVE  Follow(d, e)
<1>1. \A r \in DOMAIN d.rapis : Endpoint(e, r) = Endpoint(d, r)
  BY EndpointSame DEF SameModels
<1> QED
  BY <1>1, FollowSame DEF SameModels

\* A platform goes into the first of its URL.
LEMMA FollowPlatform ==
  ASSUME NEW e, Shape(e), NEW p \in DOMAIN e.platforms, NEW keep, keep = Canonical(e, p),
         keep # p, NEW f, f = MergedPlatform(e, p, keep)
  PROVE  Follow(e, f)
<1>1. e \in Databases /\ WellTyped(e)
  BY DEF Shape
<1>2. /\ keep \in DOMAIN e.platforms /\ keep \in Nat
      /\ e.platforms[keep].url = e.platforms[p].url /\ e.platforms[p].url # NoURL
  BY <1>1, CanonicalIs
<1>3. /\ SameRefs(e, f) /\ DOMAIN f.platforms = DOMAIN e.platforms \ {p}
      /\ \A q \in DOMAIN e.platforms : q # p => f.platforms[q] = e.platforms[q]
      /\ DOMAIN f.rapis = DOMAIN e.rapis
      /\ \A r \in DOMAIN e.rapis :
           /\ f.rapis[r].platform = (IF e.rapis[r].platform = p THEN keep ELSE e.rapis[r].platform)
           /\ f.rapis[r].model = e.rapis[r].model
  BY <1>1, <1>2, MergedPlatformIs
<1>4. ASSUME NEW r \in DOMAIN e.rapis PROVE Endpoint(f, r) = Endpoint(e, r)
  <2>1. CASE e.rapis[r].platform = p
    BY <1>2, <1>3, <2>1 DEF Endpoint
  <2>2. CASE e.rapis[r].platform # p
    BY <1>3, <2>2 DEF Endpoint
  <2> QED
    BY <2>1, <2>2
<1> QED
  BY <1>1, <1>3, <1>4, FollowSame DEF SameRefs

\* Two members, or the one of them that is there, split off a sum.
LEMMA SumOfTwo ==
  ASSUME NEW g, NEW S, IsFiniteSet(S), \A r \in S : g[r] \in Nat, NEW x, NEW y \in S, x # y
  PROVE  SumOn(g, S) = (IF x \in S THEN g[x] + g[y] ELSE g[y]) + SumOn(g, S \ {x, y})
<1> DEFINE T == S \ {y}
           U == S \ {x, y}
<1>1. SumOn(g, S) = g[y] + SumOn(g, T) /\ g[y] \in Nat
  BY SumSplits
<1>2. IsFiniteSet(T) /\ (\A r \in T : g[r] \in Nat) /\ IsFiniteSet(U) /\ (\A r \in U : g[r] \in Nat)
  BY FS_Subset
<1>3. SumOn(g, U) \in Nat
  <2> HIDE DEF U
  <2> QED
    BY <1>2, SumIsNumber
<1>4. CASE x \in S
  <2>1. x \in T /\ T \ {x} = U /\ g[x] \in Nat
    BY <1>4
  <2> HIDE DEF T, U
  <2>2. SumOn(g, T) = g[x] + SumOn(g, T \ {x})
    BY <1>2, <2>1, SumSplits
  <2>3. SumOn(g, T) = g[x] + SumOn(g, U)
    BY <2>1, <2>2
  <2>4. SumOn(g, S) = g[x] + g[y] + SumOn(g, U)
    BY <1>1, <1>3, <2>1, <2>3
  <2> QED
    BY <1>4, <2>4 DEF U
<1>5. CASE x \notin S
  <2>1. T = U
    BY <1>5
  <2> HIDE DEF T, U
  <2>2. SumOn(g, S) = g[y] + SumOn(g, U)
    BY <1>1, <2>1
  <2> QED
    BY <1>5, <2>2 DEF U
<1> QED
  BY <1>4, <1>5

\* The statistics of a duplicate go to the model that is kept.
LEMMA TrafficMoves ==
  ASSUME NEW e, Shape(e), NEW keep \in DOMAIN e.rapis, NEW dup \in DOMAIN e.rapis, keep # dup,
         Endpoint(e, keep) = Endpoint(e, dup), NEW f, RefsMerged(e, keep, dup, f),
         \A r \in DOMAIN e.rapis : r # dup => Endpoint(f, r) = Endpoint(e, r), NEW a
  PROVE  TrafficOf(f, a) = TrafficOf(e, a)
<1> DEFINE T == e.traffic
           U == f.traffic
           S == {r \in DOMAIN T : Endpoint(e, r) = a}
           V == {r \in DOMAIN U : Endpoint(f, r) = a}
           both == {keep, dup}
<1>1. /\ DOMAIN T \subseteq DOMAIN e.rapis /\ IsFiniteSet(DOMAIN T) /\ \A r \in DOMAIN T : T[r] \in Nat
  <2>1. e.traffic \in Tables(Nat) /\ DOMAIN e.traffic \subseteq DOMAIN e.rapis
    BY Fields DEF Shape, WellTyped
  <2> QED
    BY <2>1, RowsOfTable
<1>2. TrafficOf(e, a) = SumOn(T, S) /\ TrafficOf(f, a) = SumOn(U, V)
  BY TrafficIs
<1>3. CASE dup \notin DOMAIN T
  <2>1. U = T
    BY <1>3 DEF RefsMerged
  <2>2. V = S
    BY <1>1, <1>3, <2>1
  <2> QED
    BY <1>2, <2>1, <2>2
<1>4. CASE dup \in DOMAIN T
  <2>1. /\ DOMAIN U = (DOMAIN T \ {dup}) \cup {keep}
        /\ \A r \in DOMAIN T : r # dup /\ r # keep => U[r] = T[r]
        /\ U[keep] = SumOn(T, both \cap DOMAIN T)
    BY <1>4 DEF RefsMerged
  <2>2. Endpoint(f, keep) = Endpoint(e, keep)
    OBVIOUS
  <2>3. S \ both = V \ both /\ S \subseteq DOMAIN T /\ (\A r \in S \ both : U[r] = T[r])
    BY <1>1, <2>1
  <2>4. IsFiniteSet(S) /\ (\A r \in S : T[r] \in Nat) /\ IsFiniteSet(S \ both)
        /\ (\A r \in S \ both : T[r] \in Nat)
    BY <1>1, <2>3, FS_Subset
  <2>5. SumOn(T, S \ both) = SumOn(U, S \ both)
    <3> DEFINE R == S \ both
    <3>1. IsFiniteSet(R) /\ \A r \in R : T[r] = U[r]
      BY <2>3, <2>4
    <3> HIDE DEF R, T, U
    <3>2. SumOn(T, R) = SumOn(U, R)
      BY <3>1, SumAgrees
    <3> QED
      BY <3>2 DEF R
  <2>6. CASE Endpoint(e, dup) # a
    <3>1. S \ both = S /\ V \ both = V
      BY <1>4, <2>1, <2>2, <2>6
    <3> QED
      BY <1>2, <2>3, <2>5, <3>1
  <2>7. CASE Endpoint(e, dup) = a
    <3> DEFINE R == both \cap DOMAIN T
               two == IF keep \in DOMAIN T THEN T[keep] + T[dup] ELSE T[dup]
    <3>1. dup \in S /\ keep \in V /\ V \ {keep} = S \ both /\ (keep \in S <=> keep \in DOMAIN T)
      BY <1>1, <1>4, <2>1, <2>2, <2>3, <2>7
    <3>2. SumOn(T, S) = two + SumOn(T, S \ both)
      <4>1. IsFiniteSet(S) /\ (\A r \in S : T[r] \in Nat) /\ dup \in S
        BY <2>4, <3>1
      <4> HIDE DEF S, T
      <4>2. SumOn(T, S) = (IF keep \in S THEN T[keep] + T[dup] ELSE T[dup]) + SumOn(T, S \ {keep, dup})
        BY <4>1, SumOfTwo
      <4> QED
        BY <3>1, <4>2
    <3>3. U[keep] = two /\ U[keep] \in Nat
      <4>1. /\ U[keep] = SumOn(T, R) /\ dup \in R /\ R \ {keep, dup} = {}
            /\ (keep \in R <=> keep \in DOMAIN T)
        BY <1>4, <2>1
      <4>2. IsFiniteSet(R) /\ \A r \in R : T[r] \in Nat
        BY <1>1, FS_Subset
      <4>3. two \in Nat
        BY <1>1, <1>4
      <4> DEFINE none == R \ {keep, dup}
      <4>4. none = {}
        BY <4>1
      <4> HIDE DEF R, T
      <4>5. SumOn(T, R) = (IF keep \in R THEN T[keep] + T[dup] ELSE T[dup]) + SumOn(T, none)
        BY <4>1, <4>2, SumOfTwo
      <4> HIDE DEF none
      <4>6. SumOn(T, none) = 0
        BY <4>4, SumOfNone
      <4> QED
        BY <4>1, <4>3, <4>5, <4>6
    <3>4. SumOn(U, V) = U[keep] + SumOn(U, V \ {keep})
      <4>1. IsFiniteSet(V)
        <5>1. IsFiniteSet(DOMAIN T \cup {keep}) /\ V \subseteq DOMAIN T \cup {keep}
          BY <1>1, <2>1, FS_AddElement
        <5> QED
          BY <5>1, FS_Subset
      <4>2. \A r \in V : U[r] \in Nat
        BY <1>1, <2>1, <3>3
      <4> HIDE DEF V, U
      <4> QED
        BY <3>1, <4>1, <4>2, SumSplits
    <3> HIDE DEF S, V, T, U, both, two
    <3>5. SumOn(U, V) = U[keep] + SumOn(T, S \ both)
      BY <2>5, <3>1, <3>4
    <3> QED
      BY <1>2, <3>2, <3>3, <3>5
  <2> QED
    BY <2>6, <2>7
<1> QED
  BY <1>3, <1>4

\* A duplicate goes where its first model is.
LEMMA FollowRAPI ==
  ASSUME NEW e, Shape(e), NEW keep \in DOMAIN e.rapis, NEW dup \in DOMAIN e.rapis, keep # dup,
         e.rapis[keep].platform = e.rapis[dup].platform,
         e.rapis[keep].model = e.rapis[dup].model, e.rapis[dup].model # NoModel,
         NEW f, f = MergedRAPI(e, keep, dup)
  PROVE  Follow(e, f) /\ Endpoint(e, keep) = Endpoint(e, dup)
<1>1. /\ f.platforms = e.platforms /\ DOMAIN f.rapis = DOMAIN e.rapis \ {dup}
      /\ \A r \in DOMAIN e.rapis : r # dup => f.rapis[r] = e.rapis[r]
      /\ RefsMerged(e, keep, dup, f)
  BY MergedRAPIIs
<1>2. Endpoint(e, keep) = Endpoint(e, dup)
  BY DEF Endpoint
<1>3. \A r \in DOMAIN e.rapis : r # dup => Endpoint(f, r) = Endpoint(e, r)
  BY <1>1, EndpointSame
<1>4. \A a : TrafficOf(f, a) = TrafficOf(e, a)
  BY <1>1, <1>2, <1>3, TrafficMoves
<1>5. {Endpoint(f, r) : r \in f.chain} = {Endpoint(e, r) : r \in e.chain}
  <2>1. e.chain \subseteq DOMAIN e.rapis /\ f.chain = {IF r = dup THEN keep ELSE r : r \in e.chain}
    BY <1>1 DEF Shape, WellTyped, RefsMerged
  <2>2. ASSUME NEW r \in e.chain PROVE \E q \in f.chain : Endpoint(f, q) = Endpoint(e, r)
    <3> DEFINE q == IF r = dup THEN keep ELSE r
    <3>1. q \in f.chain /\ Endpoint(f, q) = Endpoint(e, r)
      BY <1>2, <1>3, <2>1
    <3> HIDE DEF q
    <3> QED
      BY <3>1
  <2>3. ASSUME NEW q \in f.chain PROVE \E r \in e.chain : Endpoint(f, q) = Endpoint(e, r)
    <3>1. PICK r \in e.chain : q = IF r = dup THEN keep ELSE r
      BY <2>1
    <3> QED
      BY <1>2, <1>3, <2>1, <3>1
  <2> QED
    BY <2>2, <2>3
<1> QED
  BY <1>1, <1>2, <1>3, <1>4, <1>5 DEF Follow

----------------------------------------------------------------------------
(* What is blocked and what is listed.                                     *)

\* The tokens of the credentials stay, and those of the rows seen have one.
KeptTokens(d, e, seen) ==
  /\ Tokens(d.creds) \subseteq Tokens(e.creds)
  /\ ~Residue(d) =>
       \A k \in seen : d.keys[k].token # NoToken => d.keys[k].token \in Tokens(e.creds)

\* Where the rows seen have gone, and the platform of what they have become.
FirstIds(d, e, ids, seen) ==
  /\ DOMAIN ids = seen
  /\ \A k \in seen : ids[k] = IF k \in Repeats(d) THEN FirstWith(d.keys, k) ELSE k
  /\ \A c \in DOMAIN e.creds : e.creds[c].platform = d.keys[c].platform

\* What is blocked in e, by the tokens and the models of d.
BlockedAs(d, e) ==
  {<<d.keys[b[1]].token, Endpoint(d, b[2])>> :
     b \in {x \in e.blocks : x[1] \in DOMAIN d.keys /\ x[2] \in DOMAIN e.rapis}}

\* Blocks are of credentials, or of rows that are still to be re-pointed.
BlocksOf(d, e, more) == \A b \in e.blocks : b[1] \in DOMAIN d.keys => b[1] \in more \cup DOMAIN e.creds

\* The tokens that the list of a model stood for.
ListedIn(d, r) ==
  {d.keys[k].token :
     k \in {j \in DOMAIN d.keys :
              IF d.rapis[r].keyIDs = {} THEN d.keys[j].platform = d.rapis[r].platform
              ELSE j \in d.rapis[r].keyIDs}}

\* The bindings of e are those that the lists of d stood for.
ListsBind(d, e) ==
  /\ \A b \in e.bound : b[2] \in DOMAIN e.creds =>
       \E q \in DOMAIN d.rapis : Endpoint(d, q) = Endpoint(e, b[1]) /\ Token(e, b[2]) \in ListedIn(d, q)
  /\ \A r \in DOMAIN d.rapis : \A k \in d.rapis[r].keyIDs : k \in DOMAIN d.keys =>
       \E b \in e.bound : /\ b[2] \in DOMAIN e.creds /\ Token(e, b[2]) = d.keys[k].token
                          /\ Endpoint(e, b[1]) = Endpoint(d, r)

\* Where there are bindings, the lists are made of them.
Projection(d) ==
  d.bound # {} =>
    \A r \in DOMAIN d.rapis : d.rapis[r].keyIDs = {b[2] : b \in {x \in d.bound : x[1] = r}}

\* The fifth part: what is to be kept is there, in the tables of tx.
Kept ==
  /\ Projection(db)
  /\ phase \in {"keys", "backfill", "alias", "inspect"} => DOMAIN idOf = {}
  /\ phase \in InTx => Follow(db, tx) /\ KeptTokens(db, tx, Seen)
  /\ phase \in InTx /\ db.creds = <<>> =>
       /\ BlockedAs(db, tx) = Blocked(db.keys, db)
       /\ phase \in {"move", "remap"} =>
            FirstIds(db, tx, idOf, Seen) /\ tx.rapis = db.rapis /\ tx.bound = db.bound
       /\ phase = "remap" => BlocksOf(db, tx, todo)
       /\ phase \in KeysGone => BlocksOf(db, tx, {}) /\ ListsBind(db, tx)
  /\ NothingLost

\* The tokens of a table of credentials.
LEMMA TokensAre ==
  ASSUME NEW d, NEW t
  PROVE  t \in Tokens(d.creds) <=> t # NoToken /\ \E c \in DOMAIN d.creds : Token(d, c) = t
BY DEF Tokens, Token

\* Credentials that keep their tokens.
LEMMA TokensSame ==
  ASSUME NEW d, NEW e, SameTokens(d, e)
  PROVE  Tokens(e.creds) = Tokens(d.creds)
BY DEF SameTokens, Tokens, Token

\* The blocks and the bindings of models and credentials that stay.
LEMMA KeysFollow ==
  ASSUME NEW d, NEW e, WellTyped(e), NEW f, Follow(e, f), SameTokens(e, f),
         DOMAIN f.rapis = DOMAIN e.rapis, f.blocks = e.blocks, f.bound = e.bound
  PROVE  /\ BlockedAs(d, f) = BlockedAs(d, e)
         /\ \A more : BlocksOf(d, e, more) => BlocksOf(d, f, more)
         /\ ListsBind(d, e) => ListsBind(d, f)
<1>1. BlockedAs(d, f) = BlockedAs(d, e)
  BY DEF BlockedAs
<1>2. \A more : BlocksOf(d, e, more) => BlocksOf(d, f, more)
  BY DEF BlocksOf, SameTokens
<1>3. \A b \in e.bound : b[1] \in DOMAIN e.rapis
  BY DEF WellTyped
<1>4. ListsBind(d, e) => ListsBind(d, f)
  BY <1>3 DEF ListsBind, SameTokens, Follow
<1> QED
  BY <1>1, <1>2, <1>4

\* What refers to a duplicate.
LEMMA RAPIKeysFollow ==
  ASSUME NEW d, NEW e, Shape(e), NEW keep \in DOMAIN e.rapis, NEW dup \in DOMAIN e.rapis, keep # dup,
         e.rapis[keep].platform = e.rapis[dup].platform,
         e.rapis[keep].model = e.rapis[dup].model, e.rapis[dup].model # NoModel,
         NEW f, f = MergedRAPI(e, keep, dup), Follow(d, e)
  PROVE  /\ BlockedAs(d, f) = BlockedAs(d, e)
         /\ BlocksOf(d, e, {}) => BlocksOf(d, f, {})
         /\ ListsBind(d, e) => ListsBind(d, f)
<1>1. /\ DOMAIN f.rapis = DOMAIN e.rapis \ {dup} /\ SameCreds(e, f)
      /\ RefsMerged(e, keep, dup, f)
  BY MergedRAPIIs
<1>2. Follow(e, f) /\ Endpoint(e, keep) = Endpoint(e, dup)
  BY FollowRAPI
<1>3. /\ e.bound \subseteq Nat \X Nat /\ e.blocks \subseteq Nat \X Nat /\ keep \in Nat /\ dup \in Nat
      /\ \A b \in e.bound : b[1] \in DOMAIN e.rapis
  <2>1. e \in Databases
    BY DEF Shape
  <2>2. e.rapis \in Tables(RAPIRows) /\ e.bound \subseteq Nat \X Nat /\ e.blocks \subseteq Nat \X Nat
    BY <2>1, Fields
  <2>3. DOMAIN e.rapis \subseteq Nat
    BY <2>2, RowsOfTable
  <2> QED
    BY <2>2, <2>3 DEF Shape, WellTyped
<1> DEFINE L == e.blocks
           M == f.blocks
           B == e.bound
           C == f.bound
<1>4. /\ \A b \in L : <<b[1], IF b[2] = dup THEN keep ELSE b[2]>> \in M
      /\ \A c \in M : \E b \in L : c[1] = b[1] /\ c[2] = (IF b[2] = dup THEN keep ELSE b[2])
  <2>1. L \subseteq Nat \X Nat /\ M = RePointed(L, 2, dup, keep)
    BY <1>1, <1>3 DEF RefsMerged
  <2> HIDE DEF L, M
  <2> QED
    BY <1>3, <2>1, RePointedSecond
<1>5. /\ \A b \in B : <<IF b[1] = dup THEN keep ELSE b[1], b[2]>> \in C
      /\ \A c \in C : \E b \in B : c[1] = (IF b[1] = dup THEN keep ELSE b[1]) /\ c[2] = b[2]
  <2>1. B \subseteq Nat \X Nat /\ C = RePointed(B, 1, dup, keep)
    BY <1>1, <1>3 DEF RefsMerged
  <2> HIDE DEF B, C
  <2> QED
    BY <1>3, <2>1, RePointedFirst
<1>6. Endpoint(d, keep) = Endpoint(d, dup)
  BY <1>2 DEF Follow
<1>7. BlockedAs(d, f) = BlockedAs(d, e)
  <2> DEFINE In(b) == b[1] \in DOMAIN d.keys /\ b[2] \in DOMAIN e.rapis
             Out(c) == c[1] \in DOMAIN d.keys /\ c[2] \in DOMAIN f.rapis
             V(b) == <<d.keys[b[1]].token, Endpoint(d, b[2])>>
  <2>1. BlockedAs(d, e) = {V(b) : b \in {x \in L : In(x)}}
        /\ BlockedAs(d, f) = {V(b) : b \in {x \in M : Out(x)}}
    BY DEF BlockedAs
  <2>2. ASSUME NEW b \in L, In(b) PROVE \E c \in M : Out(c) /\ V(c) = V(b)
    <3> DEFINE c == <<b[1], IF b[2] = dup THEN keep ELSE b[2]>>
    <3>1. c \in M
      BY <1>4
    <3>2. c[1] = b[1] /\ c[2] = (IF b[2] = dup THEN keep ELSE b[2])
      OBVIOUS
    <3> HIDE DEF c
    <3>3. Out(c) /\ V(c) = V(b)
      BY <1>1, <1>6, <2>2, <3>2
    <3> QED
      BY <3>1, <3>3
  <2>3. ASSUME NEW c \in M, Out(c) PROVE \E b \in L : In(b) /\ V(c) = V(b)
    <3>1. PICK b \in L : c[1] = b[1] /\ c[2] = (IF b[2] = dup THEN keep ELSE b[2])
      BY <1>4
    <3>2. In(b) /\ V(c) = V(b)
      BY <1>1, <1>6, <2>3, <3>1
    <3> QED
      BY <3>2
  <2> HIDE DEF In, Out, V, L, M
  <2> QED
    BY <2>1, <2>2, <2>3
<1>8. BlocksOf(d, e, {}) => BlocksOf(d, f, {})
  BY <1>1, <1>4 DEF BlocksOf, SameCreds
<1>9. ASSUME ListsBind(d, e) PROVE ListsBind(d, f)
  <2>1. DOMAIN f.creds = DOMAIN e.creds /\ \A c : Token(f, c) = Token(e, c)
    BY <1>1 DEF SameCreds, Token
  <2>2. ASSUME NEW c \in f.bound, c[2] \in DOMAIN f.creds
        PROVE  \E q \in DOMAIN d.rapis :
                 Endpoint(d, q) = Endpoint(f, c[1]) /\ Token(f, c[2]) \in ListedIn(d, q)
    <3>1. PICK b \in e.bound : c[1] = (IF b[1] = dup THEN keep ELSE b[1]) /\ c[2] = b[2]
      BY <1>5
    <3>2. Endpoint(f, c[1]) = Endpoint(e, b[1])
      BY <1>1, <1>2, <1>3, <3>1 DEF Follow
    <3> QED
      BY <1>9, <2>1, <2>2, <3>1, <3>2 DEF ListsBind
  <2>3. ASSUME NEW r \in DOMAIN d.rapis, NEW k \in d.rapis[r].keyIDs, k \in DOMAIN d.keys
        PROVE  \E c \in f.bound : /\ c[2] \in DOMAIN f.creds /\ Token(f, c[2]) = d.keys[k].token
                                  /\ Endpoint(f, c[1]) = Endpoint(d, r)
    <3>1. PICK b \in e.bound : /\ b[2] \in DOMAIN e.creds /\ Token(e, b[2]) = d.keys[k].token
                               /\ Endpoint(e, b[1]) = Endpoint(d, r)
      BY <1>9, <2>3 DEF ListsBind
    <3> DEFINE c == <<IF b[1] = dup THEN keep ELSE b[1], b[2]>>
    <3>2. c \in f.bound
      BY <1>5
    <3>3. c[1] = (IF b[1] = dup THEN keep ELSE b[1]) /\ c[2] = b[2]
      OBVIOUS
    <3> HIDE DEF c
    <3>4. Endpoint(f, c[1]) = Endpoint(e, b[1])
      BY <1>1, <1>2, <1>3, <3>1, <3>3 DEF Follow
    <3> QED
      BY <2>1, <3>1, <3>2, <3>3, <3>4
  <2> QED
    BY <2>2, <2>3 DEF ListsBind
<1> QED
  BY <1>7, <1>8, <1>9

\* The blocks of a row go to the row that has its token.
LEMMA RemapFollows ==
  ASSUME NEW d, NEW e, e.blocks \subseteq Nat \X Nat, NEW k \in Nat, NEW i \in Nat,
         k \in DOMAIN d.keys, i \in DOMAIN d.keys, d.keys[i].token = d.keys[k].token,
         i \in DOMAIN e.creds, NEW more, BlocksOf(d, e, more),
         NEW f, f.blocks = RePointed(e.blocks, 1, k, i), f.rapis = e.rapis, f.creds = e.creds
  PROVE  BlockedAs(d, f) = BlockedAs(d, e) /\ BlocksOf(d, f, more \ {k})
<1> DEFINE L == e.blocks
           M == f.blocks
<1>1. /\ \A b \in L : <<IF b[1] = k THEN i ELSE b[1], b[2]>> \in M
      /\ \A c \in M : \E b \in L : c[1] = (IF b[1] = k THEN i ELSE b[1]) /\ c[2] = b[2]
  <2>1. L \subseteq Nat \X Nat /\ M = RePointed(L, 1, k, i)
    OBVIOUS
  <2> HIDE DEF L, M
  <2> QED
    BY <2>1, RePointedFirst
<1>2. BlockedAs(d, f) = BlockedAs(d, e)
  <2> DEFINE In(b) == b[1] \in DOMAIN d.keys /\ b[2] \in DOMAIN e.rapis
             V(b) == <<d.keys[b[1]].token, Endpoint(d, b[2])>>
  <2>1. BlockedAs(d, e) = {V(b) : b \in {x \in L : In(x)}}
        /\ BlockedAs(d, f) = {V(b) : b \in {x \in M : In(x)}}
    BY DEF BlockedAs
  <2>2. ASSUME NEW b \in L, In(b) PROVE \E c \in M : In(c) /\ V(c) = V(b)
    <3> DEFINE c == <<IF b[1] = k THEN i ELSE b[1], b[2]>>
    <3>1. c \in M
      BY <1>1
    <3>2. c[1] = (IF b[1] = k THEN i ELSE b[1]) /\ c[2] = b[2]
      OBVIOUS
    <3> HIDE DEF c
    <3>3. In(c) /\ V(c) = V(b)
      BY <2>2, <3>2
    <3> QED
      BY <3>1, <3>3
  <2>3. ASSUME NEW c \in M, In(c) PROVE \E b \in L : In(b) /\ V(c) = V(b)
    <3>1. PICK b \in L : c[1] = (IF b[1] = k THEN i ELSE b[1]) /\ c[2] = b[2]
      BY <1>1
    <3>2. In(b) /\ V(c) = V(b)
      BY <2>3, <3>1
    <3> QED
      BY <3>2
  <2> HIDE DEF In, V, L, M
  <2> QED
    BY <2>1, <2>2, <2>3
<1>3. BlocksOf(d, f, more \ {k})
  BY <1>1 DEF BlocksOf
<1> QED
  BY <1>2, <1>3

----------------------------------------------------------------------------
(* The invariant, step by step.                                            *)

\* A step of the transaction after the keys are moved.
LEMMA KeptInside ==
  ASSUME Kept, phase \in KeysGone, phase' \in KeysGone, UNCHANGED db, Follow(tx, tx'),
         SameTokens(tx, tx'), BlockedAs(db, tx') = BlockedAs(db, tx),
         BlocksOf(db, tx, {}) => BlocksOf(db, tx', {}), ListsBind(db, tx) => ListsBind(db, tx')
  PROVE  Kept'
<1>1. /\ phase \in InTx /\ phase' \in InTx /\ phase # "move"
      /\ phase' \notin {"move", "remap", "clean", "keys", "backfill", "alias", "inspect"}
  BY DEF KeysGone, InTx
<1>2. Seen' = Seen
  BY <1>1 DEF Seen
<1>3. Follow(db, tx')
  BY <1>1, FollowTwice DEF Kept
<1>4. KeptTokens(db, tx', Seen)
  BY <1>1, TokensSame DEF Kept, KeptTokens
<1>5. NothingLost'
  BY <1>1 DEF NothingLost, Migrated
<1>6. db.creds = <<>> =>
        /\ BlockedAs(db, tx') = Blocked(db.keys, db) /\ BlocksOf(db, tx', {}) /\ ListsBind(db, tx')
  BY <1>1 DEF Kept
<1>7. Projection(db)
  BY DEF Kept
<1> QED
  BY <1>1, <1>2, <1>3, <1>4, <1>5, <1>6, <1>7 DEF Kept

\* A step before, around or after the transaction.
LEMMA KeptOutside ==
  ASSUME phase' \notin InTx, phase' # "clean", Projection(db'),
         phase' \in {"keys", "backfill", "alias", "inspect"} => DOMAIN idOf' = {}
  PROVE  Kept'
<1>1. NothingLost'
  BY DEF NothingLost, Migrated
<1> QED
  BY <1>1 DEF Kept

\* The lists of models that stay are made of bindings that stay.
LEMMA ProjectionSame ==
  ASSUME NEW d, NEW e, Projection(d), e.rapis = d.rapis, e.bound = d.bound
  PROVE  Projection(e)
BY DEF Projection

\* The bindings of models that are there do not change with the others.
LEMMA ProjectionRestricted ==
  ASSUME NEW d, NEW e, Projection(d), DOMAIN e.rapis \subseteq DOMAIN d.rapis,
         \A r \in DOMAIN e.rapis : e.rapis[r] = d.rapis[r],
         e.bound = {b \in d.bound : b[1] \in DOMAIN e.rapis}
  PROVE  Projection(e)
<1>1. ASSUME NEW r \in DOMAIN e.rapis
      PROVE  {b[2] : b \in {x \in e.bound : x[1] = r}} = {b[2] : b \in {x \in d.bound : x[1] = r}}
  OBVIOUS
<1> QED
  BY <1>1 DEF Projection

\* The transaction begins.
LEMMA InspectKept == Sane /\ Kept /\ Inspect => Kept'
<1> SUFFICES ASSUME Sane, Kept, Inspect PROVE Kept'
  OBVIOUS
<1>1. /\ phase = "inspect" /\ UNCHANGED <<db, idOf>>
      /\ \/ phase' = "clean" /\ UNCHANGED before
         \/ /\ SameModels(db, tx') /\ tx'.creds = db.creds /\ SameRefs(db, tx')
            /\ \/ db.keyTable /\ ~Residue(db) /\ phase' = "move" /\ todo' = DOMAIN db.keys
               \/ (~db.keyTable \/ Residue(db)) /\ phase' = "dedupe"
  BY InspectDoes
<1>2. before = NoDb /\ Shape(db) /\ Projection(db) /\ DOMAIN idOf = {}
  BY <1>1 DEF Sane, Kept
<1>3. CASE phase' = "clean" /\ UNCHANGED before
  <2>1. NothingLost'
    BY <1>2, <1>3 DEF NothingLost, Migrated
  <2> QED
    BY <1>1, <1>2, <1>3, <2>1 DEF Kept, InTx
<1>4. CASE /\ SameModels(db, tx') /\ tx'.creds = db.creds /\ SameRefs(db, tx')
           /\ \/ db.keyTable /\ ~Residue(db) /\ phase' = "move" /\ todo' = DOMAIN db.keys
              \/ (~db.keyTable \/ Residue(db)) /\ phase' = "dedupe"
  <2>1. Follow(db, tx')
    BY <1>2, <1>4, FollowSameModels DEF Shape, SameRefs
  <2>2. NothingLost'
    BY <1>4 DEF NothingLost, Migrated
  <2>3. phase' # "remap" /\ phase' \notin {"keys", "backfill", "alias", "inspect"}
    BY <1>4
  <2>4. db.creds = <<>> => ~Residue(db)
    BY DEF Residue
  <2>5. BlockedAs(db, tx') = Blocked(db.keys, db)
    BY <1>4 DEF BlockedAs, Blocked, SameModels, SameRefs
  <2>6. CASE phase' = "move" /\ todo' = DOMAIN db.keys
    <3>1. Seen' = {}
      BY <1>1, <2>6 DEF Seen
    <3>2. KeptTokens(db, tx', {})
      BY <1>4 DEF KeptTokens
    <3>3. db.creds = <<>> => FirstIds(db, tx', idOf, {}) /\ tx'.rapis = db.rapis /\ tx'.bound = db.bound
      <4>1. db.creds = <<>> => DOMAIN tx'.creds = {}
        BY <1>4, NoRows
      <4> QED
        BY <1>2, <1>4, <4>1 DEF FirstIds, SameModels, SameRefs
    <3> QED
      BY <1>1, <1>2, <2>1, <2>2, <2>3, <2>5, <2>6, <3>1, <3>2, <3>3 DEF Kept, KeysGone
  <2>7. CASE (~db.keyTable \/ Residue(db)) /\ phase' = "dedupe"
    <3>1. ~Residue(db) => DOMAIN db.keys = {}
      BY <1>2, <2>7 DEF Shape, WellTyped
    <3>2. Seen' = DOMAIN db.keys
      BY <1>1, <2>7 DEF Seen
    <3>3. KeptTokens(db, tx', DOMAIN db.keys)
      BY <1>4, <3>1 DEF KeptTokens
    <3>4. db.creds = <<>> => BlocksOf(db, tx', {}) /\ ListsBind(db, tx')
      <4>1. db.creds = <<>> => DOMAIN tx'.creds = {} /\ DOMAIN db.keys = {}
        BY <1>4, <2>4, <3>1, NoRows
      <4> QED
        BY <4>1 DEF BlocksOf, ListsBind
    <3> QED
      BY <1>1, <1>2, <2>1, <2>2, <2>3, <2>5, <2>7, <3>2, <3>3, <3>4 DEF Kept
  <2> QED
    BY <1>4, <2>6, <2>7
<1> QED
  BY <1>1, <1>3, <1>4

\* The row k has become the credential c, and has the id i.
LEMMA IdAdded ==
  ASSUME NEW d, NEW e, NEW f, NEW ids, NEW seen, FirstIds(d, e, ids, seen), NEW k, k \notin seen,
         NEW i, i = (IF k \in Repeats(d) THEN FirstWith(d.keys, k) ELSE k),
         \A c \in DOMAIN f.creds :
           (c \in DOMAIN e.creds /\ f.creds[c] = e.creds[c]) \/ f.creds[c].platform = d.keys[c].platform
  PROVE  FirstIds(d, f, With(ids, k, i), seen \cup {k})
<1> DEFINE new == With(ids, k, i)
<1>1. DOMAIN new = DOMAIN ids \cup {k} /\ new[k] = i /\ \A j \in DOMAIN ids : j # k => new[j] = ids[j]
  BY DEF With
<1> HIDE DEF new
<1> QED
  BY <1>1 DEF FirstIds, new

\* A row of platform_keys is known, or becomes a credential.
LEMMA MoveKeyKept == Sane /\ Foretold /\ Kept /\ MoveKey => Kept'
<1> SUFFICES ASSUME Sane, Foretold, Kept, MoveKey PROVE Kept'
  OBVIOUS
<1> DEFINE k == Min(todo)
           row == [platform |-> tx.keys[k].platform, token |-> tx.keys[k].token]
<1>1. /\ phase = "move" /\ phase' = "move" /\ UNCHANGED <<db, before, deleted, faults>>
      /\ k \in todo /\ k \in DOMAIN tx.keys /\ todo' = todo \ {k} /\ (\A j \in todo : k <= j)
      /\ SameModels(tx, tx') /\ SameRefs(tx, tx')
      /\ \/ \E c \in DOMAIN tx.creds :
              /\ tx.keys[k].token # NoToken /\ Token(tx, c) = tx.keys[k].token
              /\ \A a \in DOMAIN tx.creds : Token(tx, a) = tx.keys[k].token => c <= a
              /\ tx' = tx /\ idOf' = With(idOf, k, c)
         \/ \E id \in Nat :
              /\ \A c \in DOMAIN tx.creds :
                   tx.keys[k].token # NoToken => Token(tx, c) # tx.keys[k].token
              /\ id \notin DOMAIN tx.creds /\ (k \notin DOMAIN tx.creds => id = k)
              /\ tx'.creds = With(tx.creds, id, row)
              /\ idOf' = With(idOf, k, id)
  BY MoveKeyDoes
<1>2. /\ db \in Databases /\ tx \in Databases /\ WellTyped(tx) /\ tx.keys = db.keys
      /\ DOMAIN db.keys \subseteq Nat /\ todo \subseteq DOMAIN db.keys
  BY <1>1, Fields, RowsOfTable DEF Sane, Shape
<1>3. row.token = db.keys[k].token /\ row.platform = db.keys[k].platform
  BY <1>2
<1> HIDE DEF k, row
<1>4. Seen' = Seen \cup {k} /\ Seen \subseteq DOMAIN db.keys /\ k \notin Seen /\ k \in DOMAIN db.keys
  BY <1>1, <1>2 DEF Seen
<1>5. (\A j \in DOMAIN db.keys : j < k => j \in Seen) /\ (\A j \in Seen : j < k)
  BY <1>1, <1>2 DEF Seen, Foretold
<1>6. Follow(db, tx) /\ KeptTokens(db, tx, Seen) /\ Projection(db)
  BY <1>1 DEF Kept, InTx
<1>7. Follow(db, tx')
  <2>1. Follow(tx, tx')
    BY <1>1, <1>2, FollowSameModels DEF SameRefs
  <2> QED
    BY <1>6, <2>1, FollowTwice
<1>8. KeptTokens(db, tx', Seen')
  <2>1. CASE \E c \in DOMAIN tx.creds : Token(tx, c) = tx.keys[k].token /\ tx' = tx
    <3>1. db.keys[k].token # NoToken => db.keys[k].token \in Tokens(tx.creds)
      BY <1>2, <2>1, TokensAre
    <3> QED
      BY <1>4, <1>6, <2>1, <3>1 DEF KeptTokens
  <2>2. CASE \E id \in Nat : id \notin DOMAIN tx.creds /\ tx'.creds = With(tx.creds, id, row)
    <3>1. PICK id \in Nat : id \notin DOMAIN tx.creds /\ tx'.creds = With(tx.creds, id, row)
      BY <2>2
    <3>2. /\ DOMAIN tx'.creds = DOMAIN tx.creds \cup {id} /\ tx'.creds[id] = row
          /\ \A c \in DOMAIN tx.creds : tx'.creds[c] = tx.creds[c]
      BY <3>1 DEF With
    <3>3. Tokens(tx.creds) \subseteq Tokens(tx'.creds)
      BY <3>2 DEF Tokens
    <3>4. db.keys[k].token # NoToken => db.keys[k].token \in Tokens(tx'.creds)
      BY <1>3, <3>2 DEF Tokens
    <3> QED
      BY <1>4, <1>6, <3>3, <3>4 DEF KeptTokens
  <2> QED
    BY <1>1, <2>1, <2>2
<1>9. ASSUME db.creds = <<>> PROVE FirstIds(db, tx', idOf', Seen')
  <2>1. FirstMoved(db, tx, report, Seen) /\ FirstIds(db, tx, idOf, Seen)
    BY <1>1, <1>9 DEF Foretold, Kept, InTx
  <2>2. /\ k \notin DOMAIN tx.creds
        /\ \A c \in DOMAIN tx.creds :
              /\ db.keys[k].token # NoToken /\ Token(tx, c) = db.keys[k].token
              /\ \A a \in DOMAIN tx.creds : Token(tx, a) = db.keys[k].token => c <= a
              => c = FirstWith(db.keys, k) /\ k \in Repeats(db)
        /\ (\A c \in DOMAIN tx.creds :
               db.keys[k].token # NoToken => Token(tx, c) # db.keys[k].token) => k \notin Repeats(db)
    BY <1>2, <1>4, <1>5, <2>1, MoveKeyFirst
  <2>3. CASE \E c \in DOMAIN tx.creds :
              /\ tx.keys[k].token # NoToken /\ Token(tx, c) = tx.keys[k].token
              /\ \A a \in DOMAIN tx.creds : Token(tx, a) = tx.keys[k].token => c <= a
              /\ tx' = tx /\ idOf' = With(idOf, k, c)
    <3>1. PICK c \in DOMAIN tx.creds :
              /\ tx.keys[k].token # NoToken /\ Token(tx, c) = tx.keys[k].token
              /\ \A a \in DOMAIN tx.creds : Token(tx, a) = tx.keys[k].token => c <= a
              /\ tx' = tx /\ idOf' = With(idOf, k, c)
      BY <2>3
    <3>2. c = FirstWith(db.keys, k) /\ k \in Repeats(db)
      BY <1>2, <2>2, <3>1
    <3>3. FirstIds(db, tx, With(idOf, k, c), Seen \cup {k})
      BY <1>4, <2>1, <3>2, IdAdded
    <3> QED
      BY <1>4, <3>1, <3>3
  <2>4. CASE \E id \in Nat :
              /\ \A c \in DOMAIN tx.creds :
                   tx.keys[k].token # NoToken => Token(tx, c) # tx.keys[k].token
              /\ id \notin DOMAIN tx.creds /\ (k \notin DOMAIN tx.creds => id = k)
              /\ tx'.creds = With(tx.creds, id, row)
              /\ idOf' = With(idOf, k, id)
    <3>1. tx'.creds = With(tx.creds, k, row) /\ idOf' = With(idOf, k, k) /\ k \notin Repeats(db)
      BY <1>2, <2>2, <2>4
    <3>2. \A c \in DOMAIN tx'.creds : \/ c \in DOMAIN tx.creds /\ tx'.creds[c] = tx.creds[c]
                                      \/ tx'.creds[c].platform = db.keys[c].platform
      BY <1>3, <2>2, <3>1 DEF With
    <3>3. FirstIds(db, tx', With(idOf, k, k), Seen \cup {k})
      BY <1>4, <2>1, <3>1, <3>2, IdAdded
    <3> QED
      BY <1>4, <3>1, <3>3
  <2> QED
    BY <1>1, <2>3, <2>4
<1>10. ASSUME db.creds = <<>>
       PROVE  /\ BlockedAs(db, tx') = Blocked(db.keys, db)
              /\ tx'.rapis = db.rapis /\ tx'.bound = db.bound
  <2>1. /\ BlockedAs(db, tx) = Blocked(db.keys, db)
        /\ tx.rapis = db.rapis /\ tx.bound = db.bound
    BY <1>1, <1>10 DEF Kept, InTx
  <2> QED
    BY <1>1, <2>1 DEF BlockedAs, SameModels, SameRefs
<1>11. NothingLost'
  BY <1>1 DEF NothingLost, Migrated
<1>12. phase' \in InTx /\ phase' \notin KeysGone /\ phase' # "remap"
       /\ phase' \notin {"keys", "backfill", "alias", "inspect"}
  BY <1>1 DEF InTx, KeysGone
<1> QED
  BY <1>1, <1>6, <1>7, <1>8, <1>9, <1>10, <1>11, <1>12 DEF Kept

\* What is blocked is blocked for a row that is still to be re-pointed, or for a credential.
LEMMA KeysMovedKept == Sane /\ Foretold /\ Kept /\ KeysMoved => Kept'
<1> SUFFICES ASSUME Sane, Foretold, Kept, KeysMoved PROVE Kept'
  OBVIOUS
<1>1. /\ phase = "move" /\ todo = {} /\ phase' = "remap" /\ UNCHANGED <<db, tx, idOf, report>>
      /\ todo' = {k \in DOMAIN idOf : idOf[k] # k}
  BY DEF KeysMoved
<1>2. Seen' = Seen /\ Seen = DOMAIN db.keys
  BY <1>1 DEF Seen
<1>3. /\ phase \in InTx /\ phase' \in InTx /\ phase' \notin KeysGone
      /\ phase' \notin {"keys", "backfill", "alias", "inspect"}
  BY <1>1 DEF InTx, KeysGone
<1>4. NothingLost'
  BY <1>1 DEF NothingLost, Migrated
<1>5. ASSUME db.creds = <<>> PROVE BlocksOf(db, tx, todo')
  <2>1. FirstIds(db, tx, idOf, DOMAIN db.keys) /\ DOMAIN tx.creds = DOMAIN db.keys \ Repeats(db)
    BY <1>1, <1>2, <1>3, <1>5 DEF Kept, Foretold, FirstMoved
  <2>2. ASSUME NEW k \in DOMAIN db.keys, k \notin DOMAIN tx.creds PROVE k \in todo'
    <3>1. k \in Repeats(db)
      BY <2>1, <2>2
    <3> QED
      BY <1>1, <2>1, <3>1 DEF FirstIds, Repeats
  <2> QED
    BY <2>2 DEF BlocksOf
<1>6. /\ Projection(db) /\ Follow(db, tx) /\ KeptTokens(db, tx, Seen)
      /\ db.creds = <<>> =>
           /\ BlockedAs(db, tx) = Blocked(db.keys, db) /\ FirstIds(db, tx, idOf, Seen)
           /\ tx.rapis = db.rapis /\ tx.bound = db.bound
  BY <1>1, <1>3 DEF Kept
<1> QED
  BY <1>1, <1>2, <1>3, <1>4, <1>5, <1>6 DEF Kept

\* The blocks of a row are re-pointed.
LEMMA RemapKept ==
  ASSUME Sane, Foretold, Kept, NEW k \in todo, Remap(k)
  PROVE  Kept'
<1>1. /\ phase = "remap" /\ todo' = todo \ {k} /\ k \in DOMAIN idOf
      /\ UNCHANGED <<db, phase, idOf, report>>
      /\ SameModels(tx, tx') /\ SameCreds(tx, tx') /\ tx'.chain = tx.chain
      /\ tx'.traffic = tx.traffic /\ tx'.bound = tx.bound
      /\ tx'.blocks = RePointed(tx.blocks, 1, k, idOf[k])
  BY RemapDoes
<1>2. /\ db \in Databases /\ tx \in Databases /\ WellTyped(tx)
  BY DEF Sane, Shape
<1>3. /\ phase \in InTx /\ phase \notin KeysGone
      /\ phase \notin {"keys", "backfill", "alias", "inspect"}
  BY <1>1 DEF InTx, KeysGone
<1>4. Seen' = Seen /\ Seen = DOMAIN db.keys
  BY <1>1 DEF Seen
<1>5. /\ Projection(db) /\ Follow(db, tx) /\ KeptTokens(db, tx, Seen)
      /\ db.creds = <<>> =>
           /\ BlockedAs(db, tx) = Blocked(db.keys, db) /\ FirstIds(db, tx, idOf, Seen)
           /\ tx.rapis = db.rapis /\ tx.bound = db.bound /\ BlocksOf(db, tx, todo)
  BY <1>1, <1>3 DEF Kept
<1>6. Follow(db, tx')
  <2>1. Follow(tx, tx')
    BY <1>1, <1>2, FollowSameModels
  <2> QED
    BY <1>5, <2>1, FollowTwice
<1>7. KeptTokens(db, tx', Seen)
  BY <1>1, <1>5 DEF KeptTokens, SameCreds
<1>8. ASSUME db.creds = <<>>
      PROVE  /\ BlockedAs(db, tx') = Blocked(db.keys, db) /\ BlocksOf(db, tx', todo')
             /\ FirstIds(db, tx', idOf, Seen)
  <2> DEFINE i == idOf[k]
  <2>1. FirstIds(db, tx, idOf, DOMAIN db.keys) /\ DOMAIN tx.creds = DOMAIN db.keys \ Repeats(db)
    BY <1>3, <1>4, <1>5, <1>8 DEF Foretold, FirstMoved
  <2>2. /\ k \in DOMAIN db.keys /\ DOMAIN db.keys \subseteq Nat
        /\ i = IF k \in Repeats(db) THEN FirstWith(db.keys, k) ELSE k
    BY <1>1, <1>2, <2>1, Fields, RowsOfTable DEF FirstIds
  <2>3. i \in DOMAIN db.keys /\ db.keys[i].token = db.keys[k].token /\ i \in DOMAIN tx.creds
    BY <1>2, <2>1, <2>2, FirstWithIs
  <2>4. tx.blocks \subseteq Nat \X Nat /\ BlocksOf(db, tx, todo)
    BY <1>2, <1>5, <1>8, Fields
  <2>5. tx'.blocks = RePointed(tx.blocks, 1, k, i) /\ tx'.rapis = tx.rapis /\ tx'.creds = tx.creds
    BY <1>1 DEF SameModels, SameCreds
  <2> HIDE DEF i
  <2>6. k \in Nat /\ i \in Nat
    BY <2>2, <2>3
  <2>7. BlockedAs(db, tx') = BlockedAs(db, tx) /\ BlocksOf(db, tx', todo \ {k})
    BY <2>2, <2>3, <2>4, <2>5, <2>6, RemapFollows
  <2>8. FirstIds(db, tx', idOf, Seen)
    BY <1>5, <1>8, <2>5 DEF FirstIds
  <2> QED
    BY <1>1, <1>5, <1>8, <2>7, <2>8
<1>9. NothingLost'
  BY <1>1 DEF NothingLost, Migrated
<1> QED
  BY <1>1, <1>3, <1>4, <1>5, <1>6, <1>7, <1>8, <1>9 DEF Kept, SameModels

\* The credentials that the list of a model of d names.
ListNames(d, e, ids, r) ==
  IF d.rapis[r].keyIDs = {}
  THEN {c \in DOMAIN e.creds : e.creds[c].platform = d.rapis[r].platform}
  ELSE {IF k \in DOMAIN ids THEN ids[k] ELSE k : k \in d.rapis[r].keyIDs}

\* Between e and f the bindings are made of the lists of d.
BindingsMade(d, e, ids, f, made) ==
  /\ f.creds = e.creds /\ f.bound = d.bound \cup made
  /\ \A b \in made : b[1] \in DOMAIN d.rapis /\ b = <<b[1], b[2]>>
  /\ \A r \in DOMAIN d.rapis : \A x : <<r, x>> \in made <=> x \in ListNames(d, e, ids, r)

\* Bindings made of the lists are those the lists stood for.
LEMMA ListsAreBound ==
  ASSUME NEW d \in Databases, WellTyped(d), Projection(d), NEW e, NEW ids, NEW f,
         FirstIds(d, e, ids, DOMAIN d.keys), DOMAIN e.creds = DOMAIN d.keys \ Repeats(d),
         \A c \in DOMAIN e.creds : Token(e, c) = d.keys[c].token,
         \A r \in DOMAIN d.rapis : Endpoint(f, r) = Endpoint(d, r),
         NEW made, BindingsMade(d, e, ids, f, made)
  PROVE  ListsBind(d, f)
<1>0. /\ f.creds = e.creds /\ f.bound = d.bound \cup made
      /\ \A b \in made : b[1] \in DOMAIN d.rapis /\ b = <<b[1], b[2]>>
      /\ \A r \in DOMAIN d.rapis : \A x : <<r, x>> \in made <=> x \in ListNames(d, e, ids, r)
  BY DEF BindingsMade
<1>1. \A c : Token(f, c) = Token(e, c)
  BY <1>0 DEF Token
<1>2. ASSUME NEW b \in f.bound, b[2] \in DOMAIN f.creds
      PROVE  \E q \in DOMAIN d.rapis : Endpoint(d, q) = Endpoint(f, b[1]) /\ Token(f, b[2]) \in ListedIn(d, q)
  <2> DEFINE r == b[1]
             c == b[2]
  <2>1. c \in DOMAIN d.keys /\ Token(f, c) = d.keys[c].token /\ c \in DOMAIN e.creds
    BY <1>0, <1>1, <1>2
  <2>2. r \in DOMAIN d.rapis
    BY <1>0, <1>2 DEF WellTyped
  <2>3. b \in d.bound \/ (b \in made /\ b = <<r, c>>)
    BY <1>0, <1>2
  <2> HIDE DEF r, c
  <2>4. Token(f, c) \in ListedIn(d, r)
    <3>1. CASE b \in d.bound
      <4>1. c \in d.rapis[r].keyIDs
        BY <2>2, <3>1 DEF Projection, r, c
      <4> QED
        BY <2>1, <4>1 DEF ListedIn
    <3>2. CASE <<r, c>> \in made /\ d.rapis[r].keyIDs = {}
      <4>1. d.keys[c].platform = d.rapis[r].platform
        BY <1>0, <2>1, <2>2, <3>2 DEF FirstIds, ListNames
      <4> QED
        BY <2>1, <3>2, <4>1 DEF ListedIn
    <3>3. CASE <<r, c>> \in made /\ d.rapis[r].keyIDs # {}
      <4>1. PICK k \in d.rapis[r].keyIDs : c = IF k \in DOMAIN ids THEN ids[k] ELSE k
        BY <1>0, <2>2, <3>3 DEF ListNames
      <4>2. k \in DOMAIN d.keys /\ d.keys[k].token = d.keys[c].token
        BY <2>1, <4>1, FirstWithIs DEF FirstIds
      <4> QED
        BY <2>1, <3>3, <4>2 DEF ListedIn
    <3> QED
      BY <2>3, <3>1, <3>2, <3>3
  <2> QED
    BY <2>2, <2>4 DEF r, c
<1>3. ASSUME NEW r \in DOMAIN d.rapis, NEW k \in d.rapis[r].keyIDs, k \in DOMAIN d.keys
      PROVE  \E b \in f.bound : /\ b[2] \in DOMAIN f.creds /\ Token(f, b[2]) = d.keys[k].token
                                /\ Endpoint(f, b[1]) = Endpoint(d, r)
  <2> DEFINE i == ids[k]
  <2>1. i = (IF k \in Repeats(d) THEN FirstWith(d.keys, k) ELSE k) /\ k \in DOMAIN ids
    BY <1>3 DEF FirstIds
  <2>2. i \in DOMAIN e.creds /\ d.keys[i].token = d.keys[k].token
    BY <1>3, <2>1, FirstWithIs
  <2> HIDE DEF i
  <2>3. <<r, i>> \in made
    BY <1>0, <1>3, <2>1 DEF i, ListNames
  <2>4. <<r, i>> \in f.bound
    BY <1>0, <2>3
  <2>5. <<r, i>>[1] = r /\ <<r, i>>[2] = i
    OBVIOUS
  <2>6. i \in DOMAIN f.creds /\ Token(f, i) = d.keys[k].token
    BY <1>0, <1>1, <2>2
  <2> QED
    BY <2>4, <2>5, <2>6
<1> QED
  BY <1>2, <1>3 DEF ListsBind

\* The bindings are made.
LEMMA BindKept == Sane /\ Foretold /\ Kept /\ Bind => Kept'
<1> SUFFICES ASSUME Sane, Foretold, Kept, Bind PROVE Kept'
  OBVIOUS
<1> DEFINE made == UNION {{r} \X Bindings(tx, r) : r \in DOMAIN tx.rapis}
<1>1. /\ phase = "remap" /\ todo = {} /\ phase' = "dedupe" /\ UNCHANGED <<db, idOf>>
      /\ SameModels(tx, tx') /\ SameCreds(tx, tx') /\ tx'.chain = tx.chain
      /\ tx'.traffic = tx.traffic /\ tx'.blocks = tx.blocks /\ tx'.bound = tx.bound \cup made
  BY BindDoes
<1>2. db \in Databases /\ WellTyped(db) /\ WellTyped(tx)
  BY DEF Sane, Shape
<1>3. /\ phase \in InTx /\ phase' \in InTx /\ phase' \in KeysGone /\ phase' \notin {"move", "remap"}
      /\ phase' \notin {"keys", "backfill", "alias", "inspect"}
  BY <1>1 DEF InTx, KeysGone
<1>4. Seen' = Seen /\ Seen = DOMAIN db.keys
  BY <1>1 DEF Seen
<1>5. /\ Projection(db) /\ Follow(db, tx) /\ KeptTokens(db, tx, Seen)
      /\ db.creds = <<>> =>
           /\ BlockedAs(db, tx) = Blocked(db.keys, db) /\ FirstIds(db, tx, idOf, Seen)
           /\ tx.rapis = db.rapis /\ tx.bound = db.bound /\ BlocksOf(db, tx, todo)
  BY <1>1, <1>3 DEF Kept
<1>6. Follow(db, tx')
  <2>1. Follow(tx, tx')
    BY <1>1, <1>2, FollowSameModels
  <2> QED
    BY <1>5, <2>1, FollowTwice
<1>7. KeptTokens(db, tx', Seen)
  BY <1>1, <1>5 DEF KeptTokens, SameCreds
<1>8. ASSUME db.creds = <<>>
      PROVE  BlockedAs(db, tx') = Blocked(db.keys, db) /\ BlocksOf(db, tx', {})
  <2>1. BlockedAs(db, tx') = BlockedAs(db, tx)
    BY <1>1 DEF BlockedAs, SameModels
  <2>2. BlocksOf(db, tx', {})
    BY <1>1, <1>5, <1>8 DEF BlocksOf, SameCreds
  <2> QED
    BY <1>5, <1>8, <2>1, <2>2
<1>9. ASSUME db.creds = <<>> PROVE ListsBind(db, tx')
  <2>1. FirstIds(db, tx, idOf, DOMAIN db.keys) /\ tx.rapis = db.rapis /\ tx.bound = db.bound
    BY <1>4, <1>5, <1>9
  <2>2. /\ DOMAIN tx.creds = DOMAIN db.keys \ Repeats(db)
        /\ \A c \in DOMAIN tx.creds : Token(tx, c) = db.keys[c].token
    BY <1>3, <1>4, <1>9 DEF Foretold, FirstMoved
  <2>3. \A r \in DOMAIN db.rapis : Endpoint(tx', r) = Endpoint(db, r)
    BY <1>1, <1>6, <2>1 DEF Follow, SameModels
  <2>4. \A b \in made : b[1] \in DOMAIN db.rapis /\ b = <<b[1], b[2]>>
    BY <2>1
  <2>5. \A r \in DOMAIN db.rapis : \A x : <<r, x>> \in made <=> x \in Bindings(tx, r)
    BY <2>1
  <2>6. \A r \in DOMAIN db.rapis : Bindings(tx, r) = ListNames(db, tx, idOf, r)
    BY <2>1 DEF Bindings, ListNames
  <2> HIDE DEF made
  <2>7. tx'.bound = db.bound \cup made /\ tx'.creds = tx.creds
    BY <1>1, <2>1 DEF SameCreds
  <2>8. \A r \in DOMAIN db.rapis : \A x : <<r, x>> \in made <=> x \in ListNames(db, tx, idOf, r)
    BY <2>5, <2>6
  <2>9. BindingsMade(db, tx, idOf, tx', made)
    BY <2>4, <2>7, <2>8 DEF BindingsMade
  <2> QED
    BY <1>2, <1>5, <2>1, <2>2, <2>3, <2>9, ListsAreBound
<1>10. NothingLost'
  BY <1>1 DEF NothingLost, Migrated
<1> QED
  BY <1>1, <1>3, <1>4, <1>5, <1>6, <1>7, <1>8, <1>9, <1>10 DEF Kept

\* A step that keeps models, tables and what refers to them, once the keys are moved.
LEMMA QuietKept ==
  ASSUME Sane, Kept, phase \in KeysGone, phase' \in KeysGone, UNCHANGED db,
         DOMAIN tx'.rapis = DOMAIN tx.rapis, SameRefs(tx, tx'), SameTokens(tx, tx'),
         \A r \in DOMAIN tx.rapis : Endpoint(tx', r) = Endpoint(tx, r)
  PROVE  Kept'
<1>1. WellTyped(tx)
  BY DEF Sane, Shape
<1>2. Follow(tx, tx')
  BY <1>1, FollowSame DEF SameRefs
<1>3. /\ BlockedAs(db, tx') = BlockedAs(db, tx)
      /\ \A more : BlocksOf(db, tx, more) => BlocksOf(db, tx', more)
      /\ ListsBind(db, tx) => ListsBind(db, tx')
  BY <1>1, <1>2, KeysFollow DEF SameRefs
<1> QED
  BY <1>2, <1>3, KeptInside

\* A duplicate goes.
LEMMA MergeRAPIKept == Sane /\ Kept /\ MergeRAPI => Kept'
<1> SUFFICES ASSUME Sane, Kept, MergeRAPI PROVE Kept'
  OBVIOUS
<1>1. phase \in {"dedupe", "dedupe again"} /\ UNCHANGED <<db, phase, todo>>
  BY MergeRAPIDoes
<1>2. PICK keep \in DOMAIN tx.rapis, dup \in DOMAIN tx.rapis :
        /\ keep < dup /\ tx.rapis[keep].platform = tx.rapis[dup].platform
        /\ tx.rapis[keep].model = tx.rapis[dup].model /\ tx.rapis[dup].model # NoModel
        /\ tx' = MergedRAPI(tx, keep, dup)
  BY MergeRAPIDoes
<1>3. Shape(tx) /\ keep # dup
  <2>1. Shape(tx) /\ DOMAIN tx.rapis \subseteq Nat
    BY Fields, RowsOfTable DEF Sane, Shape
  <2> QED
    BY <1>2, <2>1
<1>4. Follow(tx, tx')
  BY <1>2, <1>3, FollowRAPI
<1>5. SameTokens(tx, tx')
  <2>1. SameCreds(tx, tx')
    BY <1>2, <1>3, MergedRAPIIs
  <2> QED
    BY <2>1, CredsStay DEF SameCreds
<1>6. phase \in KeysGone /\ phase \in InTx
  BY <1>1 DEF KeysGone, InTx
<1>7. Follow(db, tx)
  BY <1>6 DEF Kept
<1>8. /\ BlockedAs(db, tx') = BlockedAs(db, tx)
      /\ BlocksOf(db, tx, {}) => BlocksOf(db, tx', {})
      /\ ListsBind(db, tx) => ListsBind(db, tx')
  BY <1>2, <1>3, <1>7, RAPIKeysFollow
<1> QED
  BY <1>1, <1>4, <1>5, <1>6, <1>8, KeptInside

\* URLs are told apart as before.
LEMMA NormaliseKept == Sane /\ Kept /\ Normalise => Kept'
<1> SUFFICES ASSUME Sane, Kept, Normalise PROVE Kept'
  OBVIOUS
<1>1. /\ phase = "platforms" /\ phase' = "merge" /\ UNCHANGED db
      /\ SameCreds(tx, tx') /\ SameRefs(tx, tx') /\ tx'.rapis = tx.rapis
      /\ DOMAIN tx'.platforms = DOMAIN tx.platforms
      /\ \A p \in DOMAIN tx.platforms : tx'.platforms[p].url = tx.platforms[p].url
  BY NormaliseDoes
<1>2. SameTokens(tx, tx')
  BY <1>1, CredsStay DEF SameCreds
<1>3. \A r \in DOMAIN tx.rapis : Endpoint(tx', r) = Endpoint(tx, r)
  BY <1>1, EndpointSame
<1>4. phase \in KeysGone /\ phase' \in KeysGone
  BY <1>1 DEF KeysGone
<1> QED
  BY <1>1, <1>2, <1>3, <1>4, QuietKept

\* A platform goes into the first of its URL.
LEMMA MergePlatformKept ==
  ASSUME Sane, Kept, NEW p \in DOMAIN tx.platforms, MergePlatform(p)
  PROVE  Kept'
<1> DEFINE keep == Canonical(tx, p)
           merged == MergedPlatform(tx, p, keep)
<1>1. /\ phase = "merge" /\ keep # p /\ keep \in Nat /\ UNCHANGED <<db, idOf>>
      /\ \/ tx' = merged /\ UNCHANGED phase
         \/ phase' = "failed" /\ tx' = db
  BY MergePlatformDoes
<1>2. Shape(tx) /\ tx \in Databases /\ Projection(db)
  BY DEF Sane, Shape, Kept
<1>3. /\ DOMAIN merged.rapis = DOMAIN tx.rapis /\ SameTokens(tx, merged) /\ SameRefs(tx, merged)
  <2> HIDE DEF keep
  <2>1. /\ DOMAIN merged.rapis = DOMAIN tx.rapis /\ DOMAIN merged.creds = DOMAIN tx.creds
        /\ \A c \in DOMAIN tx.creds : Token(merged, c) = Token(tx, c)
        /\ SameRefs(tx, merged)
    BY <1>1, <1>2, MergedPlatformIs
  <2> QED
    BY <2>1 DEF SameTokens
<1>4. Follow(tx, merged)
  BY <1>1, <1>2, FollowPlatform
<1> HIDE DEF keep, merged
<1>5. CASE phase' = "failed" /\ tx' = db
  BY <1>1, <1>2, <1>5, KeptOutside DEF InTx
<1>6. CASE tx' = merged /\ UNCHANGED phase
  <2>1. phase \in KeysGone
    BY <1>1 DEF KeysGone
  <2>2. \A r \in DOMAIN tx.rapis : Endpoint(tx', r) = Endpoint(tx, r)
    BY <1>3, <1>4, <1>6 DEF Follow
  <2> QED
    BY <1>1, <1>3, <1>6, <2>1, <2>2, QuietKept
<1> QED
  BY <1>1, <1>5, <1>6

\* The tokens bound to a model.
BoundIn(d, a) ==
  {Token(d, b[2]) : b \in {x \in d.bound : x[2] \in DOMAIN d.creds /\ Endpoint(d, x[1]) = a}}

\* A model has the tokens its list had, and none that no model merged with it had.
ListsCarried(d, e) ==
  \A r \in DOMAIN d.rapis :
    /\ d.rapis[r].keyIDs # {} => ListedIn(d, r) \subseteq BoundIn(e, Endpoint(d, r))
    /\ BoundIn(e, Endpoint(d, r)) \subseteq
         UNION {ListedIn(d, q) : q \in {x \in DOMAIN d.rapis : Endpoint(d, x) = Endpoint(d, r)}}

\* Bindings that are those of the lists carry them.
LEMMA BoundCarries ==
  ASSUME NEW d, NEW e, ListsBind(d, e)
  PROVE  ListsCarried(d, e)
<1> SUFFICES ASSUME NEW r \in DOMAIN d.rapis
             PROVE  /\ d.rapis[r].keyIDs # {} => ListedIn(d, r) \subseteq BoundIn(e, Endpoint(d, r))
                    /\ BoundIn(e, Endpoint(d, r)) \subseteq
                         UNION {ListedIn(d, q) :
                                  q \in {x \in DOMAIN d.rapis : Endpoint(d, x) = Endpoint(d, r)}}
  BY DEF ListsCarried
<1>1. ASSUME d.rapis[r].keyIDs # {}, NEW t \in ListedIn(d, r) PROVE t \in BoundIn(e, Endpoint(d, r))
  <2>1. PICK k \in d.rapis[r].keyIDs : k \in DOMAIN d.keys /\ t = d.keys[k].token
    BY <1>1 DEF ListedIn
  <2>2. PICK b \in e.bound : /\ b[2] \in DOMAIN e.creds /\ Token(e, b[2]) = d.keys[k].token
                             /\ Endpoint(e, b[1]) = Endpoint(d, r)
    BY <2>1 DEF ListsBind
  <2> QED
    BY <2>1, <2>2 DEF BoundIn
<1>2. ASSUME NEW t \in BoundIn(e, Endpoint(d, r))
      PROVE  \E q \in DOMAIN d.rapis : Endpoint(d, q) = Endpoint(d, r) /\ t \in ListedIn(d, q)
  <2>1. PICK b \in e.bound : /\ b[2] \in DOMAIN e.creds /\ Endpoint(e, b[1]) = Endpoint(d, r)
                             /\ t = Token(e, b[2])
    BY DEF BoundIn
  <2> QED
    BY <2>1 DEF ListsBind
<1> QED
  BY <1>1, <1>2

\* What the committed database has is what the one before it had.
LEMMA RebuildKept == Sane /\ Deleted /\ Foretold /\ Kept /\ Rebuild /\ Deleted' => Kept'
<1> SUFFICES ASSUME Sane, Deleted', Foretold, Kept, Rebuild PROVE Kept'
  OBVIOUS
<1> DEFINE new == Projected(Rebuilt(tx))
<1>1. /\ phase = "finish" /\ UNCHANGED <<idOf, before>>
      /\ \/ db' = new /\ phase' = "clean"
         \/ phase' = "failed" /\ UNCHANGED db
      /\ SameCreds(tx, new) /\ SameRefs(tx, new) /\ new.platforms = tx.platforms
      /\ DOMAIN new.rapis = DOMAIN tx.rapis
      /\ \A r \in DOMAIN tx.rapis :
           /\ new.rapis[r].platform = tx.rapis[r].platform
           /\ new.rapis[r].model = tx.rapis[r].model
           /\ new.rapis[r].keyIDs = {b[2] : b \in {x \in tx.bound : x[1] = r}}
  BY RebuildDoes
<1> HIDE DEF new
<1>2. phase \in InTx /\ phase \in KeysGone /\ phase # "move"
  BY <1>1 DEF InTx, KeysGone
<1>3. WellTyped(tx) /\ before = db /\ Projection(db)
  BY <1>2 DEF Sane, Shape, Kept
<1>4. CASE phase' = "failed" /\ UNCHANGED db
  BY <1>3, <1>4, KeptOutside DEF InTx
<1>5. CASE db' = new /\ phase' = "clean"
  <2>1. Follow(db, tx) /\ KeptTokens(db, tx, DOMAIN db.keys)
    BY <1>2 DEF Kept, Seen
  <2>2. Follow(tx, new)
    <3>1. \A r \in DOMAIN tx.rapis : Endpoint(new, r) = Endpoint(tx, r)
      BY <1>1, EndpointSame
    <3> QED
      BY <1>1, <1>3, <3>1, FollowSame DEF SameRefs
  <2>3. Follow(db, new)
    BY <2>1, <2>2, FollowTwice
  <2>4. Projection(new)
    BY <1>1 DEF Projection, SameRefs
  <2>5. before' = db
    BY <1>1, <1>3
  <2>6. TokensKept'
    <3>1. OneTokenEach(new)
      BY <1>5 DEF Deleted
    <3>2. new.creds = tx.creds
      BY <1>1 DEF SameCreds
    <3>3. Tokens(db.creds) \subseteq Tokens(new.creds)
      BY <2>1, <3>2 DEF KeptTokens
    <3>4. ~Residue(db) => Tokens(db.keys) \subseteq Tokens(new.creds)
      BY <2>1, <3>2 DEF KeptTokens, Tokens
    <3>5. \A b, c \in DOMAIN new.creds : Token(new, b) = Token(new, c) /\ Token(new, b) # NoToken => b = c
      BY <3>1 DEF OneTokenEach
    <3> QED
      BY <1>5, <2>5, <3>3, <3>4, <3>5 DEF TokensKept
  <2>7. RoutesKept'
    BY <1>5, <2>3, <2>5 DEF RoutesKept, Follow
  <2>8. TrafficKept'
    BY <1>5, <2>3, <2>5 DEF TrafficKept, Follow
  <2>9. ASSUME db.creds = <<>>
        PROVE  /\ BlockedAs(db, new) = Blocked(db.keys, db) /\ BlocksOf(db, new, {})
               /\ ListsBind(db, new) /\ DOMAIN new.creds \subseteq DOMAIN db.keys
               /\ \A c \in DOMAIN new.creds : Token(new, c) = db.keys[c].token
    <3>1. /\ BlockedAs(db, tx) = Blocked(db.keys, db) /\ BlocksOf(db, tx, {})
          /\ ListsBind(db, tx)
      BY <1>2, <2>9 DEF Kept
    <3>2. SameTokens(tx, new)
      BY <1>1, CredsStay DEF SameCreds
    <3>3. /\ BlockedAs(db, new) = BlockedAs(db, tx)
          /\ \A more : BlocksOf(db, tx, more) => BlocksOf(db, new, more)
          /\ ListsBind(db, tx) => ListsBind(db, new)
      BY <1>1, <1>3, <2>2, <3>2, KeysFollow DEF SameRefs
    <3>4. /\ DOMAIN tx.creds \subseteq DOMAIN db.keys
          /\ \A c \in DOMAIN tx.creds : Token(tx, c) = db.keys[c].token
      BY <1>2, <2>9 DEF Foretold, FirstMoved, Seen
    <3> QED
      BY <3>1, <3>2, <3>3, <3>4 DEF SameTokens
  <2>10. BlocksKept'
    <3> SUFFICES ASSUME db.creds = <<>> PROVE Blocked(new.creds, new) = Blocked(db.keys, db)
      BY <1>5, <2>5 DEF BlocksKept, First
    <3>1. {x \in new.blocks : x[1] \in DOMAIN new.creds /\ x[2] \in DOMAIN new.rapis} =
          {x \in new.blocks : x[1] \in DOMAIN db.keys /\ x[2] \in DOMAIN new.rapis}
      BY <2>9 DEF BlocksOf
    <3>2. \A x \in new.blocks : x[1] \in DOMAIN new.creds /\ x[2] \in DOMAIN new.rapis =>
            <<new.creds[x[1]].token, Endpoint(new, x[2])>> = <<db.keys[x[1]].token, Endpoint(db, x[2])>>
      BY <2>3, <2>9 DEF Token, Follow
    <3>3. Blocked(new.creds, new) = BlockedAs(db, new)
      BY <3>1, <3>2 DEF Blocked, BlockedAs
    <3> QED
      BY <2>9, <3>3
  <2>11. ListsKept'
    <3>1. ListsKept' <=> (First' => ListsCarried(before', db'))
      BY DEF ListsKept, OldTokens, BoundTokens, ListsCarried, ListedIn, BoundIn
    <3>2. db.creds = <<>> => ListsCarried(db, new)
      BY <2>9, BoundCarries
    <3> QED
      BY <1>5, <2>5, <3>1, <3>2 DEF First
  <2>12. NothingLost'
    BY <2>6, <2>7, <2>8, <2>10, <2>11 DEF NothingLost
  <2> QED
    BY <1>5, <2>4, <2>12 DEF Kept, InTx
<1> QED
  BY <1>1, <1>4, <1>5

\* Every step keeps it.
LEMMA KeptNext ==
  Sane /\ Deleted /\ Foretold /\ Kept /\ Deleted' /\ [UpgradeNext]_upgradeVars => Kept'
<1> SUFFICES ASSUME Sane, Deleted, Foretold, Kept, Deleted', [UpgradeNext]_upgradeVars PROVE Kept'
  OBVIOUS
<1>0. Projection(db) /\ (phase \in {"keys", "backfill", "alias", "inspect"} => DOMAIN idOf = {})
  BY DEF Kept
<1>1. CASE Start
  <2>1. phase' = "keys" /\ UNCHANGED db /\ idOf' = <<>>
    BY <1>1 DEF Start
  <2>2. DOMAIN idOf' = {}
    BY <2>1, NoRows
  <2> QED
    BY <1>0, <2>1, <2>2, KeptOutside DEF InTx
<1>2. CASE CreateKeyTable
  <2>1. /\ phase = "keys" /\ phase' \in {"alias", "backfill"} /\ UNCHANGED idOf
        /\ db'.rapis = db.rapis /\ db'.bound = db.bound
    BY <1>2, CreateKeyTableDoes DEF SameModels, SameRefs
  <2>2. Projection(db')
    BY <1>0, <2>1, ProjectionSame
  <2> QED
    BY <1>0, <2>1, <2>2, KeptOutside DEF InTx
<1>3. CASE Backfill
  <2>1. /\ phase = "backfill" /\ phase' = "alias" /\ UNCHANGED idOf
        /\ db'.rapis = db.rapis /\ db'.bound = db.bound
    BY <1>3, BackfillDoes DEF SameModels, SameRefs
  <2>2. Projection(db')
    BY <1>0, <2>1, ProjectionSame
  <2> QED
    BY <1>0, <2>1, <2>2, KeptOutside DEF InTx
<1>4. CASE PerPlatformAlias
  <2>1. /\ phase = "alias" /\ phase' = "inspect" /\ UNCHANGED idOf
        /\ db'.rapis = db.rapis /\ db'.bound = db.bound
    BY <1>4, PerPlatformAliasDoes
  <2>2. Projection(db')
    BY <1>0, <2>1, ProjectionSame
  <2> QED
    BY <1>0, <2>1, <2>2, KeptOutside DEF InTx
<1>5. CASE Inspect
  BY <1>5, InspectKept
<1>6. CASE MoveKey
  BY <1>6, MoveKeyKept
<1>7. CASE KeysMoved
  BY <1>7, KeysMovedKept
<1>8. ASSUME NEW k \in todo, Remap(k) PROVE Kept'
  BY <1>8, RemapKept
<1>9. CASE Bind
  BY <1>9, BindKept
<1>10. CASE MergeRAPI
  BY <1>10, MergeRAPIKept
<1>11. CASE RAPIsMerged
  <2>1. /\ phase \in {"dedupe", "dedupe again"} /\ UNCHANGED <<db, tx>>
        /\ phase' = IF phase = "dedupe" THEN "platforms" ELSE "finish"
    BY <1>11 DEF RAPIsMerged
  <2>2. SameTokens(tx, tx') /\ SameRefs(tx, tx')
    BY <2>1, CredsStay DEF SameRefs
  <2> QED
    BY <2>1, <2>2, QuietKept DEF KeysGone
<1>12. CASE Normalise
  BY <1>12, NormaliseKept
<1>13. ASSUME NEW p \in DOMAIN tx.platforms, MergePlatform(p) PROVE Kept'
  BY <1>13, MergePlatformKept
<1>14. CASE PlatformsMerged
  <2>1. phase = "merge" /\ phase' = "dedupe again" /\ UNCHANGED <<db, tx>>
    BY <1>14 DEF PlatformsMerged
  <2>2. SameTokens(tx, tx') /\ SameRefs(tx, tx')
    BY <2>1, CredsStay DEF SameRefs
  <2> QED
    BY <2>1, <2>2, QuietKept DEF KeysGone
<1>15. CASE Rebuild
  BY <1>15, RebuildKept
<1>16. CASE CleanUp
  <2>1. /\ phase' = "up" /\ DOMAIN db'.rapis \subseteq DOMAIN db.rapis
        /\ \A r \in DOMAIN db'.rapis : db'.rapis[r] = db.rapis[r]
        /\ db'.bound = {b \in db.bound : b[1] \in DOMAIN db'.rapis}
    BY <1>16, CleanUpDoes
  <2>2. Projection(db')
    BY <1>0, <2>1, ProjectionRestricted
  <2> QED
    BY <2>1, <2>2, KeptOutside DEF InTx
<1>17. CASE Crash
  <2>1. phase' = "off" /\ UNCHANGED db
    BY <1>17 DEF Crash
  <2> QED
    BY <1>0, <2>1, KeptOutside DEF InTx
<1>18. ASSUME NEW c \in DOMAIN db.creds, DeleteKey(c) PROVE Kept'
  <2>1. /\ phase' = "up" /\ DOMAIN db'.rapis = DOMAIN db.rapis
        /\ \A r \in DOMAIN db.rapis : db'.rapis[r].keyIDs = {b[2] : b \in {x \in db'.bound : x[1] = r}}
    BY <1>18, DeleteKeyDoes
  <2>2. Projection(db')
    BY <2>1 DEF Projection
  <2> QED
    BY <2>1, <2>2, KeptOutside DEF InTx
<1>19. ASSUME NEW t \in AddedTokens \cup {NoToken}, Downgrade(t) PROVE Kept'
  <2>1. phase' = "off" /\ db'.rapis = db.rapis /\ db'.bound = db.bound
    BY <1>19, DowngradeDoes DEF SameModels, SameRefs
  <2>2. Projection(db')
    BY <1>0, <2>1, ProjectionSame
  <2> QED
    BY <2>1, <2>2, KeptOutside DEF InTx
<1>20. CASE UNCHANGED upgradeVars
  <2>1. NothingLost' <=> NothingLost
    BY <1>20 DEF upgradeVars, NothingLost, Migrated, TokensKept, RoutesKept, TrafficKept, BlocksKept,
                 ListsKept, First, OldTokens, BoundTokens
  <2> QED
    BY <1>20, <2>1 DEF upgradeVars, Kept, Seen
<1> QED
  BY <1>1, <1>2, <1>3, <1>4, <1>5, <1>6, <1>7, <1>8, <1>9, <1>10, <1>11, <1>12, <1>13, <1>14,
     <1>15, <1>16, <1>17, <1>18, <1>19, <1>20 DEF UpgradeNext

\* An old database has no bindings.
LEMMA KeptInit == UpgradeInit => Kept
<1> SUFFICES ASSUME UpgradeInit PROVE Kept
  OBVIOUS
<1>1. phase = "off" /\ db.bound = {}
  BY OldDatabasesAre DEF UpgradeInit
<1> QED
  BY <1>1 DEF Kept, Projection, NothingLost, Migrated, InTx, KeysGone

\* Nothing is lost: neither tokens nor the route, the statistics, the blocks, the lists.
THEOREM NothingIsLost == UpgradeSpec => []NothingLost
<1>1. UpgradeInit => Sane /\ Deleted /\ OnlyClash /\ Foretold /\ Kept
  BY SaneInit, DeletedInit, OnlyClashInit, ForetoldInit, KeptInit
<1>2. Sane /\ Deleted /\ OnlyClash /\ Foretold /\ Kept /\ [UpgradeNext]_upgradeVars
        => (Sane /\ Deleted /\ OnlyClash /\ Foretold /\ Kept)'
  BY SaneNext, DeletedNext, OnlyClashNext, ForetoldNext, KeptNext
<1>3. Kept => NothingLost
  BY DEF Kept
<1> QED
  BY <1>1, <1>2, <1>3, PTL DEF UpgradeSpec

----------------------------------------------------------------------------
(* The composition.                                                        *)

\* What is proved of each part holds of the specification that explores them one
\* at a time.
THEOREM PartsOfTheStore == StoreSpec => Spec /\ UpgradeSpec
<1>1. StoreInit => Init /\ UpgradeInit
  BY DEF StoreInit
<1>2. [StoreNext]_storeVars => [Next]_vars /\ [UpgradeNext]_upgradeVars
  BY DEF StoreNext, storeVars
<1> QED
  BY <1>1, <1>2, PTL DEF StoreSpec, Spec, UpgradeSpec

\* The edge with its generations and locks and the tables of the upgrade are of
\* their types.
THEOREM StoreTypesHold == StoreSpec => []StoreTypeOK
<1>1. TypeOK /\ UpgradeTypeOK => StoreTypeOK
  BY DEF StoreTypeOK
<1> QED
  BY <1>1, PartsOfTheStore, TypeCorrect, UpgradeTypesHold, PTL
=============================================================================
