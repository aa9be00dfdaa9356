------------------------- MODULE VersionedCopyProofs -------------------------
(***************************************************************************)
(* Theorems about VersionedCopy, for any contents and any number of        *)
(* changes and snapshots.                                                  *)
(*                                                                         *)
(* Honest is not inductive: it says nothing of snapshots on their way, of  *)
(* a stamp that is behind, or of a copy that is touched.  Inv adds that    *)
(* the version names the contents: whoever holds the current version, a    *)
(* snapshot or the stamp, holds the current contents, because each change  *)
(* takes a version of its own.                                             *)
(***************************************************************************)
EXTENDS VersionedCopy, TLAPS

Inv ==
  /\ TypeOK
  /\ \A f \in fetched : f.version <= version /\ (f.version = version => f.rows = source)
  /\ seen <= version
  /\ seen = version => base = source
  /\ ~touched => copy = base \/ seen < version

\* A snapshot taken now is of the current version and contents.
LEMMA SnapshotNow ==
  ASSUME TypeOK
  PROVE  /\ [version |-> version, rows |-> source] \in Snapshots
         /\ [version |-> version, rows |-> source].version = version
         /\ [version |-> version, rows |-> source].rows = source
BY DEF TypeOK, Snapshots

\* The inductive invariant holds initially.
LEMMA InvInit == Init => Inv
BY DEF Init, Inv, TypeOK

\* A change takes a version nothing on its way can have.
LEMMA ChangeStep == Inv /\ Change => Inv'
BY DEF Inv, TypeOK, Change, Snapshots

\* A snapshot that is fetched is current.
LEMMA FetchStep == Inv /\ Fetch => Inv'
BY SnapshotNow DEF Inv, TypeOK, Fetch

\* What is adopted is the contents of its version.
LEMMA AdoptStep == Inv /\ Adopt => Inv'
BY DEF Inv, TypeOK, Adopt, Snapshots

\* What is combined is touched.
LEMMA CombineStep == Inv /\ Combine => Inv'
BY DEF Inv, TypeOK, Combine, Snapshots

\* A change of the copy alone is one of the contents of the copy, and touches it.
LEMMA TouchStep == Inv /\ Touch => Inv'
BY DEF Inv, TypeOK, Touch

\* What is settled holds nothing of its own, or is behind.
LEMMA SettleStep == Inv /\ Settle => Inv'
BY DEF Inv, TypeOK, Settle

\* A stamp that is taken back is behind.
LEMMA RewindStep == Inv /\ Rewind => Inv'
BY DEF Inv, TypeOK, Rewind

\* The inductive invariant: the version names the contents.
THEOREM InvInvariant == Spec => []Inv
<1>1. Init => Inv
  BY InvInit
<1>2. Inv /\ [Next]_vars => Inv'
  <2> SUFFICES ASSUME Inv, [Next]_vars PROVE Inv'
    OBVIOUS
  <2>1. CASE UNCHANGED vars
    BY <2>1 DEF vars, Inv, TypeOK
  <2>2. CASE Next
    BY <2>2, ChangeStep, FetchStep, AdoptStep, CombineStep, TouchStep, SettleStep, RewindStep
    DEF Next
  <2> QED
    BY <2>1, <2>2
<1> QED
  BY <1>1, <1>2, PTL DEF Spec

\* Stamps and versions are naturals, snapshots and copies hold contents: every
\* reachable state of the promise is of its type.
THEOREM TypeCorrect == Spec => []TypeOK
<1>1. Inv => TypeOK
  BY DEF Inv
<1> QED
  BY <1>1, InvInvariant, PTL

\* What the dashboard shows as in_sync is the same as the center, for whatever
\* keeps to VersionedCopy; the edge does (IsVersionedCopy).
THEOREM AlwaysHonest == Spec => []Honest
<1>1. Inv => Honest
  BY DEF Inv, TypeOK, Honest
<1> QED
  BY <1>1, InvInvariant, PTL

\* As long as the copy is not touched, it is what the source was at the stamp,
\* or will be fetched again.
THEOREM StampTellsContents == Spec => [](~touched => copy = base \/ seen < version)
<1>1. Inv => (~touched => copy = base \/ seen < version)
  BY DEF Inv
<1> QED
  BY <1>1, InvInvariant, PTL
=============================================================================
