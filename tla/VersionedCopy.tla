---------------------------- MODULE VersionedCopy ----------------------------
(***************************************************************************)
(* What the synchronisation of the edge with the center promises: a copy   *)
(* of a source that others change, stamped with the version it was taken   *)
(* at.  The copy may be changed on its own, and then it is `touched` until *)
(* it is known to hold nothing the source lacks.  A stamp that equals the  *)
(* version of the source, on a copy that is not touched, is a claim the    *)
(* dashboard shows as in_sync: the copy and the source are the same.       *)
(***************************************************************************)
EXTENDS Naturals

CONSTANT Contents     \* what a source or a copy may hold

VARIABLES
  source, version,    \* the source, and the number of its changes
  fetched,            \* snapshots of the source on their way
  copy, seen,         \* the copy, and its stamp
  base,               \* what the source held when it was at the stamp
  touched             \* whether the copy may differ from base

vars == <<source, version, fetched, copy, seen, base, touched>>

Snapshots == [version : Nat, rows : Contents]

TypeOK ==
  /\ source \in Contents /\ copy \in Contents /\ base \in Contents
  /\ version \in Nat /\ seen \in Nat
  /\ fetched \subseteq Snapshots
  /\ touched \in BOOLEAN

Init ==
  /\ TypeOK
  /\ fetched = {}
  /\ seen <= version
  /\ seen = version => base = source
  /\ ~touched => copy = base \/ seen < version

Change ==
  /\ source' \in Contents
  /\ version' = version + 1
  /\ UNCHANGED <<fetched, copy, seen, base, touched>>

\* A snapshot is taken; others may be dropped unused, and so may this one.
Fetch ==
  /\ fetched' \in SUBSET (fetched \cup {[version |-> version, rows |-> source]})
  /\ UNCHANGED <<source, version, copy, seen, base, touched>>

\* The copy becomes a snapshot, which may be old by now.
Adopt ==
  \E f \in fetched :
    /\ copy' = f.rows /\ base' = f.rows /\ seen' = f.version
    /\ touched' \in BOOLEAN
    /\ fetched' \in SUBSET fetched
    /\ UNCHANGED <<source, version>>

\* The copy becomes something made of itself and a snapshot.
Combine ==
  \E f \in fetched :
    /\ copy' \in Contents /\ base' = f.rows /\ seen' = f.version
    /\ touched'
    /\ fetched' \in SUBSET fetched
    /\ UNCHANGED <<source, version>>

Touch ==
  /\ copy' \in Contents
  /\ touched'
  /\ UNCHANGED <<source, version, fetched, seen, base>>

\* The copy holds nothing of its own, or it will have to be fetched again.
Settle ==
  /\ copy = base \/ seen < version
  /\ touched' \in BOOLEAN
  /\ fetched' \in SUBSET fetched
  /\ UNCHANGED <<source, version, copy, seen, base>>

\* The stamp is taken back to one that cannot come again.
Rewind ==
  /\ seen' \in Nat /\ seen' < version
  /\ fetched' \in SUBSET fetched
  /\ UNCHANGED <<source, version, copy, base, touched>>

Next == Change \/ Fetch \/ Adopt \/ Combine \/ Touch \/ Settle \/ Rewind

Spec == Init /\ [][Next]_vars

\* What is shown as synchronised is the same as the source.
Honest == seen = version /\ ~touched => copy = source
=============================================================================
