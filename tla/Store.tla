------------------------------- MODULE Store --------------------------------
(* The store of an edge: the upgrade of its database, and what keeps it the  *)
(* same as the center.  The upgrade has ended before the first round of the  *)
(* synchronisation; so the two are explored one at a time, and part says     *)
(* which.                                                                    *)
EXTENDS EdgeSync, NaturalKeys

VARIABLE part

AnyDatabase == CHOOSE d \in OldDatabases : TRUE

storeVars == <<part, vars, upgradeVars>>

\* Of the component that is not explored one first state is enough.
StoreInit ==
  /\ part \in {"edge", "upgrade"}
  /\ Init
  /\ part = "upgrade" =>
       good = version /\ center = CHOOSE r \in Rows \ {Empty} : Consistent(r)
  /\ UpgradeInit
  /\ part = "edge" => db = AnyDatabase

StoreNext ==
  /\ UNCHANGED part
  /\ \/ part = "edge" /\ Next /\ UNCHANGED upgradeVars
     \/ part = "upgrade" /\ UpgradeNext /\ UNCHANGED vars

StoreSpec == StoreInit /\ [][StoreNext]_storeVars

\* The fairness of the edge's rounds; parked, it owes no step.
StoreFairSpec ==
  /\ StoreSpec
  /\ WF_vars(part = "edge" /\ Poll)
  /\ \A p \in Procs : WF_vars(part = "edge" /\ Step(p))

\* Both are of their types, the edge with its generations and locks, the tables
\* of the upgrade inside its transaction too.
StoreTypeOK == TypeOK /\ UpgradeTypeOK
=============================================================================
