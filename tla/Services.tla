------------------------------ MODULE Services ------------------------------
(* The components that share no state, explored one at a time: part says    *)
(* which, and the others stay where they begin.  What is checked of each    *)
(* speaks of its own state only, so nothing is lost by leaving out how the  *)
(* steps of two of them interleave.                                         *)
EXTENDS WaitQueue, KeyCursor, CapabilityBlocks, CatalogSync, StreamConvert, Definitions

VARIABLE part

Parts == {"queue", "cursor", "blocks", "catalog", "stream", "definitions"}

\* Of a component that is not explored one first state is enough.
Parked ==
  /\ part # "cursor" => serves = {}
  /\ part # "catalog" => /\ \A m \in Rapis : available[m]
                          /\ \A k \in Credentials : offer[k] = Silent
  /\ part # "stream" => client = "openai" /\ target = "openai"
  /\ part # "definitions" => backend = "local"

ServicesInit ==
  /\ part \in Parts
  /\ Init /\ CursorInit /\ BlocksInit /\ CatalogInit /\ StreamInit /\ DefinitionsInit
  /\ Parked

ServicesNext ==
  /\ UNCHANGED part
  /\ \/ /\ part = "queue" /\ Next
        /\ UNCHANGED <<cursorVars, blockVars, catalogVars, streamVars, definitionVars>>
     \/ /\ part = "cursor" /\ CursorNext
        /\ UNCHANGED <<vars, blockVars, catalogVars, streamVars, definitionVars>>
     \/ /\ part = "blocks" /\ BlocksNext
        /\ UNCHANGED <<vars, cursorVars, catalogVars, streamVars, definitionVars>>
     \/ /\ part = "catalog" /\ CatalogNext
        /\ UNCHANGED <<vars, cursorVars, blockVars, streamVars, definitionVars>>
     \/ /\ part = "stream" /\ StreamNext
        /\ UNCHANGED <<vars, cursorVars, blockVars, catalogVars, definitionVars>>
     \/ /\ part = "definitions" /\ DefinitionsNext
        /\ UNCHANGED <<vars, cursorVars, blockVars, catalogVars, streamVars>>

servicesVars ==
  <<part, vars, cursorVars, blockVars, catalogVars, streamVars, definitionVars>>

\* The fairness of the queue and of the catalog's rounds; a parked component
\* owes no step.
ServicesSpec ==
  /\ ServicesInit /\ [][ServicesNext]_servicesVars
  /\ \A w \in Waiters : /\ WF_vars(part = "queue" /\ (Check(w) \/ Commit(w)))
                        /\ SF_vars(part = "queue" /\ (Relock(w) \/ TimerFires(w)))
                        /\ WF_vars(part = "queue" /\ UntilReached(w))
  /\ WF_catalogVars(part = "catalog" /\ Start)
  /\ WF_catalogVars(part = "catalog" /\ RoundStep)

\* WaitReturns of the queue and OfferedComesBack of the catalog, where they are
\* explored: a parked component has neither waiters nor anything out of service.
EveryWaitReturns == part = "queue" => WaitReturns

EverythingOfferedComesBack == part = "catalog" => OfferedComesBack

\* The state of every component is of its type, whatever the others hold: indices
\* stay within the pool, blocks within their TTL, streaks within the rounds there
\* were, the blocks of a message within its chunks.
ServicesTypeOK ==
  /\ part \in Parts /\ TypeOK
  /\ CursorTypeOK /\ BlocksTypeOK /\ CatalogTypeOK /\ StreamTypeOK /\ DefinitionsTypeOK
=============================================================================
