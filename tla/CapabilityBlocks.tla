--------------------------- MODULE CapabilityBlocks ---------------------------
(***************************************************************************)
(* The blocks of key and model: an upstream has said that a credential may *)
(* not use a model, so the pair is left alone for CapabilityBlock.  They   *)
(* are kept in the gateway's memory, under blockMu, and in the table       *)
(* key_model_blocks, which is written in a second step after the lock has  *)
(* been given back.                                                        *)
(*                                                                         *)
(* A block is the time it has left; 0 is one that has expired and is still *)
(* there.  Key and model health are the subject of KeyHealth and Failover. *)
(***************************************************************************)
EXTENDS Integers, FiniteSets, Upstreams

CONSTANTS
  Synthetic,   \* the platform's token, ID -1
  Reqs, TTL

ASSUME BlocksAssumption ==
  /\ Synthetic \notin Keys
  /\ NoKey \notin Keys \cup {Synthetic}
  /\ Rapis # {}
  /\ TTL \in Nat \ {0}

VARIABLES
  rows,      \* the credentials there are
  blocks,    \* ProxyGateway.blocks
  table,     \* key_model_blocks
  req,       \* requests in tryKeyForRAPI
  admin,     \* the second step of an operator's call
  denied,    \* history: of a request, denials that still stand
  loose      \* history: pairs on which memory and table may disagree

blockVars == <<rows, blocks, table, req, admin, denied, loose>>

AllKeys == Keys \cup {Synthetic}
Pairs == AllKeys \X Rapis
NoBlock == -1

Idle == [pc |-> "idle", rapi |-> CHOOSE m \in Rapis : TRUE, pool |-> {},
         todo |-> {}, key |-> NoKey, exp |-> 0]

NoAdmin == [op |-> "none", key |-> NoKey, rapi |-> CHOOSE m \in Rapis : TRUE]

BlocksTypeOK ==
  /\ rows \subseteq Keys
  /\ blocks \in [Pairs -> NoBlock..TTL] /\ table \in [Pairs -> NoBlock..TTL]
  /\ req \in [Reqs -> [pc : {"idle", "filter", "purge", "call", "block", "unblock"},
                       rapi : Rapis, pool : SUBSET AllKeys, todo : SUBSET AllKeys,
                       key : AllKeys \cup {NoKey}, exp : 0..TTL]]
  /\ admin \in [op : {"none", "unblock", "remove", "clear"},
                key : Keys \cup {NoKey}, rapi : Rapis]
  /\ denied \in [Reqs -> SUBSET AllKeys]
  /\ loose \subseteq Pairs

BlocksInit ==
  /\ rows = Keys
  /\ blocks = [p \in Pairs |-> NoBlock] /\ table = blocks
  /\ req = [r \in Reqs |-> Idle] /\ admin = NoAdmin
  /\ denied = [r \in Reqs |-> {}] /\ loose = {}

----------------------------------------------------------------------------
(* History.                                                                 *)

\* The block of a pair is gone: whoever was denied may ask again.
Forgive(ps) ==
  denied' = [r \in Reqs |-> {k \in denied[r] : <<k, req[r].rapi>> \notin ps}]

\* Steps that will write the row of a pair.
Writers(p) ==
  {r \in Reqs : req[r].pc \in {"block", "unblock"} /\ <<req[r].key, req[r].rapi>> = p}
    \cup {a \in {admin} : a.op \in {"unblock", "clear"} /\ a.key = p[1]
                            /\ (a.op = "unblock" => a.rapi = p[2])}

\* A write begins on some pairs: with it memory and table will agree, unless
\* another is on its way.
Begins(ps) == loose' = (loose \ ps) \cup {p \in ps : Writers(p) # {}}

\* The statement that ends it may fail, which is logged and no more: the table is
\* what it was, and nothing says that memory and table agree on the pairs.
Writes(t, ps) ==
  \/ table' = t /\ UNCHANGED loose
  \/ UNCHANGED table /\ loose' = loose \cup ps

----------------------------------------------------------------------------
(* A request in tryKeyForRAPI.                                              *)

Pair(r) == <<req[r].key, req[r].rapi>>

\* The pool: the platform's credentials, or its token if there are none.
Begin(r, m) ==
  /\ req[r].pc = "idle"
  /\ LET pool == IF rows = {} THEN {Synthetic} ELSE rows
     IN  req' = [req EXCEPT ![r] = [Idle EXCEPT !.pc = "filter", !.rapi = m,
                                                !.pool = pool, !.todo = pool]]
  /\ denied' = [denied EXCEPT ![r] = {}]
  /\ UNCHANGED <<rows, blocks, table, admin, loose>>

\* isBlocked, under the read lock: none, one that stands, or one that has
\* expired, for which it comes back with the write lock.
Look(r) ==
  /\ req[r].pc = "filter"
  /\ \E k \in req[r].todo :
       LET left == blocks[<<k, req[r].rapi>>]
       IN  req' = [req EXCEPT
             ![r].pc = IF left = 0 THEN "purge" ELSE "filter",
             ![r].key = IF left = 0 THEN k ELSE NoKey,
             ![r].todo = @ \ {k},
             ![r].pool = IF left > 0 THEN @ \ {k} ELSE @]
  /\ UNCHANGED <<rows, blocks, table, admin, denied, loose>>

\* A mutant: what was seen under the read lock is removed without a second look.
PurgeUnseen(r) ==
  /\ req[r].pc = "purge"
  /\ blocks' = [blocks EXCEPT ![Pair(r)] = NoBlock]
  /\ req' = [req EXCEPT ![r].pc = "filter", ![r].key = NoKey]
  /\ UNCHANGED <<rows, table, admin, denied, loose>>

\* purgeExpiredBlock looks again: another request may have renewed the block.
Purge(r) ==
  /\ req[r].pc = "purge"
  /\ LET left == blocks[Pair(r)]
     IN  /\ blocks' = IF left = 0 THEN [blocks EXCEPT ![Pair(r)] = NoBlock] ELSE blocks
         /\ req' = [req EXCEPT ![r].pc = "filter", ![r].key = NoKey,
                               ![r].pool = IF left > 0 THEN @ \ {req[r].key} ELSE @]
  /\ UNCHANGED <<rows, table, admin, denied, loose>>

\* PickAvailableKey gives out one of the pool ...
Call(r) ==
  /\ req[r].pc = "filter" /\ req[r].todo = {}
  /\ \E k \in req[r].pool : req' = [req EXCEPT ![r].pc = "call", ![r].key = k]
  /\ UNCHANGED <<rows, blocks, table, admin, denied, loose>>

\* ... or none of it, or nothing is left.
Escalate(r) ==
  /\ req[r].pc = "filter" /\ req[r].todo = {}
  /\ req' = [req EXCEPT ![r] = Idle]
  /\ UNCHANGED <<rows, blocks, table, admin, denied, loose>>

\* The upstream does not let the key use the model: blockKeyForModel, first
\* in memory.  Nothing in it spares the synthetic key.
Denied(r) ==
  /\ req[r].pc = "call"
  /\ blocks' = [blocks EXCEPT ![Pair(r)] = TTL]
  /\ req' = [req EXCEPT ![r].pc = "block", ![r].exp = TTL]
  /\ denied' = [denied EXCEPT ![r] = @ \cup {req[r].key}]
  /\ Begins({Pair(r)})
  /\ UNCHANGED <<rows, table, admin>>

\* The filter runs over what the last pass has left.
Again(r) == [req EXCEPT ![r].pc = "filter", ![r].todo = req[r].pool,
                        ![r].key = NoKey, ![r].exp = 0]

\* BlockKeyForModel of the database.  The table refers to the credential: for
\* one that is gone, or that never was, the statement always fails.
Store(r) ==
  /\ req[r].pc = "block"
  /\ Writes(IF req[r].key \in rows
            THEN [table EXCEPT ![Pair(r)] = req[r].exp] ELSE table, {Pair(r)})
  /\ req' = Again(r)
  /\ UNCHANGED <<rows, blocks, admin, denied>>

\* A mutant: a success clears the memory alone.
ServedInMemory(r) ==
  /\ req[r].pc = "call" /\ req[r].key # Synthetic
  /\ blocks' = [blocks EXCEPT ![Pair(r)] = NoBlock]
  /\ Forgive({Pair(r)})
  /\ req' = [req EXCEPT ![r] = Idle]
  /\ UNCHANGED <<rows, table, admin, loose>>

\* A 2xx answer: UnblockKeyForModel, except for the synthetic key.
Served(r) ==
  /\ req[r].pc = "call"
  /\ IF req[r].key = Synthetic
     THEN req' = [req EXCEPT ![r] = Idle] /\ UNCHANGED <<blocks, denied, loose>>
     ELSE /\ blocks' = [blocks EXCEPT ![Pair(r)] = NoBlock]
          /\ Forgive({Pair(r)})
          /\ Begins({Pair(r)})
          /\ req' = [req EXCEPT ![r].pc = "unblock"]
  /\ UNCHANGED <<rows, table, admin>>

Unstore(r) ==
  /\ req[r].pc = "unblock"
  /\ Writes([table EXCEPT ![Pair(r)] = NoBlock], {Pair(r)})
  /\ req' = [req EXCEPT ![r] = Idle]
  /\ UNCHANGED <<rows, blocks, admin, denied>>

\* Any other failure, KeyHealth's business.
Fails(r) ==
  /\ req[r].pc = "call"
  /\ req' = Again(r)
  /\ UNCHANGED <<rows, blocks, table, admin, denied, loose>>

----------------------------------------------------------------------------
(* Operators, time and restarts.                                            *)

\* DELETE /api/key-model-blocks, and a direct test of the pair that succeeds.
OperatorUnblocks(k, m) ==
  /\ admin.op = "none"
  /\ blocks' = [blocks EXCEPT ![<<k, m>>] = NoBlock]
  /\ Forgive({<<k, m>>})
  /\ Begins({<<k, m>>})
  /\ admin' = [op |-> "unblock", key |-> k, rapi |-> m]
  /\ UNCHANGED <<rows, table, req>>

OfKey(k) == {p \in Pairs : p[1] = k}

\* DeletePlatformKey: the blocks in the table go with the row.
DeleteKey(k) ==
  /\ admin.op = "none" /\ k \in rows
  /\ rows' = rows \ {k}
  /\ table' = [p \in Pairs |-> IF p[1] = k THEN NoBlock ELSE table[p]]
  /\ admin' = [NoAdmin EXCEPT !.op = "remove", !.key = k]
  /\ UNCHANGED <<blocks, req, denied, loose>>

\* RemoveKey, clearBlocksForKey: the memory ...
RemoveKey ==
  /\ admin.op = "remove"
  /\ blocks' = [p \in Pairs |-> IF p[1] = admin.key THEN NoBlock ELSE blocks[p]]
  /\ Forgive(OfKey(admin.key))
  /\ admin' = [admin EXCEPT !.op = "clear"]
  /\ UNCHANGED <<rows, table, req, loose>>

\* ... and the table, for the pair or for the key.
OperatorUnstores ==
  /\ admin.op \in {"unblock", "clear"}
  /\ LET ps == {p \in OfKey(admin.key) : admin.op = "unblock" => p[2] = admin.rapi}
     IN  Writes([p \in Pairs |-> IF p \in ps THEN NoBlock ELSE table[p]], ps)
  /\ admin' = NoAdmin
  /\ UNCHANGED <<rows, blocks, req, denied>>

\* ApplyBundle empties the table and tells nobody.
ApplyBundle ==
  /\ table' = [p \in Pairs |-> NoBlock]
  /\ loose' = Pairs
  /\ UNCHANGED <<rows, blocks, req, admin, denied>>

CountDown(left) == IF left > 0 THEN left - 1 ELSE left

Tick ==
  /\ \/ \E p \in Pairs : blocks[p] > 0 \/ table[p] > 0
     \/ \E r \in Reqs : req[r].exp > 0
  /\ blocks' = [p \in Pairs |-> CountDown(blocks[p])]
  /\ table' = [p \in Pairs |-> CountDown(table[p])]
  /\ req' = [r \in Reqs |-> [req[r] EXCEPT !.exp = CountDown(@)]]
  /\ Forgive({p \in Pairs : blocks[p] = 1})
  /\ UNCHANGED <<rows, admin, loose>>

\* The process ends and starts again: loadKeyModelBlocks, which begins without
\* any block if it cannot read the table.
RestartBlocks ==
  /\ \/ /\ blocks' = [p \in Pairs |-> IF table[p] > 0 THEN table[p] ELSE NoBlock]
        /\ loose' = {}
     \/ blocks' = [p \in Pairs |-> NoBlock] /\ loose' = Pairs
  /\ req' = [r \in Reqs |-> Idle] /\ admin' = NoAdmin
  /\ denied' = [r \in Reqs |-> {}]
  /\ UNCHANGED <<rows, table>>

BlocksNext ==
  \/ \E r \in Reqs : \/ \E m \in Rapis : Begin(r, m)
                     \/ Look(r) \/ Purge(r) \/ Call(r) \/ Escalate(r)
                     \/ Denied(r) \/ Store(r)
                     \/ Served(r) \/ Unstore(r)
                     \/ Fails(r)
  \/ \E k \in Keys : \/ \E m \in Rapis : OperatorUnblocks(k, m)
                     \/ DeleteKey(k)
  \/ RemoveKey
  \/ OperatorUnstores
  \/ ApplyBundle
  \/ Tick
  \/ RestartBlocks

BlocksSpec == BlocksInit /\ [][BlocksNext]_blockVars

----------------------------------------------------------------------------
(* Properties.                                                              *)

\* "A key denied on the previous iteration must not be retried within this
\* request" (tryKeyForRAPI): however the blocks expire, are purged and renewed
\* by others, a request asks no key again whose denial stands.  It holds of the
\* platform's token as of any key, because a denial blocks it too, although two
\* comments call it "never blocked".
DeniedOnce == \A r \in Reqs : req[r].pc = "call" => req[r].key \notin denied[r]

Live(left) == IF left > 0 THEN left ELSE NoBlock

\* A restart neither forgets a block nor brings one back: memory and table say
\* the same of a pair of a stored key, once nobody is about to write it.  Not
\* where two writes have crossed, the second of which may have reached the
\* table first, nor where the last write of the pair has failed, and not after a
\* bundle or a start that could not read the table, until the next restart.
TableFollowsMemory ==
  \A p \in Pairs :
    p[1] \in rows /\ Writers(p) = {} /\ p \notin loose => Live(table[p]) = Live(blocks[p])
=============================================================================
