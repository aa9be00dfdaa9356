---------------------------- MODULE GatewayProofs ----------------------------
(***************************************************************************)
(* What holds of the blocks of key and model, for any keys, models and     *)
(* requests and any time to live; and of the conversion of streams, for    *)
(* any calls, chunks and attempts.                                         *)
(*                                                                         *)
(* No request asks a key again that was denied to it because a denial      *)
(* outlives the request, or is forgiven by somebody; a restart finds in    *)
(* the table what the memory held because whoever has changed one of the   *)
(* two is still on the way to the other.                                   *)
(*                                                                         *)
(* Whatever upstreams pack into their chunks, the client gets every        *)
(* content once and in order, and of one upstream only.  The argument has  *)
(* three parts.  FlattenSeq, by which contents are gathered, is the last   *)
(* of a chain of sums, so it takes concatenations to concatenations.       *)
(* Every operation on the converter's fields `tells` a sequence of         *)
(* contents: it leaves fields of their types and adds frames that carry    *)
(* just these; openings, closings and indices tell nothing.  And what the  *)
(* client has got is of the RAPI being read, which is why nothing is left  *)
(* over when another one is asked.                                         *)
(*                                                                         *)
(* That contents arrive where they belong is said of the frames a client   *)
(* has.  A block is live from its start until a frame stops it or starts   *)
(* another of its index; every delta goes into a live block, the           *)
(* converter knows one for the text and one for each call it has seen, and *)
(* a converted chunk keeps that so, call by call.  With one call only, the *)
(* block that is closed when the text or the call is left is the open one, *)
(* so each block is closed once.  For an OpenAI client the indices of      *)
(* calls never change and no two calls share one.                          *)
(*                                                                         *)
(* The index of a block is bounded, for any chunks, because a chunk has    *)
(* two calls at most and each opens one block and leaves one.              *)
(***************************************************************************)
EXTENDS CapabilityBlocks, StreamConvert, SequenceTheorems, FiniteSetTheorems, NaturalFacts

----------------------------------------------------------------------------
(* The blocks.                                                              *)

RequestStates ==
  [pc : {"idle", "filter", "purge", "call", "block", "unblock"},
   rapi : Rapis, pool : SUBSET AllKeys, todo : SUBSET AllKeys,
   key : AllKeys \cup {NoKey}, exp : 0..TTL]

Admins == [op : {"none", "unblock", "remove", "clear"}, key : Keys \cup {NoKey}, rapi : Rapis]

Busy(r) == req[r].pc # "idle"

\* A denial stands as long as its block does; the filter of the request has not
\* passed the key, or has thrown it out.
Stands(r) ==
  /\ \A k \in denied[r] : Busy(r) => blocks[<<k, req[r].rapi>>] > 0
  /\ req[r].pc \in {"filter", "purge"} => denied[r] \cap req[r].pool \subseteq req[r].todo
  /\ req[r].pc \in {"purge", "call", "block", "unblock"} => req[r].key \in AllKeys
  /\ req[r].pc = "call" => req[r].key \notin denied[r]
  /\ req[r].pc = "unblock" => req[r].key # Synthetic

BlocksInv ==
  /\ BlocksTypeOK
  /\ \A r \in Reqs : Stands(r)

----------------------------------------------------------------------------
(* Types.                                                                   *)

\* What the types say, part by part.
LEMMA TypesAre ==
  ASSUME BlocksInv
  PROVE  /\ rows \subseteq Keys
         /\ blocks \in [Pairs -> NoBlock..TTL] /\ table \in [Pairs -> NoBlock..TTL]
         /\ req \in [Reqs -> RequestStates] /\ admin \in Admins
         /\ denied \in [Reqs -> SUBSET AllKeys] /\ loose \subseteq Pairs
BY DEF BlocksInv, BlocksTypeOK, RequestStates, Admins

\* The values of a block.
LEMMA BlockValues ==
  /\ NoBlock \in NoBlock..TTL /\ TTL \in NoBlock..TTL /\ TTL > 0 /\ 0 \in 0..TTL /\ TTL \in 0..TTL
  /\ \A t \in NoBlock..TTL : t \in Int /\ CountDown(t) \in NoBlock..TTL
  /\ \A t \in 0..TTL : CountDown(t) \in 0..TTL /\ t \in NoBlock..TTL
BY BlocksAssumption DEF NoBlock, CountDown

\* A request that has not begun.
LEMMA IdleIs == Idle \in RequestStates /\ Idle.pc = "idle"
BY BlocksAssumption DEF Idle, RequestStates

\* An operator who is doing nothing.
LEMMA NoAdminIs == NoAdmin \in Admins /\ NoAdmin.op = "none"
BY BlocksAssumption DEF NoAdmin, Admins

\* What is forgiven was denied.
LEMMA ForgiveIs ==
  ASSUME BlocksInv, NEW ps, Forgive(ps)
  PROVE  /\ denied' \in [Reqs -> SUBSET AllKeys]
         /\ \A r \in Reqs : denied'[r] = {k \in denied[r] : <<k, req[r].rapi>> \notin ps}
BY TypesAre DEF Forgive

\* The pairs that may disagree are pairs.
LEMMA BeginsIs ==
  ASSUME BlocksInv, NEW ps, ps \subseteq Pairs, Begins(ps)
  PROVE  loose' \subseteq Pairs
BY TypesAre DEF Begins

\* A statement leaves a table, whether it fails or not.
LEMMA WritesIs ==
  ASSUME BlocksInv, NEW t \in [Pairs -> NoBlock..TTL], NEW ps, ps \subseteq Pairs, Writes(t, ps)
  PROVE  table' \in [Pairs -> NoBlock..TTL] /\ loose' \subseteq Pairs
BY TypesAre DEF Writes

\* The pair of a request that has a key.
LEMMA PairIs ==
  ASSUME BlocksInv, NEW r \in Reqs, req[r].pc \in {"purge", "call", "block", "unblock"}
  PROVE  Pair(r) \in Pairs /\ req[r].key \in AllKeys /\ Stands(r) /\ req[r] \in RequestStates
BY TypesAre DEF BlocksInv, Stands, Pair, Pairs, RequestStates

----------------------------------------------------------------------------
(* Steps of a request.                                                      *)

\* A step of one request that ends no block of a denied key leaves what stands.
LEMMA OneRequest ==
  ASSUME BlocksInv, NEW r \in Reqs, NEW q \in RequestStates, req' = [req EXCEPT ![r] = q],
         \A s \in Reqs : s # r =>
           \A k \in denied'[s] : k \in denied[s] /\
             (blocks[<<k, req[s].rapi>>] > 0 => blocks'[<<k, req[s].rapi>>] > 0),
         rows' \subseteq Keys, blocks' \in [Pairs -> NoBlock..TTL],
         table' \in [Pairs -> NoBlock..TTL], admin' \in Admins,
         denied' \in [Reqs -> SUBSET AllKeys], loose' \subseteq Pairs,
         Stands(r)'
  PROVE  BlocksInv'
<1>1. req' \in [Reqs -> RequestStates] /\ \A s \in Reqs : s # r => req'[s] = req[s]
  BY TypesAre
<1>2. BlocksTypeOK'
  BY <1>1 DEF BlocksTypeOK, RequestStates, Admins
<1>3. ASSUME NEW s \in Reqs, s # r PROVE Stands(s)'
  <2>1. Stands(s)
    BY DEF BlocksInv
  <2>2. denied'[s] \subseteq denied[s]
    BY <1>3
  <2> QED
    BY <1>1, <1>3, <2>1, <2>2 DEF Stands, Busy
<1> QED
  BY <1>2, <1>3 DEF BlocksInv

\* A request begins without denials.
LEMMA BeginStep == ASSUME BlocksInv, NEW r \in Reqs, NEW m \in Rapis, Begin(r, m) PROVE BlocksInv'
<1> DEFINE pool == IF rows = {} THEN {Synthetic} ELSE rows
           q == [Idle EXCEPT !.pc = "filter", !.rapi = m, !.pool = pool, !.todo = pool]
<1>1. req' = [req EXCEPT ![r] = q] /\ denied' = [denied EXCEPT ![r] = {}]
      /\ UNCHANGED <<rows, blocks, table, admin, loose>>
  BY DEF Begin
<1>2. q \in RequestStates /\ q.pc = "filter"
  BY TypesAre, IdleIs DEF RequestStates, AllKeys
<1> HIDE DEF q
<1>3. /\ req'[r] = q /\ denied'[r] = {} /\ denied' \in [Reqs -> SUBSET AllKeys]
      /\ \A s \in Reqs : s # r => denied'[s] = denied[s]
  BY <1>1, TypesAre
<1>4. Stands(r)'
  BY <1>2, <1>3 DEF Stands
<1> QED
  BY <1>1, <1>2, <1>3, <1>4, TypesAre, OneRequest

\* The first look passes only keys whose block does not stand.
LEMMA LookStep == ASSUME BlocksInv, NEW r \in Reqs, Look(r) PROVE BlocksInv'
<1>1. /\ req[r].pc = "filter" /\ Stands(r) /\ req[r] \in RequestStates
      /\ UNCHANGED <<rows, blocks, table, admin, denied, loose>>
  BY TypesAre DEF Look, BlocksInv
<1>2. PICK k \in req[r].todo :
        req' = [req EXCEPT
             ![r].pc = IF blocks[<<k, req[r].rapi>>] = 0 THEN "purge" ELSE "filter",
             ![r].key = IF blocks[<<k, req[r].rapi>>] = 0 THEN k ELSE NoKey,
             ![r].todo = @ \ {k},
             ![r].pool = IF blocks[<<k, req[r].rapi>>] > 0 THEN @ \ {k} ELSE @]
  BY DEF Look
<1> DEFINE left == blocks[<<k, req[r].rapi>>]
           q == [req[r] EXCEPT !.pc = IF left = 0 THEN "purge" ELSE "filter",
                               !.key = IF left = 0 THEN k ELSE NoKey,
                               !.todo = req[r].todo \ {k},
                               !.pool = IF left > 0 THEN req[r].pool \ {k} ELSE req[r].pool]
<1>3. req' = [req EXCEPT ![r] = q] /\ k \in AllKeys
  BY <1>1, <1>2, TypesAre DEF RequestStates
<1> HIDE DEF left
<1>4. /\ q \in RequestStates /\ q.pc = (IF left = 0 THEN "purge" ELSE "filter")
      /\ q.rapi = req[r].rapi /\ q.todo = req[r].todo \ {k}
      /\ q.key = (IF left = 0 THEN k ELSE NoKey)
      /\ q.pool = IF left > 0 THEN req[r].pool \ {k} ELSE req[r].pool
  BY <1>1, <1>3 DEF RequestStates
<1> HIDE DEF q
<1>5. k \in denied[r] => left > 0
  BY <1>1 DEF Stands, Busy, left
<1>6. req'[r] = q
  BY <1>3, TypesAre
<1>7. Stands(r)'
  BY <1>1, <1>3, <1>4, <1>5, <1>6 DEF Stands, Busy
<1> QED
  BY <1>1, <1>3, <1>4, <1>7, TypesAre, OneRequest

\* The second look removes no block that stands.
LEMMA PurgeStep == ASSUME BlocksInv, NEW r \in Reqs, Purge(r) PROVE BlocksInv'
<1> DEFINE left == blocks[Pair(r)]
           q == [req[r] EXCEPT !.pc = "filter", !.key = NoKey,
                               !.pool = IF left > 0 THEN req[r].pool \ {req[r].key} ELSE req[r].pool]
<1>1. /\ req[r].pc = "purge" /\ Stands(r) /\ req[r] \in RequestStates /\ Pair(r) \in Pairs
      /\ UNCHANGED <<rows, table, admin, denied, loose>>
  BY PairIs DEF Purge
<1>2. req' = [req EXCEPT ![r] = q]
  BY <1>1, TypesAre DEF Purge
<1>3. /\ q \in RequestStates /\ q.pc = "filter" /\ q.rapi = req[r].rapi /\ q.todo = req[r].todo
      /\ q.pool \subseteq req[r].pool
  BY <1>1 DEF RequestStates
<1> HIDE DEF q
<1>4. /\ blocks' \in [Pairs -> NoBlock..TTL]
      /\ \A p \in Pairs : blocks[p] > 0 => blocks'[p] = blocks[p]
  BY <1>1, TypesAre, BlockValues DEF Purge
<1>5. req'[r] = q
  BY <1>2, TypesAre
<1>6. \A s \in Reqs : \A k \in denied[s] : <<k, req[s].rapi>> \in Pairs
  BY TypesAre DEF Pairs, RequestStates
<1>7. Stands(r)'
  BY <1>1, <1>3, <1>4, <1>5, <1>6 DEF Stands, Busy
<1> QED
  BY <1>1, <1>2, <1>3, <1>4, <1>6, <1>7, TypesAre, OneRequest

\* A key that is given out has passed.
LEMMA CallStep == ASSUME BlocksInv, NEW r \in Reqs, Call(r) PROVE BlocksInv'
<1>1. /\ req[r].pc = "filter" /\ req[r].todo = {} /\ Stands(r) /\ req[r] \in RequestStates
      /\ UNCHANGED <<rows, blocks, table, admin, denied, loose>>
  BY TypesAre DEF Call, BlocksInv
<1>2. PICK k \in req[r].pool : req' = [req EXCEPT ![r].pc = "call", ![r].key = k]
  BY DEF Call
<1> DEFINE q == [req[r] EXCEPT !.pc = "call", !.key = k]
<1>3. req' = [req EXCEPT ![r] = q]
  BY <1>2, TypesAre
<1>4. q \in RequestStates /\ q.pc = "call" /\ q.key = k /\ q.rapi = req[r].rapi /\ k \in AllKeys
  BY <1>1 DEF RequestStates
<1> HIDE DEF q
<1>5. k \notin denied[r]
  BY <1>1 DEF Stands
<1>6. req'[r] = q
  BY <1>3, TypesAre
<1>7. Stands(r)'
  BY <1>1, <1>4, <1>5, <1>6 DEF Stands, Busy
<1> QED
  BY <1>1, <1>3, <1>4, <1>7, TypesAre, OneRequest

\* A request that ends.
LEMMA EndStep ==
  ASSUME BlocksInv, NEW r \in Reqs, Escalate(r) \/ Unstore(r) PROVE BlocksInv'
<1>1. req' = [req EXCEPT ![r] = Idle] /\ UNCHANGED <<rows, blocks, admin, denied>>
  BY DEF Escalate, Unstore
<1>2. req'[r] = Idle
  BY <1>1, TypesAre
<1>3. Stands(r)'
  BY <1>2, IdleIs DEF Stands, Busy
<1>4. table' \in [Pairs -> NoBlock..TTL] /\ loose' \subseteq Pairs
  <2>1. CASE Escalate(r)
    BY <2>1, TypesAre DEF Escalate
  <2>2. CASE Unstore(r)
    <3>1. Writes([table EXCEPT ![Pair(r)] = NoBlock], {Pair(r)}) /\ {Pair(r)} \subseteq Pairs
      BY <2>2, PairIs DEF Unstore
    <3>2. [table EXCEPT ![Pair(r)] = NoBlock] \in [Pairs -> NoBlock..TTL]
      BY TypesAre, BlockValues
    <3> QED
      BY <3>1, <3>2, WritesIs
  <2> QED
    BY <2>1, <2>2
<1> QED
  BY <1>1, <1>3, <1>4, IdleIs, TypesAre, OneRequest

\* A denial stands: the block begins with it.
LEMMA DeniedStep == ASSUME BlocksInv, NEW r \in Reqs, Denied(r) PROVE BlocksInv'
<1> DEFINE q == [req[r] EXCEPT !.pc = "block", !.exp = TTL]
<1>1. /\ req[r].pc = "call" /\ Stands(r) /\ req[r] \in RequestStates /\ Pair(r) \in Pairs
      /\ req[r].key \in AllKeys /\ UNCHANGED <<rows, table, admin>>
      /\ blocks' = [blocks EXCEPT ![Pair(r)] = TTL]
      /\ denied' = [denied EXCEPT ![r] = @ \cup {req[r].key}]
  BY PairIs DEF Denied
<1>2. req' = [req EXCEPT ![r] = q]
  BY <1>1, TypesAre DEF Denied
<1>3. q \in RequestStates /\ q.pc = "block" /\ q.rapi = req[r].rapi /\ q.key = req[r].key
  BY <1>1, BlockValues DEF RequestStates
<1> HIDE DEF q
<1>4. /\ blocks' \in [Pairs -> NoBlock..TTL] /\ blocks'[Pair(r)] > 0
      /\ \A p \in Pairs : blocks[p] > 0 => blocks'[p] > 0
  BY <1>1, TypesAre, BlockValues
<1>5. /\ denied' \in [Reqs -> SUBSET AllKeys] /\ denied'[r] = denied[r] \cup {req[r].key}
      /\ \A s \in Reqs : s # r => denied'[s] = denied[s]
  BY <1>1, TypesAre
<1>6. req'[r] = q
  BY <1>2, TypesAre
<1>7. \A s \in Reqs : \A k \in denied[s] : <<k, req[s].rapi>> \in Pairs
  BY TypesAre DEF Pairs, RequestStates
<1>8. Stands(r)'
  BY <1>1, <1>3, <1>4, <1>5, <1>6, <1>7 DEF Stands, Busy, Pair
<1>9. loose' \subseteq Pairs
  BY <1>1, BeginsIs DEF Denied
<1> QED
  BY <1>1, <1>2, <1>3, <1>4, <1>5, <1>7, <1>8, <1>9, TypesAre, OneRequest

\* The filter begins again with all that is left of the pool.
LEMMA AgainStep == ASSUME BlocksInv, NEW r \in Reqs, Store(r) \/ Fails(r) PROVE BlocksInv'
<1> DEFINE q == [req[r] EXCEPT !.pc = "filter", !.todo = req[r].pool, !.key = NoKey, !.exp = 0]
<1>1. /\ Stands(r) /\ req[r] \in RequestStates /\ Busy(r)
      /\ UNCHANGED <<rows, blocks, admin, denied>>
  BY PairIs DEF Store, Fails, Busy
<1>2. req' = [req EXCEPT ![r] = q]
  BY TypesAre DEF Store, Fails, Again
<1>3. /\ q \in RequestStates /\ q.pc = "filter" /\ q.rapi = req[r].rapi
      /\ q.pool = req[r].pool /\ q.todo = req[r].pool
  BY <1>1, BlockValues DEF RequestStates
<1> HIDE DEF q
<1>4. req'[r] = q
  BY <1>2, TypesAre
<1>5. Stands(r)'
  BY <1>1, <1>3, <1>4 DEF Stands, Busy
<1>6. table' \in [Pairs -> NoBlock..TTL] /\ loose' \subseteq Pairs
  <2>1. CASE Store(r)
    <3> DEFINE t == IF req[r].key \in rows THEN [table EXCEPT ![Pair(r)] = req[r].exp] ELSE table
    <3>1. req[r].exp \in NoBlock..TTL
      BY <1>1, BlockValues DEF RequestStates
    <3>2. Writes(t, {Pair(r)}) /\ {Pair(r)} \subseteq Pairs
      BY <2>1, PairIs DEF Store
    <3>3. t \in [Pairs -> NoBlock..TTL]
      BY <3>1, TypesAre
    <3> QED
      BY <3>2, <3>3, WritesIs
  <2>2. CASE Fails(r)
    BY <2>2, TypesAre DEF Fails
  <2> QED
    BY <2>1, <2>2
<1> QED
  BY <1>1, <1>2, <1>3, <1>5, <1>6, TypesAre, OneRequest

\* A block that a success ends forgives whoever was denied by it.
LEMMA ServedStep == ASSUME BlocksInv, NEW r \in Reqs, Served(r) PROVE BlocksInv'
<1>1. /\ req[r].pc = "call" /\ Stands(r) /\ req[r] \in RequestStates /\ Pair(r) \in Pairs
      /\ req[r].key \in AllKeys /\ UNCHANGED <<rows, table, admin>>
  BY PairIs DEF Served
<1>2. CASE req[r].key = Synthetic
  <2>1. req' = [req EXCEPT ![r] = Idle] /\ UNCHANGED <<blocks, denied, loose>>
    BY <1>2 DEF Served
  <2>2. Stands(r)'
    BY <2>1, IdleIs, TypesAre DEF Stands, Busy
  <2> QED
    BY <1>1, <2>1, <2>2, IdleIs, TypesAre, OneRequest
<1>3. CASE req[r].key # Synthetic
  <2> DEFINE q == [req[r] EXCEPT !.pc = "unblock"]
  <2>1. /\ blocks' = [blocks EXCEPT ![Pair(r)] = NoBlock] /\ Forgive({Pair(r)})
        /\ Begins({Pair(r)}) /\ req' = [req EXCEPT ![r] = q]
    BY <1>3 DEF Served
  <2>2. q \in RequestStates /\ q.pc = "unblock" /\ q.rapi = req[r].rapi /\ q.key = req[r].key
    BY <1>1 DEF RequestStates
  <2> HIDE DEF q
  <2>3. /\ denied' \in [Reqs -> SUBSET AllKeys]
        /\ \A s \in Reqs : denied'[s] = {k \in denied[s] : <<k, req[s].rapi>> \notin {Pair(r)}}
    BY <2>1, ForgiveIs
  <2>4. blocks' \in [Pairs -> NoBlock..TTL] /\ \A p \in Pairs : p # Pair(r) => blocks'[p] = blocks[p]
    BY <2>1, TypesAre, BlockValues
  <2>5. \A s \in Reqs : \A k \in denied'[s] :
          k \in denied[s] /\ <<k, req[s].rapi>> \in Pairs
            /\ blocks'[<<k, req[s].rapi>>] = blocks[<<k, req[s].rapi>>]
    BY <2>3, <2>4, TypesAre DEF Pairs, RequestStates
  <2>6. req'[r] = q
    BY <2>1, TypesAre
  <2>7. Stands(r)'
    BY <1>1, <1>3, <2>2, <2>5, <2>6 DEF Stands, Busy
  <2>8. loose' \subseteq Pairs
    BY <1>1, <2>1, BeginsIs
  <2> QED
    BY <1>1, <2>1, <2>2, <2>3, <2>4, <2>5, <2>7, <2>8, TypesAre, OneRequest
<1> QED
  BY <1>2, <1>3

----------------------------------------------------------------------------
(* Operators, time and restarts.                                            *)

\* A step that leaves every request where it is, and ends no block without
\* forgiving whoever was denied by it.
LEMMA BlocksEnvironment ==
  ASSUME BlocksInv, req' \in [Reqs -> RequestStates],
         \A r \in Reqs : /\ req'[r].pc = req[r].pc /\ req'[r].key = req[r].key
                         /\ req'[r].rapi = req[r].rapi
                         /\ req'[r].pool = req[r].pool /\ req'[r].todo = req[r].todo,
         \A r \in Reqs : \A k \in denied'[r] : k \in denied[r] /\
           (blocks[<<k, req[r].rapi>>] > 0 => blocks'[<<k, req[r].rapi>>] > 0),
         rows' \subseteq Keys, blocks' \in [Pairs -> NoBlock..TTL],
         table' \in [Pairs -> NoBlock..TTL], admin' \in Admins,
         denied' \in [Reqs -> SUBSET AllKeys], loose' \subseteq Pairs
  PROVE  BlocksInv'
<1>1. BlocksTypeOK'
  BY DEF BlocksTypeOK, RequestStates, Admins
<1>2. ASSUME NEW r \in Reqs PROVE Stands(r)'
  <2>1. Stands(r) /\ denied'[r] \subseteq denied[r]
    BY DEF BlocksInv
  <2> QED
    BY <2>1 DEF Stands, Busy
<1> QED
  BY <1>1, <1>2 DEF BlocksInv

\* Pairs of denied keys are pairs.
LEMMA DeniedPairs ==
  ASSUME BlocksInv
  PROVE  \A r \in Reqs : \A k \in denied[r] : <<k, req[r].rapi>> \in Pairs
BY TypesAre DEF Pairs, RequestStates

\* An operator unblocks a pair.
LEMMA OperatorUnblocksStep ==
  ASSUME BlocksInv, NEW k \in Keys, NEW m \in Rapis, OperatorUnblocks(k, m) PROVE BlocksInv'
<1>1. /\ <<k, m>> \in Pairs /\ Forgive({<<k, m>>}) /\ Begins({<<k, m>>})
      /\ blocks' = [blocks EXCEPT ![<<k, m>>] = NoBlock]
      /\ admin' = [op |-> "unblock", key |-> k, rapi |-> m] /\ UNCHANGED <<rows, table, req>>
  BY DEF OperatorUnblocks, Pairs, AllKeys
<1>2. /\ blocks' \in [Pairs -> NoBlock..TTL]
      /\ \A p \in Pairs : p # <<k, m>> => blocks'[p] = blocks[p]
  BY <1>1, TypesAre, BlockValues
<1>3. admin' \in Admins /\ loose' \subseteq Pairs
  BY <1>1, BeginsIs DEF Admins
<1> QED
  BY <1>1, <1>2, <1>3, ForgiveIs, DeniedPairs, TypesAre, BlocksEnvironment

\* A key is deleted; its blocks stay in memory until it is removed.
LEMMA DeleteKeyStep == ASSUME BlocksInv, NEW k \in Keys, DeleteKey(k) PROVE BlocksInv'
<1>1. /\ rows' \subseteq Keys /\ UNCHANGED <<blocks, req, denied, loose>>
      /\ admin' = [NoAdmin EXCEPT !.op = "remove", !.key = k]
  BY TypesAre DEF DeleteKey
<1>2. table' \in [Pairs -> NoBlock..TTL]
  BY TypesAre, BlockValues DEF DeleteKey
<1>3. admin' \in Admins
  BY <1>1, NoAdminIs DEF Admins
<1> QED
  BY <1>1, <1>2, <1>3, TypesAre, BlocksEnvironment

\* The blocks of a removed key go from memory.
LEMMA RemoveKeyStep == ASSUME BlocksInv, RemoveKey PROVE BlocksInv'
<1>1. /\ Forgive(OfKey(admin.key)) /\ UNCHANGED <<rows, table, req, loose>>
      /\ admin' = [admin EXCEPT !.op = "clear"]
      /\ blocks' = [p \in Pairs |-> IF p[1] = admin.key THEN NoBlock ELSE blocks[p]]
  BY DEF RemoveKey
<1>2. /\ blocks' \in [Pairs -> NoBlock..TTL]
      /\ \A p \in Pairs : p \notin OfKey(admin.key) => blocks'[p] = blocks[p]
  BY <1>1, TypesAre, BlockValues DEF OfKey
<1>3. admin' \in Admins
  BY <1>1, TypesAre DEF Admins
<1> QED
  BY <1>1, <1>2, <1>3, ForgiveIs, DeniedPairs, TypesAre, BlocksEnvironment

\* What only the table sees.
LEMMA TableStep == ASSUME BlocksInv, OperatorUnstores \/ ApplyBundle PROVE BlocksInv'
<1>1. UNCHANGED <<rows, blocks, req, denied>>
  BY DEF OperatorUnstores, ApplyBundle
<1>2. admin' \in Admins
  BY TypesAre, NoAdminIs DEF OperatorUnstores, ApplyBundle
<1>3. table' \in [Pairs -> NoBlock..TTL] /\ loose' \subseteq Pairs
  <2>1. CASE OperatorUnstores
    <3> DEFINE ps == {p \in OfKey(admin.key) : admin.op = "unblock" => p[2] = admin.rapi}
               t == [p \in Pairs |-> IF p \in ps THEN NoBlock ELSE table[p]]
    <3>1. Writes(t, ps)
      BY <2>1 DEF OperatorUnstores
    <3>2. t \in [Pairs -> NoBlock..TTL] /\ ps \subseteq Pairs
      BY TypesAre, BlockValues DEF OfKey
    <3> HIDE DEF ps, t
    <3> QED
      BY <3>1, <3>2, WritesIs
  <2>2. CASE ApplyBundle
    BY <2>2, BlockValues DEF ApplyBundle
  <2> QED
    BY <2>1, <2>2
<1> QED
  BY <1>1, <1>2, <1>3, TypesAre, BlocksEnvironment

\* A block that time ends forgives whoever was denied by it.
LEMMA TickStep == ASSUME BlocksInv, Tick PROVE BlocksInv'
<1> DEFINE ending == {p \in Pairs : blocks[p] = 1}
<1>1. /\ Forgive(ending) /\ UNCHANGED <<rows, admin, loose>>
      /\ blocks' = [p \in Pairs |-> CountDown(blocks[p])]
      /\ table' = [p \in Pairs |-> CountDown(table[p])]
      /\ req' = [r \in Reqs |-> [req[r] EXCEPT !.exp = CountDown(@)]]
  BY DEF Tick
<1>2. blocks' \in [Pairs -> NoBlock..TTL] /\ table' \in [Pairs -> NoBlock..TTL]
  BY <1>1, TypesAre, BlockValues
<1>3. \A p \in Pairs : p \notin ending /\ blocks[p] > 0 => blocks'[p] > 0
  <2> TAKE p \in Pairs
  <2>1. blocks[p] \in Int
    BY TypesAre, BlockValues
  <2> QED
    BY <1>1, <2>1 DEF CountDown
<1> HIDE DEF ending
<1>4. /\ req' \in [Reqs -> RequestStates]
      /\ \A r \in Reqs : /\ req'[r].pc = req[r].pc /\ req'[r].key = req[r].key
                         /\ req'[r].rapi = req[r].rapi
                         /\ req'[r].pool = req[r].pool /\ req'[r].todo = req[r].todo
  <2>1. ASSUME NEW r \in Reqs
        PROVE  /\ req'[r] \in RequestStates
               /\ req'[r].pc = req[r].pc /\ req'[r].key = req[r].key
               /\ req'[r].rapi = req[r].rapi
               /\ req'[r].pool = req[r].pool /\ req'[r].todo = req[r].todo
    <3>1. req'[r] = [req[r] EXCEPT !.exp = CountDown(req[r].exp)] /\ req[r] \in RequestStates
      BY <1>1, TypesAre
    <3>2. CountDown(req[r].exp) \in 0..TTL
      BY <3>1, BlockValues DEF RequestStates
    <3> QED
      BY <3>1, <3>2 DEF RequestStates
  <2>2. DOMAIN req' = Reqs /\ req' = [r \in Reqs |-> req'[r]]
    BY <1>1
  <2> QED
    BY <2>1, <2>2
<1> QED
  BY <1>1, <1>2, <1>3, <1>4, ForgiveIs, DeniedPairs, TypesAre, BlocksEnvironment

\* After a restart no request is under way.
LEMMA RestartStep == ASSUME BlocksInv, RestartBlocks PROVE BlocksInv'
<1>1. /\ req' = [r \in Reqs |-> Idle] /\ admin' = NoAdmin
      /\ denied' = [r \in Reqs |-> {}] /\ UNCHANGED <<rows, table>>
  BY DEF RestartBlocks
<1>2. blocks' \in [Pairs -> NoBlock..TTL] /\ loose' \subseteq Pairs
  BY TypesAre, BlockValues DEF RestartBlocks
<1>3. BlocksTypeOK'
  BY <1>1, <1>2, TypesAre, IdleIs, NoAdminIs DEF BlocksTypeOK, RequestStates, Admins
<1>4. \A r \in Reqs : Stands(r)'
  BY <1>1, IdleIs DEF Stands, Busy
<1> QED
  BY <1>3, <1>4 DEF BlocksInv

----------------------------------------------------------------------------
(* Theorems.                                                                *)

\* The first state.
LEMMA BlocksInvInit == BlocksInit => BlocksInv
<1> SUFFICES ASSUME BlocksInit PROVE BlocksInv
  OBVIOUS
<1>1. BlocksTypeOK
  BY IdleIs, NoAdminIs, BlockValues DEF BlocksInit, BlocksTypeOK, RequestStates, Admins
<1>2. \A r \in Reqs : Stands(r)
  BY IdleIs DEF BlocksInit, Stands, Busy
<1> QED
  BY <1>1, <1>2 DEF BlocksInv

\* Every step.
LEMMA BlocksInvNext == BlocksInv /\ [BlocksNext]_blockVars => BlocksInv'
<1> SUFFICES ASSUME BlocksInv, [BlocksNext]_blockVars PROVE BlocksInv'
  OBVIOUS
<1>1. ASSUME NEW r \in Reqs, NEW m \in Rapis, Begin(r, m) PROVE BlocksInv'
  BY <1>1, BeginStep
<1>2. ASSUME NEW r \in Reqs,
             Look(r) \/ Purge(r) \/ Call(r) \/ Escalate(r) \/ Denied(r) \/ Store(r)
               \/ Served(r) \/ Unstore(r) \/ Fails(r)
      PROVE  BlocksInv'
  BY <1>2, LookStep, PurgeStep, CallStep, EndStep, DeniedStep, AgainStep, ServedStep
<1>3. ASSUME NEW k \in Keys, NEW m \in Rapis, OperatorUnblocks(k, m) PROVE BlocksInv'
  BY <1>3, OperatorUnblocksStep
<1>4. ASSUME NEW k \in Keys, DeleteKey(k) PROVE BlocksInv'
  BY <1>4, DeleteKeyStep
<1>5. CASE RemoveKey
  BY <1>5, RemoveKeyStep
<1>6. CASE OperatorUnstores \/ ApplyBundle
  BY <1>6, TableStep
<1>7. CASE Tick
  BY <1>7, TickStep
<1>8. CASE RestartBlocks
  BY <1>8, RestartStep
<1>9. CASE UNCHANGED blockVars
  BY <1>9 DEF blockVars, BlocksInv, BlocksTypeOK, Stands, Busy
<1> QED
  BY <1>1, <1>2, <1>3, <1>4, <1>5, <1>6, <1>7, <1>8, <1>9 DEF BlocksNext

\* The invariant holds in every state.
THEOREM BlocksInvariant == BlocksSpec => []BlocksInv
BY BlocksInvInit, BlocksInvNext, PTL DEF BlocksSpec

\* The states are what BlocksTypeOK says.
THEOREM BlocksTypeCorrect == BlocksSpec => []BlocksTypeOK
<1>1. BlocksInv => BlocksTypeOK
  BY DEF BlocksInv
<1> QED
  BY <1>1, BlocksInvariant, PTL

\* "A key denied on the previous iteration must not be retried within this
\* request": for any number of keys, models and requests.
THEOREM NeverAskedTwice == BlocksSpec => []DeniedOnce
<1>1. BlocksInv => DeniedOnce
  BY DEF BlocksInv, DeniedOnce, Stands
<1> QED
  BY <1>1, BlocksInvariant, PTL

----------------------------------------------------------------------------
(* Memory and table.                                                        *)

Writing(r, p) == req[r].pc \in {"block", "unblock"} /\ Pair(r) = p

Unblocking(p) == admin.op = "unblock" /\ <<admin.key, admin.rapi>> = p

\* One write at most is on its way to the row of a pair, and it carries what the
\* memory holds; without one the row says it already.
Agrees(p) ==
  /\ \A r \in Reqs : Writing(r, p) =>
       Live(blocks[p]) = IF req[r].pc = "block" THEN Live(req[r].exp) ELSE NoBlock
  /\ \A r, s \in Reqs : Writing(r, p) /\ Writing(s, p) => r = s
  /\ Unblocking(p) => Live(blocks[p]) = NoBlock /\ \A r \in Reqs : ~Writing(r, p)
  /\ (\A r \in Reqs : ~Writing(r, p)) /\ ~Unblocking(p) => Live(table[p]) = Live(blocks[p])

\* A key that is being removed has no row any more, and none comes back.
Gone == admin.op \in {"remove", "clear"} => admin.key \notin rows

Agreement == Gone /\ \A p \in Pairs : p[1] \in rows /\ p \notin loose => Agrees(p)

\* Nobody writes a pair whose writers are none.
LEMMA NoWriters ==
  ASSUME Gone, NEW p \in Pairs, p[1] \in rows
  PROVE  Writers(p) = {} <=> (\A r \in Reqs : ~Writing(r, p)) /\ ~Unblocking(p)
<1>1. p = <<p[1], p[2]>>
  BY DEF Pairs
<1>2. (\A r \in Reqs : ~Writing(r, p)) <=>
        {r \in Reqs : req[r].pc \in {"block", "unblock"} /\ <<req[r].key, req[r].rapi>> = p} = {}
  BY DEF Writing, Pair
<1>3. ~Unblocking(p) <=>
        {a \in {admin} : a.op \in {"unblock", "clear"} /\ a.key = p[1]
                            /\ (a.op = "unblock" => a.rapi = p[2])} = {}
  <2>1. Unblocking(p) <=> admin.op = "unblock" /\ admin.key = p[1] /\ admin.rapi = p[2]
    BY <1>1 DEF Unblocking
  <2> QED
    BY <2>1 DEF Gone
<1> QED
  BY <1>2, <1>3 DEF Writers

\* A pair nobody touches goes on to agree.
LEMMA AgreesKept ==
  ASSUME NEW p, Agrees(p),
         Live(blocks'[p]) = Live(blocks[p]), Live(table'[p]) = Live(table[p]),
         \A r \in Reqs : Writing(r, p)' <=> Writing(r, p),
         \A r \in Reqs : Writing(r, p) => req'[r].pc = req[r].pc /\ req'[r].exp = req[r].exp,
         Unblocking(p)' <=> Unblocking(p)
  PROVE  Agrees(p)'
<1>1. \A r \in Reqs : Writing(r, p)' =>
        Live(blocks'[p]) = IF req'[r].pc = "block" THEN Live(req'[r].exp) ELSE NoBlock
  BY DEF Agrees
<1>2. \A r, s \in Reqs : Writing(r, p)' /\ Writing(s, p)' => r = s
  BY DEF Agrees
<1>3. Unblocking(p)' => Live(blocks'[p]) = NoBlock /\ \A r \in Reqs : ~Writing(r, p)'
  BY DEF Agrees
<1>4. (\A r \in Reqs : ~Writing(r, p)') /\ ~Unblocking(p)' => Live(table'[p]) = Live(blocks'[p])
  BY DEF Agrees
<1> HIDE DEF Writing, Unblocking, Live
<1> QED
  BY <1>1, <1>2, <1>3, <1>4 DEF Agrees, Live

\* Steps of a request that neither begin nor end a write.
LEMMA QuietRequest ==
  ASSUME BlocksInv, Agreement, NEW r \in Reqs, NEW q, req' = [req EXCEPT ![r] = q],
         req[r].pc \notin {"block", "unblock"}, q.pc \notin {"block", "unblock"},
         UNCHANGED <<rows, table, admin, loose>>,
         \A p \in Pairs : Live(blocks'[p]) = Live(blocks[p])
  PROVE  Agreement'
<1>1. \A s \in Reqs : req'[s] = IF s = r THEN q ELSE req[s]
  BY TypesAre
<1>2. ASSUME NEW p \in Pairs, p[1] \in rows', p \notin loose' PROVE Agrees(p)'
  <2>1. Agrees(p)
    BY <1>2 DEF Agreement
  <2>2. \A s \in Reqs : /\ Writing(s, p)' <=> Writing(s, p)
                        /\ Writing(s, p) => req'[s] = req[s]
    BY <1>1 DEF Writing, Pair
  <2>3. Unblocking(p)' <=> Unblocking(p)
    BY DEF Unblocking
  <2> QED
    BY <2>1, <2>2, <2>3, AgreesKept
<1> QED
  BY <1>2 DEF Agreement, Gone

\* What the filter and the pool do to a request is no write.
LEMMA QuietSteps ==
  ASSUME BlocksInv, Agreement, NEW r \in Reqs,
         \/ \E m \in Rapis : Begin(r, m)
         \/ Look(r) \/ Call(r) \/ Escalate(r) \/ Fails(r)
  PROVE  Agreement'
<1>1. req[r].pc \notin {"block", "unblock"} /\ UNCHANGED <<rows, blocks, table, admin, loose>>
  BY DEF Begin, Look, Call, Escalate, Fails
<1>2. /\ req' = [req EXCEPT ![r] = req'[r]]
      /\ req'[r].pc \notin {"block", "unblock"}
  <2>0. req \in [Reqs -> RequestStates] /\ req[r] \in RequestStates
    BY TypesAre
  <2>1. ASSUME NEW m \in Rapis, Begin(r, m) PROVE <1>2!1 /\ <1>2!2
    <3> DEFINE pool == IF rows = {} THEN {Synthetic} ELSE rows
               q == [Idle EXCEPT !.pc = "filter", !.rapi = m, !.pool = pool, !.todo = pool]
    <3>1. req' = [req EXCEPT ![r] = q]
      BY <2>1 DEF Begin
    <3>2. q.pc = "filter"
      BY IdleIs DEF RequestStates
    <3> HIDE DEF q
    <3> QED
      BY <2>0, <3>1, <3>2
  <2>2. CASE Look(r)
    <3>1. PICK k \in req[r].todo :
             req' = [req EXCEPT
               ![r].pc = IF blocks[<<k, req[r].rapi>>] = 0 THEN "purge" ELSE "filter",
               ![r].key = IF blocks[<<k, req[r].rapi>>] = 0 THEN k ELSE NoKey,
               ![r].todo = @ \ {k},
               ![r].pool = IF blocks[<<k, req[r].rapi>>] > 0 THEN @ \ {k} ELSE @]
      BY <2>2 DEF Look
    <3> DEFINE left == blocks[<<k, req[r].rapi>>]
               q == [req[r] EXCEPT !.pc = IF left = 0 THEN "purge" ELSE "filter",
                                   !.key = IF left = 0 THEN k ELSE NoKey,
                                   !.todo = req[r].todo \ {k},
                                   !.pool = IF left > 0 THEN req[r].pool \ {k} ELSE req[r].pool]
    <3>2. req' = [req EXCEPT ![r] = q]
      BY <2>0, <3>1
    <3>3. q.pc = IF left = 0 THEN "purge" ELSE "filter"
      BY <2>0 DEF RequestStates
    <3> HIDE DEF q, left
    <3> QED
      BY <2>0, <3>2, <3>3
  <2>3. CASE Call(r)
    <3>1. PICK k : req' = [req EXCEPT ![r].pc = "call", ![r].key = k]
      BY <2>3 DEF Call
    <3> QED
      BY <2>0, <3>1 DEF RequestStates
  <2>4. CASE Escalate(r)
    BY <2>0, <2>4, IdleIs DEF Escalate
  <2>5. CASE Fails(r)
    BY <2>0, <2>5 DEF Fails, Again, RequestStates
  <2> QED
    BY <2>1, <2>2, <2>3, <2>4, <2>5
<1> QED
  BY <1>1, <1>2, QuietRequest

\* To purge a block that has expired is no news to the table.
LEMMA PurgeQuiet == ASSUME BlocksInv, Agreement, NEW r \in Reqs, Purge(r) PROVE Agreement'
<1>1. \A p \in Pairs : Live(blocks'[p]) = Live(blocks[p])
  BY TypesAre, BlockValues, PairIs DEF Purge, Live, NoBlock
<1>2. /\ req[r].pc = "purge" /\ UNCHANGED <<rows, table, admin, loose>>
      /\ \A s \in Reqs : s # r => req'[s] = req[s]
      /\ req'[r].pc = "filter" /\ req' = [s \in Reqs |-> req'[s]]
  BY TypesAre DEF Purge, RequestStates
<1>3. req' = [req EXCEPT ![r] = req'[r]]
  BY <1>2, TypesAre
<1> QED
  BY <1>1, <1>2, <1>3, QuietRequest

\* A write begins: from now on the pair agrees, unless another write is under way.
LEMMA WriteBegins ==
  ASSUME BlocksInv, Agreement, NEW r \in Reqs, NEW q, req' = [req EXCEPT ![r] = q],
         req[r].pc = "call", q.pc \in {"block", "unblock"}, q.key = req[r].key,
         q.rapi = req[r].rapi, NEW b, blocks' = [blocks EXCEPT ![Pair(r)] = b],
         Live(b) = IF q.pc = "block" THEN Live(q.exp) ELSE NoBlock,
         Begins({Pair(r)}), UNCHANGED <<rows, table, admin>>
  PROVE  Agreement'
<1> DEFINE P == Pair(r)
<1>1. /\ \A s \in Reqs : req'[s] = IF s = r THEN q ELSE req[s]
      /\ \A p \in Pairs : blocks'[p] = IF p = P THEN b ELSE blocks[p]
      /\ P \in Pairs
  BY TypesAre, PairIs
<1>2. /\ \A p : \A s \in Reqs : s # r => /\ Writing(s, p)' <=> Writing(s, p)
                                       /\ req'[s] = req[s]
      /\ \A p : ~Writing(r, p) /\ (Writing(r, p)' <=> p = P)
      /\ \A p : Unblocking(p)' <=> Unblocking(p)
  BY <1>1 DEF Writing, Pair, Unblocking
<1> HIDE DEF P
<1>3. ASSUME NEW p \in Pairs, p[1] \in rows', p \notin loose' PROVE Agrees(p)'
  <2>1. CASE p = P
    <3>1. Writers(p) = {}
      BY <1>3, <2>1 DEF Begins, P
    <3>2. (\A s \in Reqs : ~Writing(s, p)) /\ ~Unblocking(p)
      BY <1>1, <1>3, <2>1, <3>1, NoWriters DEF Agreement
    <3>3. \A s \in Reqs : Writing(s, p)' => s = r
      BY <1>2, <3>2
    <3>4. Writing(r, p)' /\ ~Unblocking(p)'
      BY <1>2, <2>1, <3>2
    <3>5. req'[r] = q /\ blocks'[p] = b
      BY <1>1, <2>1
    <3>6. Live(blocks'[p]) = IF req'[r].pc = "block" THEN Live(req'[r].exp) ELSE NoBlock
      BY <3>5
    <3> QED
      BY <3>3, <3>4, <3>6 DEF Agrees
  <2>2. CASE p # P
    <3>1. p \notin loose
      BY <1>3, <2>2 DEF Begins, P
    <3>2. Agrees(p) /\ blocks'[p] = blocks[p]
      BY <1>1, <1>3, <2>2, <3>1 DEF Agreement
    <3> QED
      BY <1>2, <2>2, <3>2, AgreesKept
  <2> QED
    BY <2>1, <2>2
<1> QED
  BY <1>3 DEF Agreement, Gone

\* A write ends, and leaves in the row what the memory holds, or fails.
LEMMA WriteEnds ==
  ASSUME BlocksInv, Agreement, NEW r \in Reqs, NEW q, req' = [req EXCEPT ![r] = q],
         req[r].pc \in {"block", "unblock"}, q.pc \notin {"block", "unblock"},
         NEW t,
         \/ /\ UNCHANGED loose
            /\ req[r].key \in rows =>
                 Live(t) = IF req[r].pc = "block" THEN Live(req[r].exp) ELSE NoBlock
         \/ loose' = loose \cup {Pair(r)},
         table' = [table EXCEPT ![Pair(r)] = t],
         UNCHANGED <<rows, blocks, admin>>
  PROVE  Agreement'
<1>1. /\ \A s \in Reqs : req'[s] = IF s = r THEN q ELSE req[s]
      /\ \A p \in Pairs : table'[p] = IF p = Pair(r) THEN t ELSE table[p]
      /\ Pair(r)[1] = req[r].key
  BY TypesAre, PairIs DEF Pair
<1>2. /\ \A p : \A s \in Reqs : s # r => /\ Writing(s, p)' <=> Writing(s, p)
                                       /\ req'[s] = req[s]
      /\ \A p : (Writing(r, p) <=> p = Pair(r)) /\ ~Writing(r, p)'
      /\ \A p : Unblocking(p)' <=> Unblocking(p)
  BY <1>1 DEF Writing, Pair, Unblocking
<1>3. ASSUME NEW p \in Pairs, p[1] \in rows', p \notin loose' PROVE Agrees(p)'
  <2>1. Agrees(p) /\ loose \subseteq loose'
    BY <1>3 DEF Agreement
  <2>2. CASE p = Pair(r)
    <3>1. (\A s \in Reqs : ~Writing(s, p)') /\ ~Unblocking(p)'
      BY <1>2, <2>1, <2>2 DEF Agrees
    <3>2. Live(blocks[p]) = IF req[r].pc = "block" THEN Live(req[r].exp) ELSE NoBlock
      BY <1>2, <2>1, <2>2 DEF Agrees
    <3>3. req[r].key \in rows /\ table'[p] = t /\ UNCHANGED loose
      BY <1>1, <1>3, <2>2
    <3>4. Live(table'[p]) = Live(blocks'[p])
      BY <1>3, <2>2, <3>2, <3>3
    <3> QED
      BY <3>1, <3>4 DEF Agrees
  <2>3. CASE p # Pair(r)
    BY <1>1, <1>2, <1>3, <2>1, <2>3, AgreesKept
  <2> QED
    BY <2>2, <2>3
<1> QED
  BY <1>3 DEF Agreement, Gone

\* A write fails: nothing is said of its pair until the next one begins.
LEMMA WriteFails ==
  ASSUME BlocksInv, Agreement, NEW r \in Reqs, NEW q, req' = [req EXCEPT ![r] = q],
         req[r].pc \in {"block", "unblock"}, q.pc \notin {"block", "unblock"},
         loose' = loose \cup {Pair(r)}, UNCHANGED <<rows, blocks, table, admin>>
  PROVE  Agreement'
<1>1. table' = [table EXCEPT ![Pair(r)] = table[Pair(r)]]
  BY TypesAre, PairIs
<1> QED
  BY <1>1, WriteEnds

\* A denial, a success, and what follows them in the table.
LEMMA WritingSteps ==
  ASSUME BlocksInv, Agreement, NEW r \in Reqs, Denied(r) \/ Store(r) \/ Served(r) \/ Unstore(r)
  PROVE  Agreement'
<1>0. req \in [Reqs -> RequestStates] /\ req[r] \in RequestStates
  BY TypesAre
<1>1. CASE Denied(r)
  <2> DEFINE q == [req[r] EXCEPT !.pc = "block", !.exp = TTL]
  <2>1. req' = [req EXCEPT ![r] = q] /\ req[r].pc = "call" /\ Begins({Pair(r)})
        /\ blocks' = [blocks EXCEPT ![Pair(r)] = TTL] /\ UNCHANGED <<rows, table, admin>>
    BY <1>0, <1>1 DEF Denied
  <2>2. q.pc = "block" /\ q.exp = TTL /\ q.key = req[r].key /\ q.rapi = req[r].rapi
    BY <1>0 DEF RequestStates
  <2> HIDE DEF q
  <2> QED
    BY <2>1, <2>2, WriteBegins
<1>2. CASE Served(r)
  <2>1. CASE req[r].key = Synthetic
    <3>1. req' = [req EXCEPT ![r] = Idle] /\ req[r].pc = "call"
          /\ UNCHANGED <<rows, blocks, table, admin, loose>>
      BY <1>2, <2>1 DEF Served
    <3> QED
      BY <3>1, IdleIs, QuietRequest
  <2>2. CASE req[r].key # Synthetic
    <3> DEFINE q == [req[r] EXCEPT !.pc = "unblock"]
    <3>1. req' = [req EXCEPT ![r] = q] /\ req[r].pc = "call" /\ Begins({Pair(r)})
          /\ blocks' = [blocks EXCEPT ![Pair(r)] = NoBlock] /\ UNCHANGED <<rows, table, admin>>
      BY <1>0, <1>2, <2>2 DEF Served
    <3>2. q.pc = "unblock" /\ q.key = req[r].key /\ q.rapi = req[r].rapi
          /\ Live(NoBlock) = NoBlock
      BY <1>0 DEF RequestStates, Live, NoBlock
    <3> HIDE DEF q
    <3> QED
      BY <3>1, <3>2, WriteBegins
  <2> QED
    BY <2>1, <2>2
<1>3. CASE Store(r)
  <2> DEFINE q == [req[r] EXCEPT !.pc = "filter", !.todo = req[r].pool, !.key = NoKey, !.exp = 0]
             t == IF req[r].key \in rows THEN [table EXCEPT ![Pair(r)] = req[r].exp] ELSE table
  <2>1. req' = [req EXCEPT ![r] = q] /\ req[r].pc = "block"
        /\ UNCHANGED <<rows, blocks, admin>> /\ Writes(t, {Pair(r)})
    BY <1>0, <1>3 DEF Store, Again
  <2>2. /\ t = [table EXCEPT ![Pair(r)] = t[Pair(r)]]
        /\ req[r].key \in rows => t[Pair(r)] = req[r].exp
    BY <2>1, TypesAre, PairIs
  <2>3. q.pc = "filter"
    BY <1>0 DEF RequestStates
  <2> HIDE DEF q, t
  <2>4. CASE table' = t /\ UNCHANGED loose
    BY <2>1, <2>2, <2>3, <2>4, WriteEnds
  <2>5. CASE UNCHANGED table /\ loose' = loose \cup {Pair(r)}
    BY <2>1, <2>3, <2>5, WriteFails
  <2> QED
    BY <2>1, <2>4, <2>5 DEF Writes
<1>4. CASE Unstore(r)
  <2>1. req' = [req EXCEPT ![r] = Idle] /\ req[r].pc = "unblock"
        /\ Writes([table EXCEPT ![Pair(r)] = NoBlock], {Pair(r)})
        /\ UNCHANGED <<rows, blocks, admin>> /\ Live(NoBlock) = NoBlock
    BY <1>4 DEF Unstore, Live, NoBlock
  <2>2. CASE table' = [table EXCEPT ![Pair(r)] = NoBlock] /\ UNCHANGED loose
    BY <2>1, <2>2, IdleIs, WriteEnds
  <2>3. CASE UNCHANGED table /\ loose' = loose \cup {Pair(r)}
    BY <2>1, <2>3, IdleIs, WriteFails
  <2> QED
    BY <2>1, <2>2, <2>3 DEF Writes
<1> QED
  BY <1>1, <1>2, <1>3, <1>4

\* An operator's call: the memory, the row of the key, and the table.
LEMMA OperatorAgreement ==
  ASSUME BlocksInv, Agreement,
         \/ \E k \in Keys : DeleteKey(k) \/ \E m \in Rapis : OperatorUnblocks(k, m)
         \/ RemoveKey \/ OperatorUnstores
  PROVE  Agreement'
<1>0. Live(NoBlock) = NoBlock /\ UNCHANGED req /\ \A r, p : Writing(r, p)' <=> Writing(r, p)
  BY DEF Live, NoBlock, DeleteKey, OperatorUnblocks, RemoveKey, OperatorUnstores, Writing, Pair
<1>1. ASSUME NEW k \in Keys, DeleteKey(k) PROVE Agreement'
  <2>1. /\ admin.op = "none" /\ rows' = rows \ {k} /\ UNCHANGED <<blocks, loose>>
        /\ admin' = [NoAdmin EXCEPT !.op = "remove", !.key = k]
        /\ table' = [p \in Pairs |-> IF p[1] = k THEN NoBlock ELSE table[p]]
    BY <1>1 DEF DeleteKey
  <2>2. admin'.op = "remove" /\ admin'.key = k
    BY <2>1, NoAdminIs DEF Admins
  <2>3. \A p : ~Unblocking(p) /\ ~Unblocking(p)'
    BY <2>1, <2>2 DEF Unblocking
  <2>4. ASSUME NEW p \in Pairs, p[1] \in rows', p \notin loose' PROVE Agrees(p)'
    <3>1. Agrees(p) /\ table'[p] = table[p]
      BY <2>1, <2>4 DEF Agreement
    <3> QED
      BY <1>0, <2>1, <2>3, <3>1, AgreesKept
  <2> QED
    BY <2>1, <2>2, <2>4 DEF Agreement, Gone
<1>2. ASSUME NEW k \in Keys, NEW m \in Rapis, OperatorUnblocks(k, m) PROVE Agreement'
  <2>1. /\ admin.op = "none" /\ Begins({<<k, m>>}) /\ UNCHANGED <<rows, table>>
        /\ admin' = [op |-> "unblock", key |-> k, rapi |-> m]
        /\ blocks' = [blocks EXCEPT ![<<k, m>>] = NoBlock]
    BY <1>2 DEF OperatorUnblocks
  <2>2. \A p : ~Unblocking(p) /\ (Unblocking(p)' <=> p = <<k, m>>)
    BY <2>1 DEF Unblocking
  <2>3. ASSUME NEW p \in Pairs, p[1] \in rows', p \notin loose' PROVE Agrees(p)'
    <3>1. CASE p = <<k, m>>
      <4>1. Writers(p) = {} /\ p[1] \in rows
        BY <2>1, <2>3, <3>1 DEF Begins
      <4>2. \A r \in Reqs : ~Writing(r, p)'
        BY <1>0, <4>1, NoWriters DEF Agreement
      <4>3. Live(blocks'[p]) = NoBlock
        BY <1>0, <2>1, <3>1, TypesAre
      <4>4. Unblocking(p)'
        BY <2>2, <3>1
      <4> QED
        BY <4>2, <4>3, <4>4 DEF Agrees
    <3>2. CASE p # <<k, m>>
      <4>1. Agrees(p) /\ blocks'[p] = blocks[p]
        BY <2>1, <2>3, <3>2, TypesAre DEF Begins, Agreement
      <4> QED
        BY <1>0, <2>1, <2>2, <3>2, <4>1, AgreesKept
    <3> QED
      BY <3>1, <3>2
  <2> QED
    BY <2>1, <2>3 DEF Agreement, Gone
<1>3. CASE RemoveKey
  <2>1. /\ admin.op = "remove" /\ UNCHANGED <<rows, table, loose>>
        /\ admin' = [admin EXCEPT !.op = "clear"]
        /\ blocks' = [p \in Pairs |-> IF p[1] = admin.key THEN NoBlock ELSE blocks[p]]
    BY <1>3 DEF RemoveKey
  <2>2. admin'.op = "clear" /\ admin'.key = admin.key /\ admin.key \notin rows
    BY <2>1, TypesAre DEF Admins, Agreement, Gone
  <2>3. \A p : ~Unblocking(p) /\ ~Unblocking(p)'
    BY <2>1, <2>2 DEF Unblocking
  <2>4. ASSUME NEW p \in Pairs, p[1] \in rows', p \notin loose' PROVE Agrees(p)'
    <3>1. Agrees(p) /\ blocks'[p] = blocks[p]
      BY <2>1, <2>2, <2>4 DEF Agreement
    <3> QED
      BY <1>0, <2>1, <2>3, <3>1, AgreesKept
  <2> QED
    BY <2>1, <2>2, <2>4 DEF Agreement, Gone
<1>4. CASE OperatorUnstores
  <2> DEFINE ps == {p \in OfKey(admin.key) : admin.op = "unblock" => p[2] = admin.rapi}
             t == [p \in Pairs |-> IF p \in ps THEN NoBlock ELSE table[p]]
  <2>1. /\ admin.op \in {"unblock", "clear"} /\ UNCHANGED <<rows, blocks>>
        /\ admin' = NoAdmin /\ admin'.op = "none"
        /\ \/ table' = t /\ UNCHANGED loose
           \/ UNCHANGED table /\ loose' = loose \cup ps
    BY <1>4, NoAdminIs DEF OperatorUnstores, Writes
  <2>2. \A p : ~Unblocking(p)'
    BY <2>1 DEF Unblocking
  <2>3. ASSUME NEW p \in Pairs, p[1] \in rows', p \notin loose' PROVE Agrees(p)'
    <3>1. Agrees(p) /\ p[1] \in rows
      BY <2>1, <2>3 DEF Agreement
    <3>2. CASE Unblocking(p)
      <4>1. p \in ps
        BY <2>3, <3>2 DEF Unblocking, OfKey
      <4>2. table'[p] = NoBlock
        BY <2>1, <2>3, <4>1
      <4>3. Live(blocks'[p]) = NoBlock /\ \A r \in Reqs : ~Writing(r, p)'
        BY <1>0, <2>1, <3>1, <3>2 DEF Agrees
      <4>4. Live(table'[p]) = Live(blocks'[p])
        BY <1>0, <4>2, <4>3
      <4> QED
        BY <2>2, <4>3, <4>4 DEF Agrees
    <3>3. CASE ~Unblocking(p)
      <4>1. p \notin ps
        <5>1. CASE admin.op = "unblock"
          <6>1. p = <<p[1], p[2]>>
            BY <2>3 DEF Pairs
          <6> QED
            BY <3>3, <5>1, <6>1 DEF Unblocking, OfKey
        <5>2. CASE admin.op = "clear"
          BY <3>1, <5>2 DEF Agreement, Gone, OfKey
        <5> QED
          BY <2>1, <5>1, <5>2
      <4>2. table'[p] = table[p]
        BY <2>1, <4>1
      <4> QED
        BY <1>0, <2>1, <2>2, <3>1, <3>3, <4>2, AgreesKept
    <3> QED
      BY <3>2, <3>3
  <2> QED
    BY <2>1, <2>3 DEF Agreement, Gone
<1> QED
  BY <1>1, <1>2, <1>3, <1>4

\* Memory, table and the write on its way count down together.
LEMMA TickAgreement == ASSUME BlocksInv, Agreement, Tick PROVE Agreement'
<1>1. /\ UNCHANGED <<rows, admin, loose>>
      /\ blocks' = [p \in Pairs |-> CountDown(blocks[p])]
      /\ table' = [p \in Pairs |-> CountDown(table[p])]
      /\ req' = [r \in Reqs |-> [req[r] EXCEPT !.exp = CountDown(@)]]
  BY DEF Tick
<1>2. \A r \in Reqs : /\ req'[r].pc = req[r].pc /\ req'[r].key = req[r].key
                      /\ req'[r].rapi = req[r].rapi /\ req'[r].exp = CountDown(req[r].exp)
                      /\ req[r].exp \in NoBlock..TTL
  <2> TAKE r \in Reqs
  <2>1. req'[r] = [req[r] EXCEPT !.exp = CountDown(req[r].exp)] /\ req[r] \in RequestStates
    BY <1>1, TypesAre
  <2> QED
    BY <2>1, BlockValues DEF RequestStates
<1>3. /\ \A p : \A r \in Reqs : Writing(r, p)' <=> Writing(r, p)
      /\ \A p : Unblocking(p)' <=> Unblocking(p)
  BY <1>1, <1>2 DEF Writing, Pair, Unblocking
<1>4. /\ \A x, y \in NoBlock..TTL : Live(x) = Live(y) => Live(CountDown(x)) = Live(CountDown(y))
      /\ \A x \in NoBlock..TTL : Live(x) = NoBlock => Live(CountDown(x)) = NoBlock
  BY BlocksAssumption DEF Live, CountDown, NoBlock
<1>5. ASSUME NEW p \in Pairs, p[1] \in rows', p \notin loose' PROVE Agrees(p)'
  <2>1. Agrees(p)
    BY <1>1, <1>5 DEF Agreement
  <2>2. /\ blocks'[p] = CountDown(blocks[p]) /\ table'[p] = CountDown(table[p])
        /\ blocks[p] \in NoBlock..TTL /\ table[p] \in NoBlock..TTL
    BY <1>1, TypesAre
  <2>3. \A r \in Reqs : Writing(r, p)' =>
          Live(blocks'[p]) = IF req'[r].pc = "block" THEN Live(req'[r].exp) ELSE NoBlock
    BY <1>2, <1>3, <1>4, <2>1, <2>2 DEF Agrees
  <2>4. Unblocking(p)' => Live(blocks'[p]) = NoBlock
    BY <1>3, <1>4, <2>1, <2>2 DEF Agrees
  <2>5. (\A r \in Reqs : ~Writing(r, p)') /\ ~Unblocking(p)'
          => Live(table'[p]) = Live(blocks'[p])
    BY <1>3, <1>4, <2>1, <2>2 DEF Agrees
  <2>6. /\ \A r, s \in Reqs : Writing(r, p)' /\ Writing(s, p)' => r = s
        /\ Unblocking(p)' => \A r \in Reqs : ~Writing(r, p)'
    BY <1>3, <2>1 DEF Agrees
  <2> HIDE DEF Writing, Unblocking
  <2> QED
    BY <2>3, <2>4, <2>5, <2>6 DEF Agrees
<1> QED
  BY <1>1, <1>5 DEF Agreement, Gone

\* A restart takes the table for the memory, or cannot read it.
LEMMA RestartAgreement == ASSUME BlocksInv, RestartBlocks PROVE Agreement'
<1>1. /\ req' = [r \in Reqs |-> Idle] /\ admin' = NoAdmin /\ UNCHANGED table
      /\ \/ blocks' = [p \in Pairs |-> IF table[p] > 0 THEN table[p] ELSE NoBlock]
         \/ loose' = Pairs
  BY DEF RestartBlocks
<1>2. /\ \A p : \A r \in Reqs : ~Writing(r, p)'
      /\ \A p : ~Unblocking(p)'
  BY <1>1, IdleIs, NoAdminIs DEF Writing, Unblocking
<1>3. \A p \in Pairs : p \in loose' \/ Live(table'[p]) = Live(blocks'[p])
  BY <1>1, TypesAre, BlockValues DEF Live, NoBlock
<1> QED
  BY <1>1, <1>2, <1>3, NoAdminIs DEF Agreement, Agrees, Gone

\* Every state in which nothing has happened yet agrees.
LEMMA AgreementInit == BlocksInit => Agreement
BY IdleIs, NoAdminIs DEF BlocksInit, Agreement, Gone, Agrees, Writing, Unblocking

\* Every step keeps memory and table together.
LEMMA AgreementNext == BlocksInv /\ Agreement /\ [BlocksNext]_blockVars => Agreement'
<1> SUFFICES ASSUME BlocksInv, Agreement, [BlocksNext]_blockVars PROVE Agreement'
  OBVIOUS
<1>1. ASSUME NEW r \in Reqs,
             \/ \E m \in Rapis : Begin(r, m)
             \/ Look(r) \/ Call(r) \/ Escalate(r) \/ Fails(r) \/ Purge(r)
             \/ Denied(r) \/ Store(r) \/ Served(r) \/ Unstore(r)
      PROVE  Agreement'
  BY <1>1, QuietSteps, PurgeQuiet, WritingSteps
<1>2. CASE \/ \E k \in Keys : DeleteKey(k) \/ \E m \in Rapis : OperatorUnblocks(k, m)
           \/ RemoveKey \/ OperatorUnstores
  BY <1>2, OperatorAgreement
<1>3. CASE ApplyBundle
  BY <1>3 DEF ApplyBundle, Agreement, Gone
<1>4. CASE Tick
  BY <1>4, TickAgreement
<1>5. CASE RestartBlocks
  BY <1>5, RestartAgreement
<1>6. CASE UNCHANGED blockVars
  BY <1>6 DEF blockVars, Agreement, Gone, Agrees, Writing, Pair, Unblocking
<1> QED
  BY <1>1, <1>2, <1>3, <1>4, <1>5, <1>6 DEF BlocksNext

\* A restart neither forgets a block nor brings one back: once nobody is about to
\* write it, the row of a pair says what the memory says, wherever two writes have
\* not crossed and no bundle has emptied the table since the last restart.
THEOREM RestartForgetsNothing == BlocksSpec => []TableFollowsMemory
<1>1. BlocksInv /\ Agreement => TableFollowsMemory
  BY NoWriters DEF Agreement, Agrees, TableFollowsMemory
<1>2. BlocksInit => BlocksInv /\ Agreement
  BY BlocksInvInit, AgreementInit
<1>3. (BlocksInv /\ Agreement) /\ [BlocksNext]_blockVars => (BlocksInv /\ Agreement)'
  BY BlocksInvNext, AgreementNext
<1> QED
  BY <1>1, <1>2, <1>3, PTL DEF BlocksSpec

----------------------------------------------------------------------------
(* Sequences that are put together from sequences.                          *)

\* Concatenation, under a name that is expanded only where it matters what it is.
Joined(s, t) == s \o t

\* Joining sequences gives one, and the empty one adds nothing.
LEMMA JoinedIs ==
  ASSUME NEW S, NEW s \in Seq(S), NEW t \in Seq(S)
  PROVE  /\ Joined(s, t) \in Seq(S)
         /\ Joined(<<>>, s) = s /\ Joined(s, <<>>) = s
BY ConcatProperties, ConcatEmptySeq DEF Joined

\* It does not matter which two of three are joined first.
LEMMA JoinedAssociative ==
  ASSUME NEW S, NEW s \in Seq(S), NEW t \in Seq(S), NEW u \in Seq(S)
  PROVE  Joined(Joined(s, t), u) = Joined(s, Joined(t, u))
BY ConcatAssociative DEF Joined

\* A concatenation, by the lengths of its parts.
LEMMA ConcatIs ==
  ASSUME NEW S, NEW a \in Seq(S), NEW b \in Seq(S), NEW m, NEW n, Len(a) = m, Len(b) = n
  PROVE  /\ a \o b \in Seq(S) /\ Len(a \o b) = m + n /\ DOMAIN (a \o b) = 1..(m + n)
         /\ \A i \in 1..(m + n) : (a \o b)[i] = IF i <= m THEN a[i] ELSE b[i - m]
<1>1. /\ a \o b \in Seq(S) /\ Len(a \o b) = Len(a) + Len(b)
      /\ \A i \in 1..(Len(a) + Len(b)) : (a \o b)[i] = IF i <= Len(a) THEN a[i] ELSE b[i - Len(a)]
  BY ConcatProperties
<1>2. DOMAIN (a \o b) = 1..Len(a \o b)
  BY <1>1
<1> QED
  BY <1>1, <1>2

\* The sums of the first sequences of ss.
SumsOf(ss, f) ==
  /\ f[0] = <<>>
  /\ \A i \in 1..Len(ss) : f[i] = Joined(f[i - 1], ss[i])

\* Sums are sequences.
LEMMA SumsType ==
  ASSUME NEW S, NEW ss \in Seq(Seq(S)), NEW f, SumsOf(ss, f)
  PROVE  \A i \in 0..Len(ss) : f[i] \in Seq(S)
<1> DEFINE good == {i \in 0..Len(ss) : f[i] \in Seq(S)}
<1>1. Len(ss) \in Nat /\ \A i \in 1..Len(ss) : ss[i] \in Seq(S)
  OBVIOUS
<1>2. 0 \in good
  <2>1. f[0] \in Seq(S) /\ 0 \in 0..Len(ss)
    BY <1>1 DEF SumsOf
  <2> QED
    BY <2>1
<1>3. ASSUME NEW n \in 0..Len(ss), n \in good, n < Len(ss) PROVE n + 1 \in good
  <2>1. n + 1 \in 1..Len(ss) /\ n + 1 \in 0..Len(ss) /\ (n + 1) - 1 = n
    BY <1>1, <1>3
  <2>2. f[n + 1] = Joined(f[n], ss[n + 1])
    BY <2>1 DEF SumsOf
  <2>3. f[n] \in Seq(S) /\ ss[n + 1] \in Seq(S)
    BY <1>1, <1>3, <2>1
  <2>4. f[n + 1] \in Seq(S)
    BY <2>2, <2>3, JoinedIs
  <2> QED
    BY <2>1, <2>4
<1> HIDE DEF good
<1>4. 0..Len(ss) \subseteq good
  BY <1>1, <1>2, <1>3, InductionUpTo
<1> QED
  BY <1>4 DEF good

\* FlattenSeq begins with the first sequence, and not with the empty one.
IsFlat(ss, h) ==
  h = [i \in 1..Len(ss) |-> IF i = 1 THEN ss[i] ELSE Joined(h[i - 1], ss[i])]

\* What FlattenSeq gives is the last of the sums.
LEMMA FlatIsSum ==
  ASSUME NEW S, NEW ss \in Seq(Seq(S)), NEW f, SumsOf(ss, f)
  PROVE  FlattenSeq(ss) = f[Len(ss)]
<1>1. Len(ss) \in Nat /\ \A i \in 1..Len(ss) : ss[i] \in Seq(S)
  OBVIOUS
<1>2. CASE Len(ss) = 0
  BY <1>2 DEF FlattenSeq, SumsOf
<1>3. CASE Len(ss) > 0
  <2> DEFINE g == [i \in 1..Len(ss) |-> f[i]]
             H == CHOOSE h : IsFlat(ss, h)
  <2>1. f[1] = ss[1]
    <3>1. 1 \in 1..Len(ss) /\ f[0] = <<>> /\ f[1] = Joined(f[0], ss[1])
      BY <1>1, <1>3 DEF SumsOf
    <3> QED
      BY <1>1, <3>1, JoinedIs
  <2>2. IsFlat(ss, g)
    <3>1. \A i \in 1..Len(ss) : g[i] = IF i = 1 THEN ss[i] ELSE Joined(g[i - 1], ss[i])
      <4> TAKE i \in 1..Len(ss)
      <4>1. CASE i = 1
        BY <2>1, <4>1
      <4>2. CASE i # 1
        <5>1. i - 1 \in 1..Len(ss) /\ f[i] = Joined(f[i - 1], ss[i])
          BY <1>1, <4>2 DEF SumsOf
        <5> QED
          BY <4>2, <5>1
      <4> QED
        BY <4>1, <4>2
    <3> QED
      BY <3>1 DEF IsFlat
  <2>3. IsFlat(ss, H)
    BY <2>2
  <2> HIDE DEF g, H
  <2> DEFINE good == {i \in 0..Len(ss) : i = 0 \/ H[i] = f[i]}
  <2>4. \A i \in 1..Len(ss) : H[i] = IF i = 1 THEN ss[i] ELSE Joined(H[i - 1], ss[i])
    <3> TAKE i \in 1..Len(ss)
    <3> DEFINE G == H
    <3>1. H = [j \in 1..Len(ss) |-> IF j = 1 THEN ss[j] ELSE Joined(G[j - 1], ss[j])]
      BY <2>3 DEF IsFlat
    <3> HIDE DEF G
    <3>2. H[i] = IF i = 1 THEN ss[i] ELSE Joined(G[i - 1], ss[i])
      BY <3>1
    <3> QED
      BY <3>2 DEF G
  <2>5. 0 \in good
    BY <1>1
  <2>6. ASSUME NEW n \in 0..Len(ss), n \in good, n < Len(ss) PROVE n + 1 \in good
    <3>1. n + 1 \in 1..Len(ss) /\ n + 1 \in 0..Len(ss) /\ (n + 1) - 1 = n
      <4> HIDE DEF good
      <4> QED
        BY <1>1, <2>6
    <3>2. CASE n = 0
      BY <2>1, <2>4, <3>1, <3>2
    <3>3. CASE n # 0
      <4>1. H[n + 1] = Joined(H[n], ss[n + 1]) /\ H[n] = f[n]
        BY <2>4, <2>6, <3>1, <3>3
      <4>2. f[n + 1] = Joined(f[n], ss[n + 1])
        BY <3>1 DEF SumsOf
      <4> QED
        BY <3>1, <4>1, <4>2
    <3> QED
      BY <3>2, <3>3
  <2>7. 0..Len(ss) \subseteq good
    <3> HIDE DEF good
    <3> QED
      BY <1>1, <2>5, <2>6, InductionUpTo
  <2>8. H[Len(ss)] = f[Len(ss)]
    <3>1. Len(ss) \in 0..Len(ss) /\ Len(ss) # 0
      BY <1>1, <1>3
    <3> QED
      BY <2>7, <3>1
  <2>9. FlattenSeq(ss) = H[Len(ss)]
    BY <1>3 DEF FlattenSeq, H, IsFlat, Joined
  <2> QED
    BY <2>8, <2>9
<1> QED
  BY <1>1, <1>2, <1>3

\* There are such sums.
LEMMA SumsExist ==
  ASSUME NEW S, NEW ss \in Seq(Seq(S))
  PROVE  \E f : SumsOf(ss, f)
<1> DEFINE done == {n \in 0..Len(ss) : \E f : /\ f[0] = <<>>
                                              /\ \A i \in 1..n : f[i] = Joined(f[i - 1], ss[i])}
<1>1. Len(ss) \in Nat
  OBVIOUS
<1>2. 0 \in done
  <2> DEFINE f == [i \in {0} |-> <<>>]
  <2>1. f[0] = <<>> /\ \A i \in 1..0 : f[i] = Joined(f[i - 1], ss[i])
    OBVIOUS
  <2>2. 0 \in 0..Len(ss)
    BY <1>1
  <2> HIDE DEF f
  <2> QED
    BY <2>1, <2>2
<1>3. ASSUME NEW n \in 0..Len(ss), n \in done, n < Len(ss) PROVE n + 1 \in done
  <2>1. PICK f : f[0] = <<>> /\ \A i \in 1..n : f[i] = Joined(f[i - 1], ss[i])
    BY <1>3
  <2> DEFINE g == [i \in 0..(n + 1) |-> IF i <= n THEN f[i] ELSE Joined(f[n], ss[n + 1])]
  <2>2. n \in Nat /\ n + 1 \in 0..Len(ss)
    BY <1>1, <1>3
  <2>3. g[0] = <<>>
    BY <2>1, <2>2
  <2>4. \A i \in 1..(n + 1) : g[i] = Joined(g[i - 1], ss[i])
    <3> TAKE i \in 1..(n + 1)
    <3>1. CASE i \in 1..n
      BY <2>1, <2>2, <3>1
    <3>2. CASE i = n + 1
      <4>1. g[i] = Joined(f[n], ss[n + 1]) /\ g[i - 1] = f[n]
        BY <2>2, <3>2
      <4> QED
        BY <3>2, <4>1
    <3> QED
      BY <2>2, <3>1, <3>2
  <2> HIDE DEF g
  <2> QED
    BY <2>2, <2>3, <2>4
<1> HIDE DEF done
<1>4. Len(ss) \in done
  <2>1. 0..Len(ss) \subseteq done
    BY <1>1, <1>2, <1>3, InductionUpTo
  <2> QED
    BY <1>1, <2>1
<1> QED
  BY <1>4 DEF done, SumsOf

\* FlattenSeq on sequences of sequences.
LEMMA FlatType ==
  ASSUME NEW S, NEW ss \in Seq(Seq(S))
  PROVE  FlattenSeq(ss) \in Seq(S)
<1>1. PICK f : SumsOf(ss, f)
  BY SumsExist
<1>2. Len(ss) \in 0..Len(ss)
  OBVIOUS
<1> QED
  BY <1>1, <1>2, SumsType, FlatIsSum

\* Of no sequences, none.
LEMMA FlatEmpty == FlattenSeq(<<>>) = <<>>
BY DEF FlattenSeq

\* The sequences of a concatenation are put together one after the other.
LEMMA FlatConcat ==
  ASSUME NEW S, NEW ss \in Seq(Seq(S)), NEW tt \in Seq(Seq(S))
  PROVE  FlattenSeq(ss \o tt) = FlattenSeq(ss) \o FlattenSeq(tt)
<1>1. PICK f : SumsOf(ss, f)
  BY SumsExist
<1>2. PICK g : SumsOf(tt, g)
  BY SumsExist
<1> DEFINE m == Len(ss)
           n == Len(tt)
           st == ss \o tt
<1>3. m \in Nat /\ n \in Nat
  OBVIOUS
<1>4. /\ st \in Seq(Seq(S)) /\ Len(st) = m + n
      /\ \A i \in 1..m : st[i] = ss[i]
      /\ \A i \in 1..n : st[m + i] = tt[i]
  <2>1. /\ st \in Seq(Seq(S)) /\ Len(st) = m + n
        /\ \A i \in 1..(m + n) : st[i] = IF i <= m THEN ss[i] ELSE tt[i - m]
    BY ConcatProperties
  <2> HIDE DEF st, m, n
  <2>2. \A i \in 1..m : i \in 1..(m + n) /\ i <= m
    BY <1>3
  <2>3. \A i \in 1..n : m + i \in 1..(m + n) /\ ~(m + i <= m) /\ m + i - m = i
    BY <1>3
  <2>4. \A i \in 1..m : st[i] = ss[i]
    BY <2>1, <2>2
  <2>5. ASSUME NEW i \in 1..n PROVE st[m + i] = tt[i]
    <3>1. m + i \in 1..(m + n) /\ ~(m + i <= m) /\ m + i - m = i
      BY <2>3
    <3>2. st[m + i] = tt[m + i - m]
      BY <1>3, <2>1, <3>1
    <3> QED
      BY <3>1, <3>2
  <2> QED
    BY <2>1, <2>4, <2>5
<1>5. \A i \in 0..m : f[i] \in Seq(S)
  BY <1>1, SumsType
<1>6. \A i \in 0..n : g[i] \in Seq(S)
  BY <1>2, SumsType
<1>7. \A i \in 1..m : f[i] = Joined(f[i - 1], ss[i])
  BY <1>1 DEF SumsOf
<1>8. \A i \in 1..n : g[i] = Joined(g[i - 1], tt[i]) /\ tt[i] \in Seq(S)
  BY <1>2 DEF SumsOf
<1>9. f[0] = <<>> /\ g[0] = <<>>
  BY <1>1, <1>2 DEF SumsOf
<1> HIDE DEF st, m, n
<1> DEFINE h == [i \in 0..(m + n) |-> IF i <= m THEN f[i] ELSE Joined(f[m], g[i - m])]
<1>10. SumsOf(st, h)
  <2>1. h[0] = <<>>
    BY <1>3, <1>9
  <2>2. \A i \in 1..(m + n) : h[i] = Joined(h[i - 1], st[i])
    <3> TAKE i \in 1..(m + n)
    <3>1. CASE i \in 1..m
      <4>1. h[i] = f[i] /\ h[i - 1] = f[i - 1]
        BY <1>3, <3>1
      <4> QED
        BY <1>4, <1>7, <3>1, <4>1
    <3>2. CASE i = m + 1
      <4>1. 1 \in 1..n /\ m \in 0..m /\ i - 1 = m /\ i - m = 1 /\ ~(i <= m) /\ m \in 0..(m + n)
        BY <1>3, <3>2
      <4>2. h[i] = Joined(f[m], g[1]) /\ h[i - 1] = f[m]
        BY <1>3, <4>1
      <4>3. g[1] = Joined(g[0], tt[1])
        BY <1>8, <4>1
      <4>4. g[1] = tt[1]
        BY <1>8, <1>9, <4>1, <4>3, JoinedIs
      <4>5. st[i] = tt[1]
        BY <1>4, <3>2, <4>1
      <4> QED
        BY <4>2, <4>4, <4>5
    <3>3. CASE i \in (m + 2)..(m + n)
      <4> DEFINE j == i - m
      <4>1. /\ j \in 1..n /\ j - 1 \in 0..n /\ j \in 0..n /\ m \in 0..m /\ m + j = i
            /\ ~(i <= m) /\ ~(i - 1 <= m) /\ i - 1 \in 0..(m + n) /\ (i - 1) - m = j - 1
        BY <1>3, <3>3
      <4>2. h[i] = Joined(f[m], g[j]) /\ h[i - 1] = Joined(f[m], g[j - 1])
        BY <4>1
      <4>3. g[j] = Joined(g[j - 1], tt[j])
        BY <1>8, <4>1
      <4>4. st[i] = tt[j]
        BY <1>4, <4>1
      <4>5. Joined(Joined(f[m], g[j - 1]), tt[j]) = Joined(f[m], Joined(g[j - 1], tt[j]))
        <5>1. f[m] \in Seq(S) /\ g[j - 1] \in Seq(S) /\ tt[j] \in Seq(S)
          BY <1>5, <1>6, <1>8, <4>1
        <5> HIDE DEF h, j
        <5>2. ASSUME NEW a \in Seq(S), NEW b \in Seq(S), NEW c \in Seq(S)
              PROVE  Joined(Joined(a, b), c) = Joined(a, Joined(b, c))
          BY JoinedAssociative
        <5> QED
          BY <5>1, <5>2
      <4> HIDE DEF h, j
      <4> QED
        BY <4>2, <4>3, <4>4, <4>5
    <3> QED
      BY <1>3, <3>1, <3>2, <3>3
  <2> HIDE DEF h
  <2> QED
    BY <1>4, <2>1, <2>2 DEF SumsOf
<1>11. h[m + n] = Joined(f[m], g[n])
  <2>1. m + n \in 0..(m + n) /\ m \in 0..m /\ m + n - m = n
    BY <1>3
  <2>2. CASE n = 0
    <3>1. h[m + n] = f[m]
      BY <1>3, <2>1, <2>2
    <3> QED
      BY <1>5, <1>9, <2>1, <2>2, <3>1, JoinedIs
  <2>3. CASE n # 0
    BY <1>3, <2>1, <2>3
  <2> QED
    BY <2>2, <2>3
<1> HIDE DEF h
<1>12. FlattenSeq(st) = h[m + n]
  BY <1>4, <1>10, FlatIsSum
<1>13. FlattenSeq(ss) = f[m] /\ FlattenSeq(tt) = g[n]
  BY <1>1, <1>2, FlatIsSum DEF m, n
<1> QED
  BY <1>11, <1>12, <1>13 DEF Joined, st

\* One sequence alone.
LEMMA FlatOne ==
  ASSUME NEW S, NEW s \in Seq(S)
  PROVE  FlattenSeq(<<s>>) = s
<1>1. <<s>> \in Seq(Seq(S)) /\ Len(<<s>>) = 1
  OBVIOUS
<1> DEFINE f == [i \in 0..1 |-> IF i = 0 THEN <<>> ELSE s]
<1>2. SumsOf(<<s>>, f)
  BY <1>1, JoinedIs DEF SumsOf
<1> QED
  BY <1>1, <1>2, FlatIsSum

----------------------------------------------------------------------------
(* Frames and what they carry.                                              *)

Content == [kind : {"text", "args"}, call : CallIdx \cup {NotSeen}, part : Nat]
CallParts == [index : Int, call : CallIdx, named : BOOLEAN, args : Nat]
WholeCalls == [call : CallIdx, args : Nat]

Frame ==
  [type : {"message_start", "message_delta", "message_stop", "done", "error"}]
  \cup [type : {"block_start"}, index : Int, kind : {"text", "tool"}, call : CallIdx \cup {NotSeen}]
  \cup [type : {"block_delta"}, index : Int, content : Content]
  \cup [type : {"block_stop"}, index : Int]
  \cup [type : {"chunk"}, role : BOOLEAN, text : Nat, calls : Seq(CallParts), finish : BOOLEAN]
  \cup [type : {"candidate"}, text : Nat, calls : Seq(WholeCalls), finish : BOOLEAN]

\* The arguments of each call, or none.
ArgsOfEach(calls) ==
  [i \in DOMAIN calls |->
     IF calls[i].args = 0 THEN <<>> ELSE <<ArgsOf(calls[i].call, calls[i].args)>>]

\* The arguments in a sequence of calls are contents.
LEMMA ArgsAreContents ==
  ASSUME NEW calls, Len(calls) \in Nat, DOMAIN calls = 1..Len(calls),
         \A i \in DOMAIN calls : calls[i].call \in CallIdx /\ calls[i].args \in Nat
  PROVE  /\ ArgsOfEach(calls) \in Seq(Seq(Content)) /\ Len(ArgsOfEach(calls)) = Len(calls)
         /\ ArgsIn(calls) \in Seq(Content)
<1> DEFINE ss == ArgsOfEach(calls)
<1>1. \A i \in 1..Len(calls) : ss[i] \in Seq(Content)
  <2> TAKE i \in 1..Len(calls)
  <2>1. ss[i] = IF calls[i].args = 0 THEN <<>> ELSE <<ArgsOf(calls[i].call, calls[i].args)>>
    BY DEF ArgsOfEach
  <2>2. ArgsOf(calls[i].call, calls[i].args) \in Content
    BY DEF ArgsOf, Content
  <2> HIDE DEF ss
  <2> QED
    BY <2>1, <2>2
<1>2. ss \in Seq(Seq(Content)) /\ Len(ss) = Len(calls)
  <2>1. DOMAIN ss = 1..Len(calls) /\ ss = [i \in 1..Len(calls) |-> ss[i]]
    BY DEF ArgsOfEach
  <2> HIDE DEF ss
  <2> QED
    BY <1>1, <2>1
<1>3. ArgsIn(calls) = FlattenSeq(ss)
  BY DEF ArgsIn, ArgsOfEach
<1> HIDE DEF ss
<1>4. ArgsIn(calls) \in Seq(Content)
  BY <1>2, <1>3, FlatType
<1> QED
  BY <1>2, <1>4 DEF ss

\* No calls, no arguments; and those of one call.
LEMMA ArgsOfFew ==
  /\ ArgsIn(<<>>) = <<>>
  /\ \A x : x.args # 0 /\ x.args \in Nat /\ x.call \in CallIdx =>
              ArgsIn(<<x>>) = <<ArgsOf(x.call, x.args)>>
  /\ \A x : x.args = 0 => ArgsIn(<<x>>) = <<>>
<1>1. ArgsIn(<<>>) = <<>>
  <2>1. [i \in DOMAIN <<>> |->
           IF <<>>[i].args = 0 THEN <<>> ELSE <<ArgsOf(<<>>[i].call, <<>>[i].args)>>] = <<>>
    OBVIOUS
  <2> QED
    BY <2>1, FlatEmpty DEF ArgsIn
<1>2. ASSUME NEW x, x.args # 0, x.args \in Nat, x.call \in CallIdx
      PROVE  ArgsIn(<<x>>) = <<ArgsOf(x.call, x.args)>>
  <2>1. ArgsOfEach(<<x>>) = << <<ArgsOf(x.call, x.args)>> >>
    BY <1>2 DEF ArgsOfEach
  <2>2. <<ArgsOf(x.call, x.args)>> \in Seq(Content)
    BY <1>2 DEF ArgsOf, Content
  <2>3. ArgsIn(<<x>>) = FlattenSeq(ArgsOfEach(<<x>>))
    BY DEF ArgsIn, ArgsOfEach
  <2> QED
    BY <2>1, <2>2, <2>3, FlatOne
<1>3. ASSUME NEW x, x.args = 0 PROVE ArgsIn(<<x>>) = <<>>
  <2>1. ArgsOfEach(<<x>>) = << <<>> >>
    BY <1>3 DEF ArgsOfEach
  <2>2. <<>> \in Seq(Content)
    OBVIOUS
  <2>3. ArgsIn(<<x>>) = FlattenSeq(ArgsOfEach(<<x>>))
    BY DEF ArgsIn, ArgsOfEach
  <2> QED
    BY <2>1, <2>2, <2>3, FlatOne
<1> QED
  BY <1>1, <1>2, <1>3

\* A text and calls.
LEMMA ContentsInIs ==
  ASSUME NEW n \in Nat, NEW calls, Len(calls) \in Nat, DOMAIN calls = 1..Len(calls),
         \A i \in DOMAIN calls : calls[i].call \in CallIdx /\ calls[i].args \in Nat
  PROVE  ContentsIn(n, calls) \in Seq(Content)
<1>1. ArgsIn(calls) \in Seq(Content)
  BY ArgsAreContents
<1>2. (IF n = 0 THEN <<>> ELSE <<TextOf(n)>>) \in Seq(Content)
  <2>1. TextOf(n) \in Content
    BY DEF TextOf, Content
  <2>2. <<TextOf(n)>> \in Seq(Content) /\ <<>> \in Seq(Content)
    BY <2>1
  <2> QED
    BY <2>2
<1> QED
  BY <1>1, <1>2, ConcatProperties DEF ContentsIn

\* The frames there are, and what each carries.
LEMMA FramesAre ==
  /\ \A f \in {MessageStart, MessageDelta, MessageStop, DoneFrame, ErrorFrame} :
       f \in Frame /\ ContentsOf(f) = <<>>
  /\ \A i \in Int, c \in CallIdx \cup {NotSeen} : \A kind \in {"text", "tool"} :
       BlockStart(i, kind, c) \in Frame /\ ContentsOf(BlockStart(i, kind, c)) = <<>>
  /\ \A i \in Int : BlockStop(i) \in Frame /\ ContentsOf(BlockStop(i)) = <<>>
  /\ \A i \in Int : \A content \in Content :
       Delta(i, content) \in Frame /\ ContentsOf(Delta(i, content)) = <<content>>
  /\ \A role, finish \in BOOLEAN : \A n \in Nat : \A calls \in Seq(CallParts) :
       /\ Chunk(role, n, calls, finish) \in Frame
       /\ ContentsOf(Chunk(role, n, calls, finish)) = ContentsIn(n, calls)
  /\ \A finish \in BOOLEAN : \A n \in Nat : \A calls \in Seq(WholeCalls) :
       /\ Candidate(n, calls, finish) \in Frame
       /\ ContentsOf(Candidate(n, calls, finish)) = ContentsIn(n, calls)
<1>1. \A f \in {MessageStart, MessageDelta, MessageStop, DoneFrame, ErrorFrame} :
        f \in Frame /\ ContentsOf(f) = <<>>
  BY DEF MessageStart, MessageDelta, MessageStop, DoneFrame, ErrorFrame, Frame, ContentsOf
<1>2. \A i \in Int, c \in CallIdx \cup {NotSeen} : \A kind \in {"text", "tool"} :
        BlockStart(i, kind, c) \in Frame /\ ContentsOf(BlockStart(i, kind, c)) = <<>>
  BY DEF BlockStart, Frame, ContentsOf
<1>3. \A i \in Int : BlockStop(i) \in Frame /\ ContentsOf(BlockStop(i)) = <<>>
  BY DEF BlockStop, Frame, ContentsOf
<1>4. \A i \in Int : \A content \in Content :
        Delta(i, content) \in Frame /\ ContentsOf(Delta(i, content)) = <<content>>
  BY DEF Delta, Frame, ContentsOf
<1>5. \A role, finish \in BOOLEAN : \A n \in Nat : \A calls \in Seq(CallParts) :
        /\ Chunk(role, n, calls, finish) \in Frame
        /\ ContentsOf(Chunk(role, n, calls, finish)) = ContentsIn(n, calls)
  BY DEF Chunk, Frame, ContentsOf
<1>6. \A finish \in BOOLEAN : \A n \in Nat : \A calls \in Seq(WholeCalls) :
        /\ Candidate(n, calls, finish) \in Frame
        /\ ContentsOf(Candidate(n, calls, finish)) = ContentsIn(n, calls)
  BY DEF Candidate, Frame, ContentsOf
<1> QED
  BY <1>1, <1>2, <1>3, <1>4, <1>5, <1>6

\* What a frame carries is a sequence of contents.
LEMMA FrameContents == ASSUME NEW f \in Frame PROVE ContentsOf(f) \in Seq(Content)
<1>1. CASE f.type \notin {"block_delta", "chunk", "candidate"}
  BY <1>1 DEF ContentsOf
<1>2. CASE f.type = "block_delta"
  <2>1. f.content \in Content /\ ContentsOf(f) = <<f.content>>
    BY <1>2 DEF Frame, ContentsOf
  <2> QED
    BY <2>1
<1>3. CASE f.type = "chunk"
  <2>1. f.text \in Nat /\ f.calls \in Seq(CallParts) /\ ContentsOf(f) = ContentsIn(f.text, f.calls)
    BY <1>3 DEF Frame, ContentsOf
  <2>2. \A i \in DOMAIN f.calls : f.calls[i].call \in CallIdx /\ f.calls[i].args \in Nat
    <3>1. \A i \in DOMAIN f.calls : f.calls[i] \in CallParts
      BY <2>1
    <3> QED
      BY <3>1 DEF CallParts
  <2> QED
    BY <2>1, <2>2, ContentsInIs
<1>4. CASE f.type = "candidate"
  <2>1. f.text \in Nat /\ f.calls \in Seq(WholeCalls) /\ ContentsOf(f) = ContentsIn(f.text, f.calls)
    BY <1>4 DEF Frame, ContentsOf
  <2>2. \A i \in DOMAIN f.calls : f.calls[i].call \in CallIdx /\ f.calls[i].args \in Nat
    <3>1. \A i \in DOMAIN f.calls : f.calls[i] \in WholeCalls
      BY <2>1
    <3> QED
      BY <3>1 DEF WholeCalls
  <2> QED
    BY <2>1, <2>2, ContentsInIs
<1> QED
  BY <1>1, <1>2, <1>3, <1>4

\* The contents of each frame.
OfEach(frames) == [i \in DOMAIN frames |-> ContentsOf(frames[i])]

\* What frames carry is what each carries, put together.
LEMMA OfEachIs ==
  ASSUME NEW p \in Seq(Frame)
  PROVE  /\ OfEach(p) \in Seq(Seq(Content)) /\ Len(OfEach(p)) = Len(p)
         /\ Contents(p) = FlattenSeq(OfEach(p)) /\ Contents(p) \in Seq(Content)
<1>1. DOMAIN p = 1..Len(p) /\ Len(p) \in Nat /\ \A i \in 1..Len(p) : p[i] \in Frame
  OBVIOUS
<1>2. \A i \in 1..Len(p) : ContentsOf(p[i]) \in Seq(Content)
  BY <1>1, FrameContents
<1>3. OfEach(p) \in Seq(Seq(Content)) /\ Len(OfEach(p)) = Len(p)
  BY <1>1, <1>2 DEF OfEach
<1>4. Contents(p) = FlattenSeq(OfEach(p))
  BY DEF Contents, OfEach
<1> QED
  BY <1>3, <1>4, FlatType

\* The contents of two sequences of frames, one after the other.
LEMMA ContentsConcat ==
  ASSUME NEW p \in Seq(Frame), NEW q \in Seq(Frame)
  PROVE  Contents(p \o q) = Contents(p) \o Contents(q)
<1>1. /\ p \o q \in Seq(Frame) /\ Len(p \o q) = Len(p) + Len(q)
      /\ Len(p) \in Nat /\ Len(q) \in Nat
      /\ \A i \in 1..(Len(p) + Len(q)) : (p \o q)[i] = IF i <= Len(p) THEN p[i] ELSE q[i - Len(p)]
  BY ConcatProperties
<1>2. /\ OfEach(p) \in Seq(Seq(Content)) /\ Len(OfEach(p)) = Len(p)
      /\ OfEach(q) \in Seq(Seq(Content)) /\ Len(OfEach(q)) = Len(q)
      /\ OfEach(p \o q) \in Seq(Seq(Content)) /\ Len(OfEach(p \o q)) = Len(p) + Len(q)
  BY <1>1, OfEachIs
<1>3. \A i \in 1..Len(p) : OfEach(p)[i] = ContentsOf(p[i])
  BY DEF OfEach
<1>4. \A i \in 1..Len(q) : OfEach(q)[i] = ContentsOf(q[i])
  BY DEF OfEach
<1>5. \A i \in 1..(Len(p) + Len(q)) : OfEach(p \o q)[i] = ContentsOf((p \o q)[i])
  BY <1>1 DEF OfEach
<1>6. /\ OfEach(p) \o OfEach(q) \in Seq(Seq(Content))
      /\ Len(OfEach(p) \o OfEach(q)) = Len(p) + Len(q)
      /\ \A i \in 1..(Len(p) + Len(q)) :
           (OfEach(p) \o OfEach(q))[i] = IF i <= Len(p) THEN OfEach(p)[i] ELSE OfEach(q)[i - Len(p)]
  <2> DEFINE S == Seq(Content)
             a == OfEach(p)
             b == OfEach(q)
  <2>1. a \in Seq(S) /\ b \in Seq(S) /\ Len(a) = Len(p) /\ Len(b) = Len(q)
    BY <1>2
  <2> HIDE DEF S, a, b
  <2>2. /\ a \o b \in Seq(S) /\ Len(a \o b) = Len(a) + Len(b)
        /\ \A i \in 1..(Len(a) + Len(b)) : (a \o b)[i] = IF i <= Len(a) THEN a[i] ELSE b[i - Len(a)]
    BY <2>1, ConcatProperties
  <2> QED
    BY <2>1, <2>2 DEF S, a, b
<1>7. ASSUME NEW i \in 1..(Len(p) + Len(q)) PROVE OfEach(p \o q)[i] = (OfEach(p) \o OfEach(q))[i]
  <2>1. CASE i <= Len(p)
    <3>1. i \in 1..Len(p)
      BY <1>1, <2>1
    <3> QED
      BY <1>1, <1>3, <1>5, <1>6, <2>1, <3>1
  <2>2. CASE ~ (i <= Len(p))
    <3>1. i - Len(p) \in 1..Len(q)
      BY <1>1, <2>2
    <3>2. OfEach(p \o q)[i] = ContentsOf(q[i - Len(p)])
      BY <1>1, <1>5, <2>2
    <3> QED
      BY <1>4, <1>6, <2>2, <3>1, <3>2
  <2> QED
    BY <2>1, <2>2
<1>8. OfEach(p \o q) = OfEach(p) \o OfEach(q)
  BY <1>2, <1>6, <1>7, SeqEqual
<1>9. FlattenSeq(OfEach(p) \o OfEach(q)) = FlattenSeq(OfEach(p)) \o FlattenSeq(OfEach(q))
  BY <1>2, FlatConcat
<1> QED
  BY <1>1, <1>8, <1>9, OfEachIs

\* One frame more.
LEMMA ContentsAppend ==
  ASSUME NEW p \in Seq(Frame), NEW f \in Frame
  PROVE  Contents(Append(p, f)) = Contents(p) \o ContentsOf(f)
<1>1. Append(p, f) = p \o <<f>> /\ <<f>> \in Seq(Frame)
  BY AppendIsConcat
<1>2. Contents(<<f>>) = ContentsOf(f)
  <2>1. OfEach(<<f>>) = <<ContentsOf(f)>>
    BY DEF OfEach
  <2>2. ContentsOf(f) \in Seq(Content) /\ Contents(<<f>>) = FlattenSeq(OfEach(<<f>>))
    BY <1>1, FrameContents, OfEachIs
  <2> QED
    BY <2>1, <2>2, FlatOne
<1> QED
  BY <1>1, <1>2, ContentsConcat

----------------------------------------------------------------------------
(* The converter's fields, and what its operations add to the frames.        *)

Converters ==
  [msgStarted : BOOLEAN, blockStarted : BOOLEAN, blockIndex : Int, toolOpen : BOOLEAN,
   toolIdx : [CallIdx -> Int], geminiFirstSent : BOOLEAN, parts : Seq(Frame)]

\* From s to t the converter has told cs.
Tells(s, cs, t) ==
  /\ t \in Converters
  /\ Contents(t.parts) = Contents(s.parts) \o cs

\* A change of fields alone tells nothing.
LEMMA TellsNothing ==
  ASSUME NEW s \in Converters, NEW t \in Converters, t.parts = s.parts
  PROVE  Tells(s, <<>>, t)
<1>1. Contents(s.parts) \in Seq(Content)
  BY OfEachIs DEF Converters
<1>2. Contents(s.parts) \o <<>> = Contents(s.parts)
  BY <1>1, ConcatEmptySeq
<1> QED
  BY <1>2 DEF Tells

\* What is told in two steps is told one after the other.
LEMMA TellsThen ==
  ASSUME NEW s \in Converters, NEW t, NEW u, NEW cs \in Seq(Content), NEW ds \in Seq(Content),
         Tells(s, cs, t), Tells(t, ds, u)
  PROVE  Tells(s, cs \o ds, u)
<1>1. Contents(s.parts) \in Seq(Content)
  BY OfEachIs DEF Converters
<1>2. Contents(u.parts) = (Contents(s.parts) \o cs) \o ds
  BY DEF Tells
<1>3. (Contents(s.parts) \o cs) \o ds = Contents(s.parts) \o (cs \o ds)
  BY <1>1, ConcatAssociative
<1> QED
  BY <1>2, <1>3 DEF Tells

\* Nothing and then something, and the other way round.
LEMMA TellsSilently ==
  ASSUME NEW s \in Converters, NEW t, NEW u, NEW cs \in Seq(Content)
  PROVE  /\ Tells(s, <<>>, t) /\ Tells(t, cs, u) => Tells(s, cs, u)
         /\ Tells(s, cs, t) /\ Tells(t, <<>>, u) => Tells(s, cs, u)
<1>1. <<>> \in Seq(Content) /\ <<>> \o cs = cs /\ cs \o <<>> = cs
  BY ConcatEmptySeq
<1> QED
  BY <1>1, TellsThen

\* Another frame.
LEMMA EmitIs ==
  ASSUME NEW s \in Converters, NEW f \in Frame
  PROVE  /\ Emit(s, f) \in Converters /\ Tells(s, ContentsOf(f), Emit(s, f))
         /\ Emit(s, f).msgStarted = s.msgStarted /\ Emit(s, f).blockStarted = s.blockStarted
         /\ Emit(s, f).blockIndex = s.blockIndex /\ Emit(s, f).toolOpen = s.toolOpen
         /\ Emit(s, f).toolIdx = s.toolIdx
<1>1. s.parts \in Seq(Frame)
  BY DEF Converters
<1>2. Append(s.parts, f) \in Seq(Frame)
  BY <1>1
<1>3. /\ Emit(s, f) \in Converters /\ Emit(s, f).parts = Append(s.parts, f)
      /\ Emit(s, f).msgStarted = s.msgStarted /\ Emit(s, f).blockStarted = s.blockStarted
      /\ Emit(s, f).blockIndex = s.blockIndex /\ Emit(s, f).toolOpen = s.toolOpen
      /\ Emit(s, f).toolIdx = s.toolIdx
  BY <1>2 DEF Emit, Converters
<1> QED
  BY <1>1, <1>3, ContentsAppend DEF Tells

\* A frame without contents.
LEMMA EmitSilent ==
  ASSUME NEW s \in Converters, NEW f \in Frame, ContentsOf(f) = <<>>
  PROVE  Tells(s, <<>>, Emit(s, f))
BY EmitIs

\* Indices are integers.
LEMMA IndexIs ==
  /\ CallIdx \subseteq Int /\ NotSeen \in Int
  /\ \A s \in Converters : /\ s.blockIndex \in Int
                           /\ \A c \in CallIdx : s.toolIdx[c] \in Int /\ IndexOf(s, c) \in Int
BY StreamAssumption DEF Converters, IndexOf, NotSeen

\* The message begins.
LEMMA StartedIs == ASSUME NEW s \in Converters PROVE Tells(s, <<>>, Started(s))
<1>1. CASE s.msgStarted
  BY <1>1, TellsNothing DEF Started
<1>2. CASE ~s.msgStarted
  <2> DEFINE t == Emit(s, MessageStart)
             u == [t EXCEPT !.msgStarted = TRUE]
  <2>1. t \in Converters /\ Tells(s, <<>>, t)
    BY FramesAre, EmitIs, EmitSilent
  <2>2. Started(s) = u
    BY <1>2 DEF Started
  <2> HIDE DEF t
  <2>3. u \in Converters /\ u.parts = t.parts
    BY <2>1 DEF Converters
  <2>4. Tells(t, <<>>, u)
    BY <2>1, <2>3, TellsNothing
  <2>5. <<>> \in Seq(Content)
    OBVIOUS
  <2> HIDE DEF u
  <2> QED
    BY <2>1, <2>2, <2>4, <2>5, TellsSilently
<1> QED
  BY <1>1, <1>2

\* A text is told in a block.
LEMMA OnTextIs ==
  ASSUME NEW s \in Converters, NEW n \in Nat
  PROVE  Tells(s, <<TextOf(n)>>, OnText(s, n))
<1> DEFINE b == s.blockIndex
           st == Started(s)
           t == Emit(st, BlockStart(b, "text", NotSeen))
           u == [t EXCEPT !.blockStarted = TRUE]
           opened == IF st.blockStarted THEN st ELSE u
<1>1. b \in Int /\ TextOf(n) \in Content /\ <<TextOf(n)>> \in Seq(Content) /\ <<>> \in Seq(Content)
  BY IndexIs DEF TextOf, Content
<1>2. st \in Converters /\ Tells(s, <<>>, st)
  BY StartedIs DEF Tells
<1>3. OnText(s, n) = Emit(opened, Delta(b, TextOf(n)))
  BY DEF OnText
<1> HIDE DEF st, b
<1>4. t \in Converters /\ Tells(st, <<>>, t)
  <2>1. BlockStart(b, "text", NotSeen) \in Frame /\ ContentsOf(BlockStart(b, "text", NotSeen)) = <<>>
    BY <1>1, FramesAre
  <2> QED
    BY <1>2, <2>1, EmitIs, EmitSilent
<1> HIDE DEF t
<1>5. u \in Converters /\ u.parts = t.parts
  BY <1>4 DEF Converters
<1> HIDE DEF u
<1>6. Tells(t, <<>>, u)
  BY <1>4, <1>5, TellsNothing
<1>7. opened \in Converters /\ Tells(s, <<>>, opened)
  <2>1. Tells(s, <<>>, u)
    BY <1>1, <1>2, <1>4, <1>6, TellsSilently
  <2> QED
    BY <1>2, <1>5, <2>1
<1> HIDE DEF opened
<1>8. Tells(opened, <<TextOf(n)>>, OnText(s, n))
  BY <1>1, <1>3, <1>7, FramesAre, EmitIs
<1> QED
  BY <1>1, <1>7, <1>8, TellsSilently

\* Closing is silent.
LEMMA CloseTextIs == ASSUME NEW s \in Converters PROVE Tells(s, <<>>, CloseText(s))
<1>1. CASE ~s.blockStarted
  BY <1>1, TellsNothing DEF CloseText
<1>2. CASE s.blockStarted
  <2> DEFINE t == Emit(s, BlockStop(s.blockIndex))
             u == [t EXCEPT !.blockStarted = FALSE]
  <2>1. BlockStop(s.blockIndex) \in Frame /\ ContentsOf(BlockStop(s.blockIndex)) = <<>>
    BY IndexIs, FramesAre
  <2>2. t \in Converters /\ Tells(s, <<>>, t)
    BY <2>1, EmitIs, EmitSilent
  <2>3. CloseText(s) = u
    BY <1>2 DEF CloseText
  <2> HIDE DEF t
  <2>4. u \in Converters /\ u.parts = t.parts
    BY <2>2 DEF Converters
  <2> HIDE DEF u
  <2>5. Tells(t, <<>>, u)
    BY <2>2, <2>4, TellsNothing
  <2>6. <<>> \in Seq(Content)
    OBVIOUS
  <2> QED
    BY <2>2, <2>3, <2>5, <2>6, TellsSilently
<1> QED
  BY <1>1, <1>2

\* So is leaving a text for a tool.
LEMMA LeaveTextIs == ASSUME NEW s \in Converters PROVE Tells(s, <<>>, LeaveText(s))
<1> DEFINE t == CloseText(s)
           i == IF s.blockStarted THEN t.blockIndex + 1 ELSE t.blockIndex
           u == [t EXCEPT !.blockIndex = i]
<1>1. t \in Converters /\ Tells(s, <<>>, t)
  BY CloseTextIs DEF Tells
<1>2. LeaveText(s) = u
  BY DEF LeaveText
<1> HIDE DEF t
<1>3. i \in Int
  <2>1. t.blockIndex \in Int
    BY <1>1, IndexIs
  <2> QED
    BY <2>1
<1> HIDE DEF i
<1>4. u \in Converters /\ u.parts = t.parts
  BY <1>1, <1>3 DEF Converters
<1> HIDE DEF u
<1>5. Tells(t, <<>>, u)
  BY <1>1, <1>4, TellsNothing
<1>6. <<>> \in Seq(Content)
  OBVIOUS
<1> QED
  BY <1>1, <1>2, <1>5, <1>6, TellsSilently

\* The block of a tool that is left is closed, under whatever index.
LEMMA LeaveToolIs ==
  ASSUME NEW s \in Converters, NEW c \in CallIdx
  PROVE  Tells(s, <<>>, LeaveTool(s, c))
<1> DEFINE prev == s.toolIdx[c]
           last == IF prev # NotSeen /\ prev # s.blockIndex THEN prev ELSE s.blockIndex
           t == Emit(s, BlockStop(last))
           u == [t EXCEPT !.toolOpen = FALSE]
<1>1. last \in Int /\ <<>> \in Seq(Content)
  BY IndexIs
<1>2. LeaveTool(s, c) = IF s.toolOpen THEN u ELSE s
  BY DEF LeaveTool
<1> HIDE DEF last
<1>3. t \in Converters /\ Tells(s, <<>>, t)
  BY <1>1, FramesAre, EmitIs, EmitSilent
<1> HIDE DEF t
<1>4. u \in Converters /\ u.parts = t.parts
  BY <1>3 DEF Converters
<1>5. Tells(t, <<>>, u) /\ Tells(s, <<>>, s)
  BY <1>3, <1>4, TellsNothing
<1> HIDE DEF u
<1> QED
  BY <1>1, <1>2, <1>3, <1>5, TellsSilently

\* Opening a tool's block is silent.
LEMMA OpenToolIs ==
  ASSUME NEW s \in Converters, NEW c \in CallIdx
  PROVE  Tells(s, <<>>, OpenTool(s, c))
<1> DEFINE t == Emit(s, BlockStart(s.blockIndex, "tool", c))
           idx == [t.toolIdx EXCEPT ![c] = s.blockIndex]
           i == t.blockIndex + 1
           u == [t EXCEPT !.toolIdx = idx, !.blockIndex = i, !.toolOpen = TRUE]
<1>1. BlockStart(s.blockIndex, "tool", c) \in Frame
      /\ ContentsOf(BlockStart(s.blockIndex, "tool", c)) = <<>>
  BY IndexIs, FramesAre
<1>2. t \in Converters /\ Tells(s, <<>>, t)
  BY <1>1, EmitIs, EmitSilent
<1>3. OpenTool(s, c) = u
  BY DEF OpenTool
<1> HIDE DEF t
<1>4. i \in Int /\ idx \in [CallIdx -> Int]
  <2>1. s.blockIndex \in Int /\ t.blockIndex \in Int
    BY <1>2, IndexIs
  <2>2. t.toolIdx \in [CallIdx -> Int]
    BY <1>2 DEF Converters
  <2> QED
    BY <2>1, <2>2
<1> HIDE DEF i, idx
<1>5. u \in Converters /\ u.parts = t.parts
  BY <1>2, <1>4 DEF Converters
<1> HIDE DEF u
<1>6. Tells(t, <<>>, u)
  BY <1>2, <1>5, TellsNothing
<1>7. <<>> \in Seq(Content)
  OBVIOUS
<1> QED
  BY <1>2, <1>3, <1>6, <1>7, TellsSilently

\* A call tells its arguments, whatever it opens and closes before.
LEMMA OnCallIs ==
  ASSUME NEW s \in Converters, NEW call \in CallParts
  PROVE  Tells(s, IF call.args = 0 THEN <<>> ELSE <<ArgsOf(call.call, call.args)>>, OnCall(s, call))
<1> DEFINE c == call.call
           s1 == LeaveText(s)
           s2 == LeaveTool(s1, c)
           s3 == OpenTool(s2, c)
           opened == IF call.named THEN s3 ELSE s
<1>1. c \in CallIdx /\ call.args \in Nat /\ <<>> \in Seq(Content)
  BY DEF CallParts
<1>2. s1 \in Converters /\ Tells(s, <<>>, s1)
  BY LeaveTextIs DEF Tells
<1>3. s2 \in Converters /\ Tells(s1, <<>>, s2)
  BY <1>1, <1>2, LeaveToolIs DEF Tells
<1>4. s3 \in Converters /\ Tells(s2, <<>>, s3)
  BY <1>1, <1>3, OpenToolIs DEF Tells
<1>5. OnCall(s, call) =
        IF call.args = 0 THEN opened
        ELSE Emit(opened, Delta(IndexOf(opened, c), ArgsOf(c, call.args)))
  BY DEF OnCall
<1> HIDE DEF s1, s2, s3
<1>6. opened \in Converters /\ Tells(s, <<>>, opened)
  <2>1. Tells(s, <<>>, s2)
    BY <1>1, <1>2, <1>3, TellsSilently
  <2>2. Tells(s, <<>>, s3)
    BY <1>1, <1>4, <2>1, TellsSilently
  <2> QED
    BY <1>4, <2>2, TellsNothing
<1> HIDE DEF opened
<1>7. CASE call.args = 0
  BY <1>5, <1>6, <1>7
<1>8. CASE call.args # 0
  <2>1. ArgsOf(c, call.args) \in Content /\ <<ArgsOf(c, call.args)>> \in Seq(Content)
    BY <1>1 DEF ArgsOf, Content
  <2>2. IndexOf(opened, c) \in Int
    BY <1>1, <1>6, IndexIs
  <2>3. Tells(opened, <<ArgsOf(c, call.args)>>, OnCall(s, call))
    BY <1>5, <1>6, <1>8, <2>1, <2>2, FramesAre, EmitIs
  <2>4. Tells(s, <<ArgsOf(c, call.args)>>, OnCall(s, call))
    BY <1>6, <2>1, <2>3, TellsSilently
  <2> QED
    BY <1>8, <2>4
<1> QED
  BY <1>7, <1>8

\* The end closes what is open and tells nothing.
LEMMA OnFinishIs == ASSUME NEW s \in Converters PROVE Tells(s, <<>>, OnFinish(s))
<1> DEFINE t == CloseText(s)
           last == IF t.blockIndex > 0 THEN t.blockIndex - 1 ELSE 0
           v == Emit(t, BlockStop(last))
           u == [v EXCEPT !.toolOpen = FALSE]
           closed == IF t.toolOpen THEN u ELSE t
           w == Emit(closed, MessageDelta)
<1>1. <<>> \in Seq(Content)
  OBVIOUS
<1>2. t \in Converters /\ Tells(s, <<>>, t)
  BY CloseTextIs DEF Tells
<1>3. OnFinish(s) = Emit(w, MessageStop)
  BY DEF OnFinish
<1> HIDE DEF t
<1>4. last \in Int
  <2>1. t.blockIndex \in Int
    BY <1>2, IndexIs
  <2> QED
    BY <2>1
<1> HIDE DEF last
<1>5. v \in Converters /\ Tells(t, <<>>, v)
  BY <1>2, <1>4, FramesAre, EmitIs, EmitSilent
<1> HIDE DEF v
<1>6. u \in Converters /\ u.parts = v.parts
  BY <1>5 DEF Converters
<1> HIDE DEF u
<1>7. Tells(v, <<>>, u)
  BY <1>5, <1>6, TellsNothing
<1>8. Tells(s, <<>>, v)
  BY <1>1, <1>2, <1>5, TellsSilently
<1>9. Tells(s, <<>>, u)
  BY <1>1, <1>5, <1>7, <1>8, TellsSilently
<1>10. closed \in Converters /\ Tells(s, <<>>, closed)
  BY <1>2, <1>6, <1>9
<1> HIDE DEF closed
<1>11. w \in Converters /\ Tells(closed, <<>>, w)
  BY <1>10, FramesAre, EmitIs, EmitSilent
<1> HIDE DEF w
<1>12. Tells(w, <<>>, OnFinish(s))
  BY <1>3, <1>11, FramesAre, EmitSilent
<1>13. Tells(s, <<>>, w)
  BY <1>1, <1>10, <1>11, TellsSilently
<1> QED
  BY <1>1, <1>11, <1>12, <1>13, TellsSilently

----------------------------------------------------------------------------
(* The calls of one chunk.                                                   *)

\* The function by which OnCalls is computed.
IsRun(s, calls, f) ==
  f = [i \in 0..Len(calls) |-> IF i = 0 THEN s ELSE OnCall(f[i - 1], calls[i])]

\* There is such a function: the calls are finitely many.
LEMMA RunExists ==
  ASSUME NEW s, NEW calls, Len(calls) \in Nat
  PROVE  \E f : IsRun(s, calls, f)
<1> DEFINE Upto(n, f) == f = [i \in 0..n |-> IF i = 0 THEN s ELSE OnCall(f[i - 1], calls[i])]
           done == {n \in 0..Len(calls) : \E f : Upto(n, f)}
<1>1. 0 \in done
  <2> DEFINE f == [i \in 0..0 |-> s]
  <2>1. Upto(0, f)
    OBVIOUS
  <2>2. \E g : Upto(0, g)
    BY <2>1
  <2>3. 0 \in 0..Len(calls)
    OBVIOUS
  <2> QED
    BY <2>2, <2>3
<1>2. ASSUME NEW n \in 0..Len(calls), n \in done, n < Len(calls) PROVE n + 1 \in done
  <2>1. PICK f : Upto(n, f)
    BY <1>2
  <2> DEFINE g == [i \in 0..(n + 1) |-> IF i <= n THEN f[i] ELSE OnCall(f[n], calls[n + 1])]
  <2>2. \A i \in 0..n : f[i] = IF i = 0 THEN s ELSE OnCall(f[i - 1], calls[i])
    BY <2>1
  <2>3. \A i \in 0..(n + 1) : g[i] = IF i = 0 THEN s ELSE OnCall(g[i - 1], calls[i])
    BY <2>2
  <2>4. Upto(n + 1, g)
    BY <2>3
  <2>5. n + 1 \in 0..Len(calls)
    BY <1>2
  <2> QED
    BY <2>4, <2>5
<1> HIDE DEF done
<1>3. 0..Len(calls) \subseteq done
  BY <1>1, <1>2, InductionUpTo
<1>4. Len(calls) \in done
  BY <1>3
<1> QED
  BY <1>4 DEF done, IsRun

\* Several calls tell their arguments in order.
LEMMA OnCallsIs ==
  ASSUME NEW s \in Converters, NEW calls \in Seq(CallParts)
  PROVE  Tells(s, ArgsIn(calls), OnCalls(s, calls)) /\ ArgsIn(calls) \in Seq(Content)
<1> DEFINE F == CHOOSE f : IsRun(s, calls, f)
           ss == ArgsOfEach(calls)
<1>1. /\ Len(calls) \in Nat /\ DOMAIN calls = 1..Len(calls)
      /\ \A i \in 1..Len(calls) : calls[i] \in CallParts
  OBVIOUS
<1>2. \A i \in DOMAIN calls : calls[i].call \in CallIdx /\ calls[i].args \in Nat
  BY <1>1 DEF CallParts
<1>3. ss \in Seq(Seq(Content)) /\ Len(ss) = Len(calls) /\ ArgsIn(calls) \in Seq(Content)
  BY <1>1, <1>2, ArgsAreContents
<1>4. ArgsIn(calls) = FlattenSeq(ss)
  BY DEF ArgsIn, ArgsOfEach
<1>5. \A i \in 1..Len(calls) :
        ss[i] = IF calls[i].args = 0 THEN <<>> ELSE <<ArgsOf(calls[i].call, calls[i].args)>>
  BY <1>1 DEF ArgsOfEach
<1>6. IsRun(s, calls, F)
  BY <1>1, RunExists
<1>7. OnCalls(s, calls) = F[Len(calls)]
  BY DEF OnCalls, IsRun
<1> HIDE DEF F, ss
<1>8. F[0] = s /\ \A i \in 1..Len(calls) : F[i] = OnCall(F[i - 1], calls[i])
  <2> DEFINE G == F
  <2>1. F = [i \in 0..Len(calls) |-> IF i = 0 THEN s ELSE OnCall(G[i - 1], calls[i])]
    BY <1>6 DEF IsRun
  <2> HIDE DEF G
  <2>2. F[0] = s /\ \A i \in 1..Len(calls) : F[i] = OnCall(G[i - 1], calls[i])
    BY <1>1, <2>1
  <2> QED
    BY <2>2 DEF G
<1>9. PICK g : SumsOf(ss, g)
  BY <1>3, SumsExist
<1>10. \A i \in 0..Len(calls) : g[i] \in Seq(Content)
  BY <1>3, <1>9, SumsType
<1> DEFINE good == {i \in 0..Len(calls) : Tells(s, g[i], F[i])}
<1>11. 0 \in good
  <2>1. g[0] = <<>> /\ 0 \in 0..Len(calls)
    BY <1>1, <1>9 DEF SumsOf
  <2>2. Tells(s, g[0], F[0])
    BY <1>8, <2>1, TellsNothing
  <2> QED
    BY <2>1, <2>2
<1>12. ASSUME NEW n \in 0..Len(calls), n \in good, n < Len(calls) PROVE n + 1 \in good
  <2>1. n \in Nat /\ n + 1 \in 1..Len(calls) /\ n + 1 \in 0..Len(calls) /\ (n + 1) - 1 = n
    <3> HIDE DEF good
    <3> QED
      BY <1>1, <1>12
  <2>2. Tells(s, g[n], F[n]) /\ F[n] \in Converters
    BY <1>12 DEF Tells
  <2>3. F[n + 1] = OnCall(F[n], calls[n + 1]) /\ calls[n + 1] \in CallParts
    BY <1>1, <1>8, <2>1
  <2>4. Tells(F[n], ss[n + 1], F[n + 1])
    <3>1. ss[n + 1] = IF calls[n + 1].args = 0 THEN <<>>
                      ELSE <<ArgsOf(calls[n + 1].call, calls[n + 1].args)>>
      BY <1>5, <2>1
    <3> HIDE DEF good
    <3>2. Tells(F[n], IF calls[n + 1].args = 0 THEN <<>>
                      ELSE <<ArgsOf(calls[n + 1].call, calls[n + 1].args)>>, OnCall(F[n], calls[n + 1]))
      BY <2>2, <2>3, OnCallIs
    <3> QED
      BY <2>3, <3>1, <3>2
  <2>5. g[n + 1] = g[n] \o ss[n + 1]
    BY <1>3, <1>9, <2>1 DEF SumsOf, Joined
  <2>6. g[n] \in Seq(Content) /\ ss[n + 1] \in Seq(Content)
    BY <1>3, <1>10, <2>1
  <2>7. Tells(s, g[n + 1], F[n + 1])
    <3> HIDE DEF good
    <3> QED
      BY <2>2, <2>4, <2>5, <2>6, TellsThen
  <2> QED
    BY <2>1, <2>7
<1> HIDE DEF good
<1>13. Len(calls) \in good
  <2>1. 0..Len(calls) \subseteq good
    BY <1>1, <1>11, <1>12, InductionUpTo
  <2> QED
    BY <1>1, <2>1
<1>14. g[Len(calls)] = ArgsIn(calls)
  BY <1>3, <1>4, <1>9, FlatIsSum
<1> QED
  BY <1>3, <1>7, <1>13, <1>14 DEF good

\* A whole OpenAI chunk tells its text and then its calls.
LEMMA OpenAIToAnthropicIs ==
  ASSUME NEW s \in Converters, NEW role \in BOOLEAN, NEW n \in Nat, NEW calls \in Seq(CallParts),
         NEW finish \in BOOLEAN
  PROVE  Tells(s, ContentsIn(n, calls), OpenAIToAnthropic(s, Chunk(role, n, calls, finish)))
<1> DEFINE r == IF role THEN Started(s) ELSE s
           t == IF n # 0 THEN OnText(r, n) ELSE r
           st == Started(t)
           u == IF calls # <<>> THEN OnCalls(st, calls) ELSE t
           words == IF n = 0 THEN <<>> ELSE <<TextOf(n)>>
<1>1. words \in Seq(Content) /\ <<>> \in Seq(Content)
  <2>1. TextOf(n) \in Content
    BY DEF TextOf, Content
  <2> QED
    BY <2>1
<1>2. r \in Converters /\ Tells(s, <<>>, r)
  BY StartedIs, TellsNothing DEF Tells
<1>3. OpenAIToAnthropic(s, Chunk(role, n, calls, finish)) = IF finish THEN OnFinish(u) ELSE u
  BY DEF OpenAIToAnthropic, Chunk
<1> HIDE DEF r
<1>4. t \in Converters /\ Tells(r, words, t)
  <2>1. CASE n = 0
    BY <1>2, <2>1, TellsNothing
  <2>2. CASE n # 0
    BY <1>2, <2>2, OnTextIs DEF Tells
  <2> QED
    BY <2>1, <2>2
<1>5. ContentsIn(n, calls) = words \o ArgsIn(calls)
  BY DEF ContentsIn
<1> HIDE DEF t, words
<1>6. Tells(s, words, t)
  BY <1>1, <1>2, <1>4, TellsSilently
<1>7. st \in Converters /\ Tells(t, <<>>, st)
  BY <1>4, StartedIs DEF Tells
<1> HIDE DEF st
<1>8. Tells(t, ArgsIn(calls), u) /\ ArgsIn(calls) \in Seq(Content)
  <2>1. CASE calls = <<>>
    <3>1. ArgsIn(calls) = <<>>
      BY <2>1, ArgsOfFew
    <3> QED
      BY <1>1, <1>4, <2>1, <3>1, TellsNothing
  <2>2. CASE calls # <<>>
    <3>1. Tells(st, ArgsIn(calls), OnCalls(st, calls)) /\ ArgsIn(calls) \in Seq(Content)
      BY <1>7, OnCallsIs
    <3>2. Tells(t, ArgsIn(calls), OnCalls(st, calls))
      BY <1>4, <1>7, <3>1, TellsSilently
    <3> QED
      BY <2>2, <3>1, <3>2
  <2> QED
    BY <2>1, <2>2
<1>9. u \in Converters
  BY <1>8 DEF Tells
<1> HIDE DEF u
<1>10. Tells(s, ContentsIn(n, calls), u)
  BY <1>1, <1>5, <1>6, <1>8, TellsThen
<1>11. ContentsIn(n, calls) \in Seq(Content)
  BY <1>1, <1>5, <1>8, ConcatProperties
<1>12. CASE finish
  <2>1. Tells(u, <<>>, OnFinish(u))
    BY <1>9, OnFinishIs
  <2>2. Tells(s, ContentsIn(n, calls), OnFinish(u))
    BY <1>10, <1>11, <2>1, TellsSilently
  <2> QED
    BY <1>3, <1>12, <2>2
<1>13. CASE ~finish
  BY <1>3, <1>10, <1>13
<1> QED
  BY <1>12, <1>13

----------------------------------------------------------------------------
(* The other directions.                                                     *)

\* A frame that carries cs tells cs.
LEMMA EmitTells ==
  ASSUME NEW s \in Converters, NEW f \in Frame, NEW cs, ContentsOf(f) = cs
  PROVE  Tells(s, cs, Emit(s, f))
BY EmitIs

\* A text alone, one call's part alone, and nothing at all in a chunk.
LEMMA SmallChunks ==
  /\ <<>> \in Seq(CallParts)
  /\ ContentsIn(0, <<>>) = <<>>
  /\ \A n \in Nat \ {0} : ContentsIn(n, <<>>) = <<TextOf(n)>>
  /\ \A i \in Int, c \in CallIdx, n \in Nat : \A named \in BOOLEAN :
       /\ <<CallAt(i, c, named, n)>> \in Seq(CallParts)
       /\ ContentsIn(0, <<CallAt(i, c, named, n)>>) = IF n = 0 THEN <<>> ELSE <<ArgsOf(c, n)>>
<1>1. <<>> \in Seq(CallParts)
  OBVIOUS
<1>2. ArgsIn(<<>>) = <<>>
  BY ArgsOfFew
<1>3. ContentsIn(0, <<>>) = <<>>
  BY <1>2 DEF ContentsIn
<1>4. ASSUME NEW n \in Nat \ {0} PROVE ContentsIn(n, <<>>) = <<TextOf(n)>>
  <2>1. <<TextOf(n)>> \in Seq({TextOf(n)})
    OBVIOUS
  <2>2. <<TextOf(n)>> \o <<>> = <<TextOf(n)>>
    BY <2>1, ConcatEmptySeq
  <2> QED
    BY <1>2, <2>2 DEF ContentsIn
<1>5. ASSUME NEW i \in Int, NEW c \in CallIdx, NEW n \in Nat, NEW named \in BOOLEAN
      PROVE  /\ <<CallAt(i, c, named, n)>> \in Seq(CallParts)
             /\ ContentsIn(0, <<CallAt(i, c, named, n)>>) = IF n = 0 THEN <<>> ELSE <<ArgsOf(c, n)>>
  <2> DEFINE x == CallAt(i, c, named, n)
  <2>1. x \in CallParts /\ x.call = c /\ x.args = n
    BY DEF CallAt, CallParts
  <2> HIDE DEF x
  <2>2. <<x>> \in Seq(CallParts)
    BY <2>1
  <2>3. ArgsIn(<<x>>) = IF n = 0 THEN <<>> ELSE <<ArgsOf(c, n)>>
    BY <2>1, ArgsOfFew
  <2>4. ArgsIn(<<x>>) \in Seq(Content)
    <3>1. ArgsOf(c, n) \in Content
      BY DEF ArgsOf, Content
    <3>2. <<ArgsOf(c, n)>> \in Seq(Content) /\ <<>> \in Seq(Content)
      BY <3>1
    <3> QED
      BY <2>3, <3>2
  <2>5. ContentsIn(0, <<x>>) = ArgsIn(<<x>>)
    BY <2>4, ConcatEmptySeq DEF ContentsIn
  <2> QED
    BY <2>2, <2>3, <2>5 DEF x
<1> QED
  BY <1>1, <1>3, <1>4, <1>5

\* The parts of Anthropic's messages for an OpenAI client.
LEMMA AnthropicToOpenAIEnvelope ==
  ASSUME NEW s \in Converters, NEW f \in {MessageStart, MessageDelta, MessageStop}
  PROVE  Tells(s, <<>>, AnthropicToOpenAI(s, f))
<1> DEFINE first == Chunk(TRUE, 0, <<>>, FALSE)
           last == Chunk(FALSE, 0, <<>>, TRUE)
<1>1. /\ first \in Frame /\ ContentsOf(first) = <<>>
      /\ last \in Frame /\ ContentsOf(last) = <<>>
      /\ DoneFrame \in Frame /\ ContentsOf(DoneFrame) = <<>>
  BY FramesAre, SmallChunks
<1>2. /\ AnthropicToOpenAI(s, MessageStart) = Emit(s, first)
      /\ AnthropicToOpenAI(s, MessageDelta) = Emit(s, last)
      /\ AnthropicToOpenAI(s, MessageStop) = Emit(s, DoneFrame)
  BY DEF AnthropicToOpenAI, MessageStart, MessageDelta, MessageStop
<1> HIDE DEF first, last
<1> QED
  BY <1>1, <1>2, EmitSilent

\* The end of a block is not converted.
LEMMA AnthropicToOpenAIStop ==
  ASSUME NEW s \in Converters, NEW b \in CallIdx
  PROVE  Tells(s, <<>>, AnthropicToOpenAI(s, BlockStop(b)))
<1>1. AnthropicToOpenAI(s, BlockStop(b)) = s
  BY DEF AnthropicToOpenAI, BlockStop
<1> QED
  BY <1>1, TellsNothing

\* A block that starts gives a tool its index and nothing else.
LEMMA AnthropicToOpenAIStart ==
  ASSUME NEW s \in Converters, NEW b \in CallIdx, NEW kind \in {"text", "tool"}
  PROVE  Tells(s, <<>>, AnthropicToOpenAI(s, BlockStart(b, kind, b)))
<1> DEFINE n == Cardinality(SeenTools(s))
           u == [s EXCEPT !.toolIdx = [s.toolIdx EXCEPT ![b] = n]]
           t == Meet(s, b)
           f == Chunk(FALSE, 0, <<CallAt(t.toolIdx[b], b, TRUE, 0)>>, FALSE)
<1>1. AnthropicToOpenAI(s, BlockStart(b, kind, b)) = IF kind = "tool" THEN Emit(t, f) ELSE s
  BY DEF AnthropicToOpenAI, BlockStart
<1>2. <<>> \in Seq(Content) /\ Tells(s, <<>>, s)
  BY TellsNothing
<1>3. t \in Converters /\ Tells(s, <<>>, t)
  <2>1. n \in Int
    <3>1. IsFiniteSet(SeenTools(s))
      BY StreamAssumption, FS_Subset DEF SeenTools
    <3> QED
      BY <3>1, FS_CardinalityType
  <2>2. t = IF s.toolIdx[b] # NotSeen THEN s ELSE u
    BY DEF Meet
  <2> HIDE DEF t, n
  <2>3. u \in Converters /\ u.parts = s.parts
    <3>1. [s.toolIdx EXCEPT ![b] = n] \in [CallIdx -> Int]
      BY <2>1 DEF Converters
    <3> QED
      BY <3>1 DEF Converters
  <2> HIDE DEF u
  <2>4. Tells(s, <<>>, u)
    BY <2>3, TellsNothing
  <2> QED
    BY <1>2, <2>2, <2>3, <2>4
<1> HIDE DEF t
<1>4. f \in Frame /\ ContentsOf(f) = <<>>
  <2>1. t.toolIdx[b] \in Int
    BY <1>3, IndexIs
  <2>2. <<CallAt(t.toolIdx[b], b, TRUE, 0)>> \in Seq(CallParts)
        /\ ContentsIn(0, <<CallAt(t.toolIdx[b], b, TRUE, 0)>>) = <<>>
    BY <2>1, SmallChunks
  <2> QED
    BY <2>2, FramesAre
<1> HIDE DEF f
<1>5. Tells(t, <<>>, Emit(t, f))
  BY <1>3, <1>4, EmitSilent
<1>6. Tells(s, <<>>, Emit(t, f))
  BY <1>2, <1>3, <1>5, TellsSilently
<1> QED
  BY <1>1, <1>2, <1>6

\* A delta tells its content.
LEMMA AnthropicToOpenAIDelta ==
  ASSUME NEW s \in Converters, NEW b \in CallIdx, NEW n \in Nat \ {0},
         NEW content \in {TextOf(n), ArgsOf(b, n)}
  PROVE  Tells(s, <<content>>, AnthropicToOpenAI(s, Delta(b, content)))
<1> DEFINE f == Chunk(FALSE, n, <<>>, FALSE)
           g == Chunk(FALSE, 0, <<CallAt(IndexOf(s, b), b, FALSE, n)>>, FALSE)
<1>1. CASE content = TextOf(n)
  <2>1. AnthropicToOpenAI(s, Delta(b, content)) = Emit(s, f)
    BY <1>1 DEF AnthropicToOpenAI, Delta, TextOf
  <2>2. f \in Frame /\ ContentsOf(f) = <<content>>
    BY <1>1, FramesAre, SmallChunks
  <2> HIDE DEF f
  <2> QED
    BY <2>1, <2>2, EmitTells
<1>2. CASE content = ArgsOf(b, n)
  <2>1. AnthropicToOpenAI(s, Delta(b, content)) = Emit(s, g)
    BY <1>2 DEF AnthropicToOpenAI, Delta, ArgsOf
  <2>2. IndexOf(s, b) \in Int
    BY IndexIs
  <2>3. <<CallAt(IndexOf(s, b), b, FALSE, n)>> \in Seq(CallParts)
        /\ ContentsIn(0, <<CallAt(IndexOf(s, b), b, FALSE, n)>>) = <<content>>
    BY <1>2, <2>2, SmallChunks
  <2>4. g \in Frame /\ ContentsOf(g) = <<content>>
    BY <2>3, FramesAre
  <2> HIDE DEF g
  <2> QED
    BY <2>1, <2>4, EmitTells
<1> QED
  BY <1>1, <1>2

\* Gemini's calls, under whatever index, with the same arguments.
LEMMA GeminiToOpenAIIs ==
  ASSUME NEW s \in Converters, NEW n \in Nat, NEW calls \in Seq(WholeCalls), NEW finish \in BOOLEAN
  PROVE  /\ ContentsIn(n, calls) \in Seq(Content)
         /\ Tells(s, ContentsIn(n, calls), GeminiToOpenAI(s, Candidate(n, calls, finish)))
<1> DEFINE parts == [i \in DOMAIN calls |-> CallAt(0, calls[i].call, TRUE, calls[i].args)]
           t == [s EXCEPT !.geminiFirstSent = TRUE]
           f == Chunk(~s.geminiFirstSent, n, parts, finish)
           u == Emit(t, f)
<1>1. /\ Len(calls) \in Nat /\ DOMAIN calls = 1..Len(calls)
      /\ \A i \in 1..Len(calls) : calls[i] \in WholeCalls
  OBVIOUS
<1>2. \A i \in DOMAIN calls : calls[i].call \in CallIdx /\ calls[i].args \in Nat
  BY <1>1 DEF WholeCalls
<1>3. ContentsIn(n, calls) \in Seq(Content)
  BY <1>1, <1>2, ContentsInIs
<1>4. parts \in Seq(CallParts)
  <2>1. \A i \in 1..Len(calls) : CallAt(0, calls[i].call, TRUE, calls[i].args) \in CallParts
    BY <1>1, <1>2 DEF CallAt, CallParts
  <2>2. DOMAIN parts = 1..Len(calls) /\ parts = [i \in 1..Len(calls) |-> parts[i]]
    BY <1>1
  <2>3. \A i \in 1..Len(calls) : parts[i] \in CallParts
    BY <1>1, <2>1
  <2> HIDE DEF parts
  <2> QED
    BY <1>1, <2>2, <2>3
<1>5. ContentsIn(n, parts) = ContentsIn(n, calls)
  <2>1. DOMAIN parts = DOMAIN calls
    OBVIOUS
  <2>2. \A i \in DOMAIN calls : parts[i].args = calls[i].args /\ parts[i].call = calls[i].call
    BY DEF CallAt
  <2> HIDE DEF parts
  <2>3. ArgsOfEach(parts) = ArgsOfEach(calls)
    BY <2>1, <2>2 DEF ArgsOfEach
  <2>4. ArgsIn(parts) = FlattenSeq(ArgsOfEach(parts)) /\ ArgsIn(calls) = FlattenSeq(ArgsOfEach(calls))
    BY DEF ArgsIn, ArgsOfEach
  <2> QED
    BY <2>3, <2>4 DEF ContentsIn
<1>6. GeminiToOpenAI(s, Candidate(n, calls, finish)) = IF finish THEN Emit(u, DoneFrame) ELSE u
  BY DEF GeminiToOpenAI, Candidate
<1> HIDE DEF parts
<1>7. t \in Converters /\ t.parts = s.parts /\ s.geminiFirstSent \in BOOLEAN
  BY DEF Converters
<1> HIDE DEF t
<1>8. f \in Frame /\ ContentsOf(f) = ContentsIn(n, calls)
  <2>1. ASSUME NEW role \in BOOLEAN
        PROVE  /\ Chunk(role, n, parts, finish) \in Frame
               /\ ContentsOf(Chunk(role, n, parts, finish)) = ContentsIn(n, parts)
    BY <1>4, FramesAre
  <2>2. (~s.geminiFirstSent) \in BOOLEAN
    OBVIOUS
  <2> QED
    BY <1>5, <2>1, <2>2
<1> HIDE DEF f
<1>9. Tells(s, <<>>, t)
  BY <1>7, TellsNothing
<1>10. u \in Converters /\ Tells(t, ContentsIn(n, calls), u)
  BY <1>7, <1>8, EmitIs
<1> HIDE DEF u
<1>11. Tells(s, ContentsIn(n, calls), u)
  BY <1>3, <1>7, <1>9, <1>10, TellsSilently
<1>12. Tells(u, <<>>, Emit(u, DoneFrame))
  BY <1>10, FramesAre, EmitSilent
<1>13. Tells(s, ContentsIn(n, calls), Emit(u, DoneFrame))
  BY <1>3, <1>10, <1>11, <1>12, TellsSilently
<1> QED
  BY <1>3, <1>6, <1>11, <1>13

----------------------------------------------------------------------------
(* The texts among contents.                                                 *)

TextOrNone(content) == IF content.kind = "text" THEN <<content>> ELSE <<>>
TextOfEach(cs) == [i \in DOMAIN cs |-> TextOrNone(cs[i])]

\* The texts among contents are those of each, put together.
LEMMA TextOfEachIs ==
  ASSUME NEW cs \in Seq(Content)
  PROVE  /\ TextOfEach(cs) \in Seq(Seq(Content)) /\ Len(TextOfEach(cs)) = Len(cs)
         /\ TextsIn(cs) = FlattenSeq(TextOfEach(cs)) /\ TextsIn(cs) \in Seq(Content)
<1>1. DOMAIN cs = 1..Len(cs) /\ Len(cs) \in Nat /\ \A i \in 1..Len(cs) : cs[i] \in Content
  OBVIOUS
<1>2. \A i \in 1..Len(cs) : TextOrNone(cs[i]) \in Seq(Content)
  BY <1>1 DEF TextOrNone
<1>3. TextOfEach(cs) \in Seq(Seq(Content)) /\ Len(TextOfEach(cs)) = Len(cs)
  BY <1>1, <1>2 DEF TextOfEach
<1>4. TextsIn(cs) = FlattenSeq(TextOfEach(cs))
  BY DEF TextsIn, TextOfEach, TextOrNone
<1> QED
  BY <1>3, <1>4, FlatType

\* The texts of two sequences of contents, one after the other.
LEMMA TextsConcat ==
  ASSUME NEW p \in Seq(Content), NEW q \in Seq(Content)
  PROVE  TextsIn(p \o q) = TextsIn(p) \o TextsIn(q)
<1>1. /\ p \o q \in Seq(Content) /\ Len(p \o q) = Len(p) + Len(q)
      /\ Len(p) \in Nat /\ Len(q) \in Nat
      /\ \A i \in 1..(Len(p) + Len(q)) : (p \o q)[i] = IF i <= Len(p) THEN p[i] ELSE q[i - Len(p)]
  BY ConcatProperties
<1>2. /\ TextOfEach(p) \in Seq(Seq(Content)) /\ Len(TextOfEach(p)) = Len(p)
      /\ TextOfEach(q) \in Seq(Seq(Content)) /\ Len(TextOfEach(q)) = Len(q)
      /\ TextOfEach(p \o q) \in Seq(Seq(Content)) /\ Len(TextOfEach(p \o q)) = Len(p) + Len(q)
  BY <1>1, TextOfEachIs
<1>3. \A i \in 1..Len(p) : TextOfEach(p)[i] = TextOrNone(p[i])
  BY DEF TextOfEach
<1>4. \A i \in 1..Len(q) : TextOfEach(q)[i] = TextOrNone(q[i])
  BY DEF TextOfEach
<1>5. \A i \in 1..(Len(p) + Len(q)) : TextOfEach(p \o q)[i] = TextOrNone((p \o q)[i])
  BY <1>1 DEF TextOfEach
<1>6. /\ TextOfEach(p) \o TextOfEach(q) \in Seq(Seq(Content))
      /\ Len(TextOfEach(p) \o TextOfEach(q)) = Len(p) + Len(q)
      /\ \A i \in 1..(Len(p) + Len(q)) :
           (TextOfEach(p) \o TextOfEach(q))[i] =
             IF i <= Len(p) THEN TextOfEach(p)[i] ELSE TextOfEach(q)[i - Len(p)]
  <2> DEFINE a == TextOfEach(p)
             b == TextOfEach(q)
             m == Len(p)
             n == Len(q)
  <2>1. a \in Seq(Seq(Content)) /\ b \in Seq(Seq(Content)) /\ Len(a) = m /\ Len(b) = n
    BY <1>2
  <2> HIDE DEF a, b, m, n
  <2>2. /\ a \o b \in Seq(Seq(Content)) /\ Len(a \o b) = m + n
        /\ \A i \in 1..(m + n) : (a \o b)[i] = IF i <= m THEN a[i] ELSE b[i - m]
    BY <2>1, ConcatIs
  <2> QED
    BY <2>2 DEF a, b, m, n
<1>7. ASSUME NEW i \in 1..(Len(p) + Len(q)) PROVE TextOfEach(p \o q)[i] = (TextOfEach(p) \o TextOfEach(q))[i]
  <2>1. CASE i <= Len(p)
    <3>1. i \in 1..Len(p)
      BY <1>1, <2>1
    <3> QED
      BY <1>1, <1>3, <1>5, <1>6, <2>1, <3>1
  <2>2. CASE ~ (i <= Len(p))
    <3>1. i - Len(p) \in 1..Len(q)
      BY <1>1, <2>2
    <3>2. TextOfEach(p \o q)[i] = TextOrNone(q[i - Len(p)])
      BY <1>1, <1>5, <2>2
    <3> QED
      BY <1>4, <1>6, <2>2, <3>1, <3>2
  <2> QED
    BY <2>1, <2>2
<1>8. TextOfEach(p \o q) = TextOfEach(p) \o TextOfEach(q)
  BY <1>2, <1>6, <1>7, SeqEqual
<1>9. FlattenSeq(TextOfEach(p) \o TextOfEach(q)) = FlattenSeq(TextOfEach(p)) \o FlattenSeq(TextOfEach(q))
  BY <1>2, FlatConcat
<1> QED
  BY <1>1, <1>8, <1>9, TextOfEachIs

\* There is no text in the arguments of calls.
LEMMA NoTextInArgs ==
  ASSUME NEW calls, Len(calls) \in Nat, DOMAIN calls = 1..Len(calls),
         \A i \in DOMAIN calls : calls[i].call \in CallIdx /\ calls[i].args \in Nat
  PROVE  TextsIn(ArgsIn(calls)) = <<>>
<1> DEFINE A == {c \in Content : c.kind = "args"}
           ss == ArgsOfEach(calls)
           as == ArgsIn(calls)
<1>1. \A i \in 1..Len(calls) : ss[i] \in Seq(A)
  <2> TAKE i \in 1..Len(calls)
  <2>1. ss[i] = IF calls[i].args = 0 THEN <<>> ELSE <<ArgsOf(calls[i].call, calls[i].args)>>
    BY DEF ArgsOfEach
  <2>2. ArgsOf(calls[i].call, calls[i].args) \in A
    BY DEF ArgsOf, Content
  <2> HIDE DEF ss, A
  <2> QED
    BY <2>1, <2>2
<1>2. ss \in Seq(Seq(A))
  <2>1. DOMAIN ss = 1..Len(calls) /\ ss = [i \in 1..Len(calls) |-> ss[i]]
    BY DEF ArgsOfEach
  <2> HIDE DEF ss, A
  <2> QED
    BY <1>1, <2>1
<1>3. as = FlattenSeq(ss)
  BY DEF ArgsIn, ArgsOfEach
<1>4. as \in Seq(Content)
  BY ArgsAreContents
<1> HIDE DEF ss, as
<1>5. as \in Seq(A)
  <2> HIDE DEF A
  <2> QED
    BY <1>2, <1>3, FlatType
<1>6. TextOfEach(as) \in Seq(Seq({}))
  <2>1. DOMAIN as = 1..Len(as) /\ Len(as) \in Nat /\ \A i \in 1..Len(as) : as[i] \in A
    <3>1. ASSUME NEW S, NEW e \in Seq(S)
          PROVE  DOMAIN e = 1..Len(e) /\ Len(e) \in Nat /\ \A i \in 1..Len(e) : e[i] \in S
      OBVIOUS
    <3> HIDE DEF A
    <3> QED
      BY <1>5, <3>1
  <2>2. \A i \in 1..Len(as) : TextOrNone(as[i]) = <<>>
    BY <2>1 DEF TextOrNone
  <2>3. TextOfEach(as) = [i \in 1..Len(as) |-> <<>>]
    BY <2>1, <2>2 DEF TextOfEach
  <2> HIDE DEF A
  <2> QED
    BY <2>1, <2>3
<1>7. FlattenSeq(TextOfEach(as)) \in Seq({})
  BY <1>6, FlatType
<1>8. \A e \in Seq({}) : e = <<>>
  OBVIOUS
<1>9. TextsIn(as) = FlattenSeq(TextOfEach(as))
  BY <1>4, TextOfEachIs
<1> QED
  BY <1>7, <1>8, <1>9 DEF as

\* Of a whole chunk a Gemini client is told the text.
LEMMA OpenAIToGeminiIs ==
  ASSUME NEW s \in Converters, NEW role \in BOOLEAN, NEW n \in Nat, NEW calls \in Seq(CallParts),
         NEW finish \in BOOLEAN
  PROVE  /\ ContentsIn(n, calls) \in Seq(Content)
         /\ Tells(s, TextsIn(ContentsIn(n, calls)), OpenAIToGemini(s, Chunk(role, n, calls, finish)))
<1> DEFINE words == IF n = 0 THEN <<>> ELSE <<TextOf(n)>>
<1>1. /\ Len(calls) \in Nat /\ DOMAIN calls = 1..Len(calls)
      /\ \A i \in 1..Len(calls) : calls[i] \in CallParts
  OBVIOUS
<1>2. \A i \in DOMAIN calls : calls[i].call \in CallIdx /\ calls[i].args \in Nat
  BY <1>1 DEF CallParts
<1>3. ContentsIn(n, calls) \in Seq(Content) /\ ArgsIn(calls) \in Seq(Content)
  BY <1>1, <1>2, ArgsAreContents, ContentsInIs
<1>4. words \in Seq(Content) /\ TextsIn(words) = words
  <2>1. TextOf(n) \in Content /\ TextOf(n).kind = "text"
    BY DEF TextOf, Content
  <2>2. words \in Seq(Content)
    BY <2>1
  <2>3. CASE n = 0
    <3>1. TextOfEach(words) = <<>>
      BY <2>3 DEF TextOfEach
    <3> QED
      BY <2>2, <2>3, <3>1, TextOfEachIs, FlatEmpty
  <2>4. CASE n # 0
    <3>1. TextOfEach(words) = <<words>>
      BY <2>1, <2>4 DEF TextOfEach, TextOrNone
    <3> HIDE DEF words
    <3> QED
      BY <2>2, <3>1, TextOfEachIs, FlatOne
  <2> QED
    BY <2>2, <2>3, <2>4
<1>5. ContentsIn(n, calls) = words \o ArgsIn(calls)
  BY DEF ContentsIn
<1>6. ContentsIn(n, <<>>) = words \o <<>>
  BY ArgsOfFew DEF ContentsIn
<1> HIDE DEF words
<1>7. TextsIn(ContentsIn(n, calls)) = words
  <2>1. TextsIn(ArgsIn(calls)) = <<>>
    BY <1>1, <1>2, NoTextInArgs
  <2>2. TextsIn(words \o ArgsIn(calls)) = TextsIn(words) \o TextsIn(ArgsIn(calls))
    BY <1>3, <1>4, TextsConcat
  <2> QED
    BY <1>4, <1>5, <2>1, <2>2, ConcatEmptySeq
<1>8. ContentsIn(n, <<>>) = words
  BY <1>4, <1>6, ConcatEmptySeq
<1>9. OpenAIToGemini(s, Chunk(role, n, calls, finish)) = Emit(s, Candidate(n, <<>>, finish))
  BY DEF OpenAIToGemini, Chunk
<1>10. Candidate(n, <<>>, finish) \in Frame /\ ContentsOf(Candidate(n, <<>>, finish)) = words
  <2>1. <<>> \in Seq(WholeCalls)
    OBVIOUS
  <2> QED
    BY <1>8, <2>1, FramesAre
<1> QED
  BY <1>3, <1>7, <1>9, <1>10, EmitTells

----------------------------------------------------------------------------
(* What upstreams send, and what the client is told of it.                   *)

\* The contents of cs that the client of a converted stream is told.
Heard(t, c, cs) == IF <<t, c>> = <<"openai", "gemini">> THEN TextsIn(cs) ELSE cs

\* The frames of a protocol, with what they carry.
Sent(t, frame, cs) ==
  \/ /\ t = "openai"
     /\ \/ frame = DoneFrame /\ cs = <<>>
        \/ \E role, finish \in BOOLEAN, n \in Nat, calls \in Seq(CallParts) :
             frame = Chunk(role, n, calls, finish) /\ cs = ContentsIn(n, calls)
  \/ /\ t = "anthropic"
     /\ \/ frame \in {MessageStart, MessageDelta, MessageStop} /\ cs = <<>>
        \/ \E b \in CallIdx, kind \in {"text", "tool"} :
             frame = BlockStart(b, kind, b) /\ cs = <<>>
        \/ \E b \in CallIdx, n \in Nat \ {0} : \E content \in {TextOf(n), ArgsOf(b, n)} :
             frame = Delta(b, content) /\ cs = <<content>>
        \/ \E b \in CallIdx : frame = BlockStop(b) /\ cs = <<>>
  \/ /\ t = "gemini"
     /\ \E finish \in BOOLEAN, n \in Nat, calls \in Seq(WholeCalls) :
          frame = Candidate(n, calls, finish) /\ cs = ContentsIn(n, calls)

\* Frames that are sent are frames, and carry what they are said to.
LEMMA SentIs ==
  ASSUME NEW t, NEW frame, NEW cs, Sent(t, frame, cs)
  PROVE  frame \in Frame /\ cs \in Seq(Content) /\ ContentsOf(frame) = cs
<1>1. frame \in Frame /\ ContentsOf(frame) = cs
  <2>1. CASE frame \in {MessageStart, MessageDelta, MessageStop, DoneFrame} /\ cs = <<>>
    BY <2>1, FramesAre
  <2>2. CASE \E role, finish \in BOOLEAN, n \in Nat, calls \in Seq(CallParts) :
               frame = Chunk(role, n, calls, finish) /\ cs = ContentsIn(n, calls)
    BY <2>2, FramesAre
  <2>3. CASE \E b \in CallIdx, kind \in {"text", "tool"} : frame = BlockStart(b, kind, b) /\ cs = <<>>
    BY <2>3, IndexIs, FramesAre
  <2>4. CASE \E b \in CallIdx, n \in Nat \ {0} : \E content \in {TextOf(n), ArgsOf(b, n)} :
               frame = Delta(b, content) /\ cs = <<content>>
    <3>1. PICK b \in CallIdx, n \in Nat \ {0} : \E content \in {TextOf(n), ArgsOf(b, n)} :
            frame = Delta(b, content) /\ cs = <<content>>
      BY <2>4
    <3>2. TextOf(n) \in Content /\ ArgsOf(b, n) \in Content
      BY DEF TextOf, ArgsOf, Content
    <3> QED
      BY <3>1, <3>2, IndexIs, FramesAre
  <2>5. CASE \E b \in CallIdx : frame = BlockStop(b) /\ cs = <<>>
    BY <2>5, IndexIs, FramesAre
  <2>6. CASE \E finish \in BOOLEAN, n \in Nat, calls \in Seq(WholeCalls) :
               frame = Candidate(n, calls, finish) /\ cs = ContentsIn(n, calls)
    BY <2>6, FramesAre
  <2> QED
    BY <2>1, <2>2, <2>3, <2>4, <2>5, <2>6 DEF Sent
<1> QED
  BY <1>1, FrameContents

\* Convert by cases.
LEMMA ConvertCases ==
  ASSUME NEW s, NEW frame
  PROVE  Convert(s, frame) =
           IF frame.type = "done"
           THEN IF <<target, client>> = <<"openai", "anthropic">> THEN s ELSE Emit(s, frame)
           ELSE IF <<target, client>> = <<"openai", "anthropic">> THEN OpenAIToAnthropic(s, frame)
           ELSE IF <<target, client>> = <<"anthropic", "openai">> THEN AnthropicToOpenAI(s, frame)
           ELSE IF <<target, client>> = <<"gemini", "openai">> THEN GeminiToOpenAI(s, frame)
           ELSE IF <<target, client>> = <<"openai", "gemini">> THEN OpenAIToGemini(s, frame)
           ELSE Emit(s, frame)
BY DEF Convert

\* Of every frame an upstream may send, the client is told what it carries.
LEMMA ConvertTells ==
  ASSUME NEW s \in Converters, NEW frame, NEW cs, Sent(target, frame, cs)
  PROVE  Tells(s, Heard(target, client, cs), Convert(s, frame))
<1>1. frame \in Frame /\ cs \in Seq(Content) /\ ContentsOf(frame) = cs
  BY SentIs
<1>2. TextsIn(<<>>) = <<>>
  <2>1. TextOfEach(<<>>) = <<>> /\ <<>> \in Seq(Content)
    BY DEF TextOfEach
  <2> QED
    BY <2>1, TextOfEachIs, FlatEmpty
<1>3. CASE frame.type = "done"
  <2>1. cs = <<>>
    BY <1>1, <1>3 DEF ContentsOf
  <2>2. Heard(target, client, cs) = <<>>
    BY <1>2, <2>1 DEF Heard
  <2>3. Convert(s, frame) \in {s, Emit(s, frame)}
    BY <1>3, ConvertCases
  <2>4. Tells(s, <<>>, s) /\ Tells(s, <<>>, Emit(s, frame))
    BY <1>1, <2>1, TellsNothing, EmitSilent
  <2> QED
    BY <2>2, <2>3, <2>4
<1>4. CASE frame.type # "done" /\ target = "openai" /\ client \in {"anthropic", "gemini"}
  <2>1. PICK role \in BOOLEAN, finish \in BOOLEAN, n \in Nat, calls \in Seq(CallParts) :
          frame = Chunk(role, n, calls, finish) /\ cs = ContentsIn(n, calls)
    BY <1>4 DEF Sent, DoneFrame
  <2>2. CASE client = "anthropic"
    <3>1. Convert(s, frame) = OpenAIToAnthropic(s, frame)
      BY <1>4, <2>2, ConvertCases
    <3>2. Heard(target, client, cs) = cs
      BY <2>2 DEF Heard
    <3> QED
      BY <2>1, <3>1, <3>2, OpenAIToAnthropicIs
  <2>3. CASE client = "gemini"
    <3>1. Convert(s, frame) = OpenAIToGemini(s, frame)
      BY <1>4, <2>3, ConvertCases
    <3>2. Heard(target, client, cs) = TextsIn(cs)
      BY <1>4, <2>3 DEF Heard
    <3> QED
      BY <2>1, <3>1, <3>2, OpenAIToGeminiIs
  <2> QED
    BY <1>4, <2>2, <2>3
<1>5. CASE frame.type # "done" /\ target = "anthropic" /\ client = "openai"
  <2>1. Convert(s, frame) = AnthropicToOpenAI(s, frame)
    BY <1>5, ConvertCases
  <2>2. Heard(target, client, cs) = cs
    BY <1>5 DEF Heard
  <2>3. Tells(s, cs, AnthropicToOpenAI(s, frame))
    <3>1. CASE frame \in {MessageStart, MessageDelta, MessageStop} /\ cs = <<>>
      BY <3>1, AnthropicToOpenAIEnvelope
    <3>2. CASE \E b \in CallIdx, kind \in {"text", "tool"} : frame = BlockStart(b, kind, b) /\ cs = <<>>
      BY <3>2, AnthropicToOpenAIStart
    <3>3. CASE \E b \in CallIdx, n \in Nat \ {0} : \E content \in {TextOf(n), ArgsOf(b, n)} :
                 frame = Delta(b, content) /\ cs = <<content>>
      BY <3>3, AnthropicToOpenAIDelta
    <3>4. CASE \E b \in CallIdx : frame = BlockStop(b) /\ cs = <<>>
      BY <3>4, AnthropicToOpenAIStop
    <3> QED
      BY <1>5, <3>1, <3>2, <3>3, <3>4 DEF Sent
  <2> QED
    BY <2>1, <2>2, <2>3
<1>6. CASE frame.type # "done" /\ target = "gemini" /\ client = "openai"
  <2>1. PICK finish \in BOOLEAN, n \in Nat, calls \in Seq(WholeCalls) :
          frame = Candidate(n, calls, finish) /\ cs = ContentsIn(n, calls)
    BY <1>6 DEF Sent
  <2>2. Convert(s, frame) = GeminiToOpenAI(s, frame)
    BY <1>6, ConvertCases
  <2>3. Heard(target, client, cs) = cs
    BY <1>6 DEF Heard
  <2> QED
    BY <2>1, <2>2, <2>3, GeminiToOpenAIIs
<1>7. CASE /\ frame.type # "done"
           /\ ~ (target = "openai" /\ client \in {"anthropic", "gemini"})
           /\ ~ (target = "anthropic" /\ client = "openai")
           /\ ~ (target = "gemini" /\ client = "openai")
  <2>1. Convert(s, frame) = Emit(s, frame)
    BY <1>7, ConvertCases
  <2>2. Heard(target, client, cs) = cs
    BY <1>7 DEF Heard
  <2> QED
    BY <1>1, <2>1, <2>2, EmitTells
<1> QED
  BY <1>3, <1>4, <1>5, <1>6, <1>7

----------------------------------------------------------------------------
(* The invariant of a stream.                                                *)

Upstreams ==
  [chunks : Nat, open : CallIdx \cup {NoContent}, next : Nat, kind : {"none", "text", "tool"},
   named : SUBSET CallIdx, stage : {"begin", "talk", "finished", "through"}]

Received == [by : Nat, frame : Frame]

StreamTyped ==
  /\ attempt \in Nat /\ upstream \in Upstreams
  /\ conv \in Converters /\ conv.parts = <<>>
  /\ said \in Seq(Content) /\ out \in Seq(Received)

\* All the client has got is of the RAPI being read; that is what decides whether
\* another is asked.
OwnAttempt == \A i \in DOMAIN out : out[i].by = attempt

StreamInv == StreamTyped /\ OwnAttempt /\ ContentInOrder

\* The frames of what was received.
FramesOf(o) == [i \in DOMAIN o |-> o[i].frame]
Stamped(p, n) == [i \in DOMAIN p |-> [by |-> n, frame |-> p[i]]]

\* Frames that are received of attempt n are added to those that were.
LEMMA StampedIs ==
  ASSUME NEW o \in Seq(Received), NEW p \in Seq(Frame), NEW n \in Nat
  PROVE  /\ FramesOf(o) \in Seq(Frame)
         /\ Stamped(p, n) \in Seq(Received) /\ o \o Stamped(p, n) \in Seq(Received)
         /\ FramesOf(o \o Stamped(p, n)) = FramesOf(o) \o p
         /\ (\A i \in DOMAIN o : o[i].by = n) =>
              \A i \in DOMAIN (o \o Stamped(p, n)) : (o \o Stamped(p, n))[i].by = n
<1> DEFINE q == Stamped(p, n)
<1>1. /\ DOMAIN o = 1..Len(o) /\ Len(o) \in Nat /\ \A i \in 1..Len(o) : o[i] \in Received
      /\ DOMAIN p = 1..Len(p) /\ Len(p) \in Nat /\ \A i \in 1..Len(p) : p[i] \in Frame
  OBVIOUS
<1>2. FramesOf(o) \in Seq(Frame) /\ Len(FramesOf(o)) = Len(o)
  <2>1. \A i \in 1..Len(o) : o[i].frame \in Frame
    BY <1>1 DEF Received
  <2> QED
    BY <1>1, <2>1 DEF FramesOf
<1>3. q \in Seq(Received) /\ Len(q) = Len(p)
  <2>1. \A i \in 1..Len(p) : [by |-> n, frame |-> p[i]] \in Received
    BY <1>1 DEF Received
  <2> QED
    BY <1>1, <2>1 DEF Stamped
<1>4. \A i \in 1..Len(p) : q[i].by = n /\ q[i].frame = p[i]
  BY <1>1 DEF Stamped
<1> HIDE DEF q
<1>5. /\ o \o q \in Seq(Received) /\ Len(o \o q) = Len(o) + Len(p)
      /\ DOMAIN (o \o q) = 1..(Len(o) + Len(p))
      /\ \A i \in 1..(Len(o) + Len(p)) : (o \o q)[i] = IF i <= Len(o) THEN o[i] ELSE q[i - Len(o)]
  <2> DEFINE m == Len(o)
             k == Len(p)
  <2>1. Len(o) = m /\ Len(q) = k
    BY <1>3
  <2> HIDE DEF m, k
  <2>2. /\ o \o q \in Seq(Received) /\ Len(o \o q) = m + k /\ DOMAIN (o \o q) = 1..(m + k)
        /\ \A i \in 1..(m + k) : (o \o q)[i] = IF i <= m THEN o[i] ELSE q[i - m]
    BY <1>3, <2>1, ConcatIs
  <2> QED
    BY <2>2 DEF m, k
<1>6. /\ FramesOf(o) \o p \in Seq(Frame) /\ Len(FramesOf(o) \o p) = Len(o) + Len(p)
      /\ \A i \in 1..(Len(o) + Len(p)) :
           (FramesOf(o) \o p)[i] = IF i <= Len(o) THEN FramesOf(o)[i] ELSE p[i - Len(o)]
  <2> DEFINE m == Len(o)
             k == Len(p)
             fo == FramesOf(o)
  <2>1. fo \in Seq(Frame) /\ Len(fo) = m /\ Len(p) = k
    BY <1>2
  <2> HIDE DEF m, k, fo
  <2>2. /\ fo \o p \in Seq(Frame) /\ Len(fo \o p) = m + k
        /\ \A i \in 1..(m + k) : (fo \o p)[i] = IF i <= m THEN fo[i] ELSE p[i - m]
    BY <2>1, ConcatIs
  <2> QED
    BY <2>2 DEF m, k, fo
<1>7. FramesOf(o \o q) \in Seq(Frame) /\ Len(FramesOf(o \o q)) = Len(o) + Len(p)
  <2>1. \A i \in 1..(Len(o) + Len(p)) : (o \o q)[i] \in Received
    BY <1>5
  <2>2. \A i \in 1..(Len(o) + Len(p)) : (o \o q)[i].frame \in Frame
    BY <2>1 DEF Received
  <2> QED
    BY <1>1, <1>5, <2>2 DEF FramesOf
<1>8. ASSUME NEW i \in 1..(Len(o) + Len(p))
      PROVE  /\ FramesOf(o \o q)[i] = (FramesOf(o) \o p)[i]
             /\ (\A j \in DOMAIN o : o[j].by = n) => (o \o q)[i].by = n
  <2>1. FramesOf(o \o q)[i] = (o \o q)[i].frame
    BY <1>5 DEF FramesOf
  <2>2. CASE i <= Len(o)
    <3>1. i \in 1..Len(o)
      BY <1>1, <2>2
    <3>2. FramesOf(o)[i] = o[i].frame
      BY <1>1, <3>1 DEF FramesOf
    <3> QED
      BY <1>1, <1>5, <1>6, <2>1, <2>2, <3>1, <3>2
  <2>3. CASE ~ (i <= Len(o))
    <3>1. i - Len(o) \in 1..Len(p)
      BY <1>1, <2>3
    <3> QED
      BY <1>4, <1>5, <1>6, <2>1, <2>3, <3>1
  <2> QED
    BY <2>2, <2>3
<1>9. FramesOf(o \o q) = FramesOf(o) \o p
  BY <1>6, <1>7, <1>8, SeqEqual
<1> QED
  BY <1>2, <1>3, <1>5, <1>8, <1>9 DEF q

\* What is heard of one sequence of contents and then of another.
LEMMA HeardConcat ==
  ASSUME NEW t, NEW c, NEW p \in Seq(Content), NEW q \in Seq(Content)
  PROVE  /\ Heard(t, c, p) \in Seq(Content)
         /\ Heard(t, c, p \o q) = Heard(t, c, p) \o Heard(t, c, q)
BY TextOfEachIs, TextsConcat DEF Heard

\* Of nothing, nothing is heard.
LEMMA HeardNothing ==
  ASSUME NEW t, NEW c
  PROVE  Heard(t, c, <<>>) = <<>> /\ Contents(<<>>) = <<>>
<1>1. <<>> \in Seq(Content) /\ <<>> \in Seq(Frame)
  OBVIOUS
<1>2. TextOfEach(<<>>) = <<>> /\ OfEach(<<>>) = <<>>
  BY DEF TextOfEach, OfEach
<1> QED
  BY <1>1, <1>2, TextOfEachIs, OfEachIs, FlatEmpty DEF Heard

\* None, one or two of a set of calls are a sequence of them.
LEMMA InOneChunkIs == ASSUME NEW S, NEW p \in InOneChunk(S) PROVE p \in Seq(S)
<1>1. CASE p = <<>>
  BY <1>1
<1>2. CASE \E x \in S : p = <<x>>
  BY <1>2
<1>3. CASE p \in S \X S
  <2>1. PICK x \in S, y \in S : p = <<x, y>>
    BY <1>3
  <2> QED
    BY <2>1
<1> QED
  BY <1>1, <1>2, <1>3 DEF InOneChunk

\* A frame that comes is converted, and the client has its contents.
LEMMA HearsStep ==
  ASSUME StreamInv, NEW frame, NEW cs, NEW u \in Upstreams, Sent(target, frame, cs),
         Hears(frame, cs, u)
  PROVE  StreamInv'
<1> DEFINE s == Convert(conv, frame)
           c == [s EXCEPT !.parts = <<>>]
           heard == Heard(target, client, cs)
<1>1. /\ attempt \in Nat /\ conv \in Converters /\ conv.parts = <<>>
      /\ said \in Seq(Content) /\ out \in Seq(Received)
      /\ \A i \in DOMAIN out : out[i].by = attempt
      /\ Contents(FramesOf(out)) = Heard(target, client, said)
  BY DEF StreamInv, StreamTyped, OwnAttempt, ContentInOrder, Frames, FramesOf, Heard
<1>2. cs \in Seq(Content)
  BY SentIs
<1>3. heard \in Seq(Content)
  BY <1>2, HeardConcat
<1>4. s \in Converters /\ Contents(s.parts) = Contents(conv.parts) \o heard
  BY <1>1, ConvertTells DEF Tells
<1>5. /\ conv' = c /\ upstream' = u /\ attempt' = attempt /\ target' = target /\ client' = client
      /\ said' = said \o cs /\ out' = out \o Stamped(s.parts, attempt)
  BY DEF Hears, Stamped
<1> HIDE DEF s, heard
<1>6. c \in Converters /\ c.parts = <<>> /\ s.parts \in Seq(Frame)
  <2>1. <<>> \in Seq(Frame)
    OBVIOUS
  <2> QED
    BY <1>4, <2>1 DEF Converters
<1> HIDE DEF c
<1>7. Contents(s.parts) = heard
  <2>1. Contents(conv.parts) = <<>>
    BY <1>1, HeardNothing
  <2> QED
    BY <1>3, <1>4, <2>1, ConcatEmptySeq
<1>8. /\ FramesOf(out) \in Seq(Frame) /\ out' \in Seq(Received)
      /\ FramesOf(out') = FramesOf(out) \o s.parts
      /\ \A i \in DOMAIN out' : out'[i].by = attempt
  <2> DEFINE p == s.parts
  <2>1. p \in Seq(Frame) /\ out' = out \o Stamped(p, attempt)
    BY <1>5, <1>6
  <2> HIDE DEF p
  <2>2. /\ FramesOf(out) \in Seq(Frame) /\ out \o Stamped(p, attempt) \in Seq(Received)
        /\ FramesOf(out \o Stamped(p, attempt)) = FramesOf(out) \o p
        /\ \A i \in DOMAIN (out \o Stamped(p, attempt)) : (out \o Stamped(p, attempt))[i].by = attempt
    BY <1>1, <2>1, StampedIs
  <2> QED
    BY <2>1, <2>2 DEF p
<1>9. Contents(FramesOf(out')) = Heard(target, client, said')
  <2>1. Contents(FramesOf(out')) = Contents(FramesOf(out)) \o Contents(s.parts)
    BY <1>6, <1>8, ContentsConcat
  <2>2. Heard(target, client, said') = Heard(target, client, said) \o heard
    BY <1>1, <1>2, <1>5, HeardConcat DEF heard
  <2> QED
    BY <1>1, <1>7, <2>1, <2>2
<1>10. StreamTyped'
  <2>1. said' \in Seq(Content)
    BY <1>1, <1>2, <1>5, ConcatProperties
  <2> QED
    BY <1>1, <1>5, <1>6, <1>8, <2>1 DEF StreamTyped
<1>11. OwnAttempt'
  BY <1>5, <1>8 DEF OwnAttempt
<1>12. ContentInOrder'
  <2>1. Frames' = FramesOf(out')
    BY DEF Frames, FramesOf
  <2>2. Contents(Frames') = Heard(target', client', said')
    BY <1>5, <1>9, <2>1
  <2> QED
    BY <2>2 DEF ContentInOrder, Heard
<1> QED
  BY <1>10, <1>11, <1>12 DEF StreamInv

\* Numbers of chunks are positive.
LEMMA OrdinalIs ==
  ASSUME StreamInv
  PROVE  upstream \in Upstreams /\ upstream.chunks \in Nat /\ Ordinal \in Nat \ {0}
BY DEF StreamInv, StreamTyped, Upstreams, Ordinal

\* The calls of a chunk are those of the protocol.
LEMMA CallsAre ==
  ASSUME StreamInv
  PROVE  /\ \A calls \in ToolCalls : /\ calls \in Seq(CallParts)
                                     /\ {calls[i].call : i \in DOMAIN calls} \subseteq CallIdx
         /\ \A calls \in FunctionCalls : /\ calls \in Seq(WholeCalls)
                                         /\ {calls[i].call : i \in DOMAIN calls} \subseteq CallIdx
<1>1. Ordinal \in Nat
  BY OrdinalIs
<1>2. ASSUME NEW S, NEW calls \in Seq(S), \A x \in S : x.call \in CallIdx
      PROVE  {calls[i].call : i \in DOMAIN calls} \subseteq CallIdx
  <2>1. \A i \in DOMAIN calls : calls[i] \in S
    OBVIOUS
  <2> QED
    BY <1>2, <2>1
<1>3. ASSUME NEW S, NEW T, S \subseteq T, NEW calls \in Seq(S) PROVE calls \in Seq(T)
  <2>1. DOMAIN calls = 1..Len(calls) /\ Len(calls) \in Nat /\ calls = [i \in 1..Len(calls) |-> calls[i]]
    OBVIOUS
  <2>2. \A i \in 1..Len(calls) : calls[i] \in T
    BY <1>3
  <2> QED
    BY <2>1, <2>2
<1>4. ASSUME NEW calls \in ToolCalls
      PROVE  /\ calls \in Seq(CallParts) /\ {calls[i].call : i \in DOMAIN calls} \subseteq CallIdx
  <2> DEFINE one == {CallAt(c, c, named, args) : c \in CallIdx, named \in BOOLEAN, args \in {0, Ordinal}}
             legal == {x \in one : (x.named \/ x.args # 0) /\ (x.named \/ x.call \in upstream.named)}
  <2>1. legal \subseteq CallParts
    <3>1. one \subseteq CallParts
      BY <1>1, IndexIs DEF CallAt, CallParts
    <3> HIDE DEF one
    <3> QED
      BY <3>1
  <2>2. calls \in InOneChunk(legal)
    BY DEF ToolCalls
  <2> HIDE DEF legal
  <2>3. calls \in Seq(CallParts)
    BY <1>3, <2>1, <2>2, InOneChunkIs
  <2>4. \A x \in CallParts : x.call \in CallIdx
    BY DEF CallParts
  <2> QED
    BY <1>2, <2>3, <2>4
<1>5. ASSUME NEW calls \in FunctionCalls
      PROVE  /\ calls \in Seq(WholeCalls) /\ {calls[i].call : i \in DOMAIN calls} \subseteq CallIdx
  <2> DEFINE fresh == [call : CallIdx \ upstream.named, args : {Ordinal}]
  <2>1. fresh \subseteq WholeCalls
    BY <1>1 DEF WholeCalls
  <2>2. calls \in InOneChunk(fresh)
    BY DEF FunctionCalls
  <2> HIDE DEF fresh
  <2>3. calls \in Seq(WholeCalls)
    BY <1>3, <2>1, <2>2, InOneChunkIs
  <2>4. \A x \in WholeCalls : x.call \in CallIdx
    BY DEF WholeCalls
  <2> QED
    BY <1>2, <2>3, <2>4
<1> QED
  BY <1>4, <1>5

\* A chunk of an OpenAI upstream.
LEMMA OpenAISendsStep == ASSUME StreamInv, OpenAISends PROVE StreamInv'
<1>1. PICK role \in Roles, finish \in BOOLEAN, text \in {0, Ordinal}, calls \in ToolCalls :
        Hears(Chunk(role, text, calls, finish), ContentsIn(text, calls),
              [upstream EXCEPT !.chunks = @ + 1,
                               !.stage = IF finish THEN "finished" ELSE "talk",
                               !.named = @ \cup {calls[i].call : i \in DOMAIN calls}])
  BY DEF OpenAISends
<1> DEFINE k == upstream.chunks + 1
           stage == IF finish THEN "finished" ELSE "talk"
           named == upstream.named \cup {calls[i].call : i \in DOMAIN calls}
           u == [upstream EXCEPT !.chunks = k, !.stage = stage, !.named = named]
<1>2. target = "openai" /\ role \in BOOLEAN /\ text \in Nat
  <2>1. \A r \in Roles : r \in BOOLEAN
    <3>1. CASE client = "anthropic"
      BY <3>1 DEF Roles
    <3>2. CASE client # "anthropic"
      <4>1. (upstream.chunks = 0) \in BOOLEAN
        OBVIOUS
      <4>2. \A r \in Roles : r = (upstream.chunks = 0)
        BY <3>2, Zenon DEF Roles
      <4> QED
        BY <4>1, <4>2, Zenon
    <3> QED
      BY <3>1, <3>2
  <2>2. target = "openai" /\ text \in Nat
    BY OrdinalIs DEF OpenAISends
  <2> QED
    BY <2>1, <2>2
<1>3. calls \in Seq(CallParts) /\ {calls[i].call : i \in DOMAIN calls} \subseteq CallIdx
  BY CallsAre
<1>4. k \in Nat /\ stage \in {"finished", "talk"} /\ named \in SUBSET CallIdx
  <2>1. upstream.named \in SUBSET CallIdx
    BY OrdinalIs DEF Upstreams
  <2> QED
    BY <1>3, <2>1, OrdinalIs
<1>5. Hears(Chunk(role, text, calls, finish), ContentsIn(text, calls), u)
  BY <1>1
<1> HIDE DEF k, stage, named
<1>6. u \in Upstreams
  BY <1>4, OrdinalIs DEF Upstreams
<1> HIDE DEF u
<1>7. Sent(target, Chunk(role, text, calls, finish), ContentsIn(text, calls))
  BY <1>2, <1>3 DEF Sent
<1> QED
  BY <1>5, <1>6, <1>7, HearsStep

\* Frames without contents: the end of an OpenAI stream, the envelope of Anthropic's.
LEMMA EnvelopeStep ==
  ASSUME StreamInv, OpenAIDone \/ AnthropicEnvelope
  PROVE  StreamInv'
<1>1. PICK frame \in Frame, stage \in {"talk", "finished", "through"} :
        /\ Sent(target, frame, <<>>)
        /\ Hears(frame, <<>>, [upstream EXCEPT !.stage = stage])
  <2>1. CASE OpenAIDone
    <3>1. Sent(target, DoneFrame, <<>>) /\ Hears(DoneFrame, <<>>, [upstream EXCEPT !.stage = "through"])
      BY <2>1 DEF OpenAIDone, Sent
    <3> QED
      BY <3>1, FramesAre
  <2>2. CASE AnthropicEnvelope
    <3>1. \A frame \in {MessageStart, MessageDelta, MessageStop} : Sent(target, frame, <<>>)
      BY <2>2 DEF AnthropicEnvelope, Sent
    <3>2. \/ Hears(MessageStart, <<>>, [upstream EXCEPT !.stage = "talk"])
          \/ Hears(MessageDelta, <<>>, [upstream EXCEPT !.stage = "finished"])
          \/ Hears(MessageStop, <<>>, [upstream EXCEPT !.stage = "through"])
      BY <2>2 DEF AnthropicEnvelope
    <3> QED
      BY <3>1, <3>2, FramesAre
  <2> QED
    BY <2>1, <2>2
<1>2. [upstream EXCEPT !.stage = stage] \in Upstreams
  BY OrdinalIs DEF Upstreams
<1> QED
  BY <1>1, <1>2, HearsStep

\* The start of a block of Anthropic's.
LEMMA AnthropicOpensStep == ASSUME StreamInv, AnthropicOpens PROVE StreamInv'
<1> DEFINE k == upstream.chunks + 1
<1>1. target = "anthropic" /\ upstream \in Upstreams /\ k \in Nat
  BY OrdinalIs DEF AnthropicOpens
<1>2. CASE /\ upstream.open = NoContent /\ upstream.next \in CallIdx
           /\ \E kind \in {"text", "tool"} :
                Hears(BlockStart(upstream.next, kind, upstream.next), <<>>,
                      [upstream EXCEPT !.chunks = @ + 1, !.kind = kind,
                                       !.open = upstream.next, !.next = @ + 1])
  <2>1. PICK kind \in {"text", "tool"} :
          Hears(BlockStart(upstream.next, kind, upstream.next), <<>>,
                [upstream EXCEPT !.chunks = @ + 1, !.kind = kind,
                                 !.open = upstream.next, !.next = @ + 1])
    BY <1>2
  <2> DEFINE n == upstream.next + 1
             u == [upstream EXCEPT !.chunks = k, !.kind = kind, !.open = upstream.next, !.next = n]
  <2>2. Hears(BlockStart(upstream.next, kind, upstream.next), <<>>, u)
    BY <2>1
  <2>3. n \in Nat
    BY <1>1 DEF Upstreams
  <2> HIDE DEF k, n
  <2>4. u \in Upstreams
    BY <1>1, <1>2, <2>3 DEF Upstreams
  <2> HIDE DEF u
  <2>5. Sent(target, BlockStart(upstream.next, kind, upstream.next), <<>>)
    BY <1>1, <1>2 DEF Sent
  <2> QED
    BY <2>2, <2>4, <2>5, HearsStep
<1>3. CASE /\ upstream.open # NoContent /\ upstream.kind = "tool"
           /\ Hears(BlockStart(upstream.open, "tool", upstream.open), <<>>,
                    [upstream EXCEPT !.chunks = @ + 1])
  <2> DEFINE u == [upstream EXCEPT !.chunks = k]
  <2>1. Hears(BlockStart(upstream.open, "tool", upstream.open), <<>>, u)
    BY <1>3
  <2> HIDE DEF k
  <2>2. u \in Upstreams
    BY <1>1 DEF Upstreams
  <2> HIDE DEF u
  <2>3. upstream.open \in CallIdx
    BY <1>1, <1>3 DEF Upstreams
  <2>4. Sent(target, BlockStart(upstream.open, "tool", upstream.open), <<>>)
    BY <1>1, <2>3 DEF Sent
  <2> QED
    BY <2>1, <2>2, <2>4, HearsStep
<1> QED
  BY <1>2, <1>3 DEF AnthropicOpens

\* A delta, or the end of a block.
LEMMA AnthropicSendsStep == ASSUME StreamInv, AnthropicSends PROVE StreamInv'
<1> DEFINE k == upstream.chunks + 1
           content == IF upstream.kind = "text" THEN TextOf(Ordinal) ELSE ArgsOf(upstream.open, Ordinal)
<1>1. /\ target = "anthropic" /\ upstream \in Upstreams /\ k \in Nat /\ Ordinal \in Nat \ {0}
      /\ upstream.open # NoContent
  BY OrdinalIs DEF AnthropicSends
<1>2. upstream.open \in CallIdx
  BY <1>1 DEF Upstreams
<1>3. CASE Hears(Delta(upstream.open, content), <<content>>, [upstream EXCEPT !.chunks = @ + 1])
  <2> DEFINE u == [upstream EXCEPT !.chunks = k]
  <2>1. Hears(Delta(upstream.open, content), <<content>>, u)
    BY <1>3
  <2>2. content \in {TextOf(Ordinal), ArgsOf(upstream.open, Ordinal)}
    OBVIOUS
  <2> HIDE DEF k, content
  <2>3. u \in Upstreams
    BY <1>1 DEF Upstreams
  <2> HIDE DEF u
  <2>4. Sent(target, Delta(upstream.open, content), <<content>>)
    BY <1>1, <1>2, <2>2 DEF Sent
  <2> QED
    BY <2>1, <2>3, <2>4, HearsStep
<1>4. CASE Hears(BlockStop(upstream.open), <<>>, [upstream EXCEPT !.open = NoContent])
  <2>1. [upstream EXCEPT !.open = NoContent] \in Upstreams
    BY <1>1 DEF Upstreams
  <2>2. Sent(target, BlockStop(upstream.open), <<>>)
    BY <1>1, <1>2 DEF Sent
  <2> QED
    BY <1>4, <2>1, <2>2, HearsStep
<1> QED
  BY <1>3, <1>4 DEF AnthropicSends

\* A chunk of a Gemini upstream.
LEMMA GeminiSendsStep == ASSUME StreamInv, GeminiSends PROVE StreamInv'
<1>1. PICK text \in {0, Ordinal}, calls \in FunctionCalls, finish \in BOOLEAN :
        Hears(Candidate(text, calls, finish), ContentsIn(text, calls),
              [upstream EXCEPT !.chunks = @ + 1,
                               !.named = @ \cup {calls[i].call : i \in DOMAIN calls},
                               !.stage = IF finish THEN "through" ELSE "talk"])
  BY DEF GeminiSends
<1> DEFINE k == upstream.chunks + 1
           stage == IF finish THEN "through" ELSE "talk"
           named == upstream.named \cup {calls[i].call : i \in DOMAIN calls}
           u == [upstream EXCEPT !.chunks = k, !.named = named, !.stage = stage]
<1>2. target = "gemini" /\ text \in Nat
  BY OrdinalIs DEF GeminiSends
<1>3. calls \in Seq(WholeCalls) /\ {calls[i].call : i \in DOMAIN calls} \subseteq CallIdx
  BY CallsAre
<1>4. k \in Nat /\ stage \in {"through", "talk"} /\ named \in SUBSET CallIdx
  <2>1. upstream.named \in SUBSET CallIdx
    BY OrdinalIs DEF Upstreams
  <2> QED
    BY <1>3, <2>1, OrdinalIs
<1>5. Hears(Candidate(text, calls, finish), ContentsIn(text, calls), u)
  BY <1>1
<1> HIDE DEF k, stage, named
<1>6. u \in Upstreams
  BY <1>4, OrdinalIs DEF Upstreams
<1> HIDE DEF u
<1>7. Sent(target, Candidate(text, calls, finish), ContentsIn(text, calls))
  BY <1>2, <1>3 DEF Sent
<1> QED
  BY <1>5, <1>6, <1>7, HearsStep

\* What a stream begins with.
LEMMA NewIs == NewConverter \in Converters /\ NewConverter.parts = <<>> /\ NewUpstream \in Upstreams
<1>1. [c \in CallIdx |-> NotSeen] \in [CallIdx -> Int]
  BY IndexIs
<1>2. <<>> \in Seq(Frame)
  OBVIOUS
<1> QED
  BY <1>1, <1>2 DEF NewConverter, NewUpstream, Converters, Upstreams

\* A request begins with nothing received and nothing said.
LEMMA StreamInitially == StreamInit => StreamInv
<1> SUFFICES ASSUME StreamInit PROVE StreamInv
  OBVIOUS
<1>1. out = <<>> /\ said = <<>> /\ attempt = 1 /\ upstream = NewUpstream /\ conv = NewConverter
  BY DEF StreamInit
<1>2. Frames = <<>>
  BY <1>1 DEF Frames
<1>3. TextsIn(<<>>) = <<>> /\ Contents(<<>>) = <<>>
  BY HeardNothing DEF Heard
<1>4. ContentInOrder
  BY <1>1, <1>2, <1>3 DEF ContentInOrder
<1> QED
  BY <1>1, <1>4, NewIs DEF StreamInv, StreamTyped, OwnAttempt

\* The end of a stream: what is not committed has sent nothing.
LEMMA StreamEndsStep == ASSUME StreamInv, StreamEnds PROVE StreamInv'
<1>1. /\ attempt \in Nat /\ upstream \in Upstreams /\ conv \in Converters /\ conv.parts = <<>>
      /\ said \in Seq(Content) /\ out \in Seq(Received)
      /\ \A i \in DOMAIN out : out[i].by = attempt
  BY DEF StreamInv, StreamTyped, OwnAttempt
<1>2. ~Committed => out = <<>>
  BY <1>1 DEF Committed
<1>3. CASE /\ attempt' \in Nat /\ out' = <<>> /\ said' = <<>>
           /\ upstream' = NewUpstream /\ conv' = NewConverter
  <2>1. Frames' = <<>>
    BY <1>3 DEF Frames
  <2>2. TextsIn(<<>>) = <<>> /\ Contents(<<>>) = <<>>
    BY HeardNothing DEF Heard
  <2>3. ContentInOrder'
    BY <1>3, <2>1, <2>2 DEF ContentInOrder
  <2> QED
    BY <1>3, <2>3, NewIs DEF StreamInv, StreamTyped, OwnAttempt
<1>4. CASE /\ ~Committed /\ attempt' = 0
           /\ out' = Append(out, [by |-> 0, frame |-> ErrorFrame])
           /\ UNCHANGED <<client, target, upstream, said, conv>>
  <2>1. out = <<>> /\ out' = <<[by |-> 0, frame |-> ErrorFrame]>>
    BY <1>2, <1>4
  <2>2. ErrorFrame \in Frame /\ ContentsOf(ErrorFrame) = <<>>
    BY FramesAre
  <2>3. [by |-> 0, frame |-> ErrorFrame] \in Received
    BY <2>2 DEF Received
  <2>4. out' \in Seq(Received) /\ \A i \in DOMAIN out' : out'[i].by = 0
    BY <2>1, <2>3
  <2>5. Frames = <<>> /\ Frames' = <<ErrorFrame>>
    BY <2>1 DEF Frames
  <2>6. Contents(<<>>) = <<>> /\ Contents(<<ErrorFrame>>) = <<>>
    <3>1. <<>> \in Seq(Frame) /\ Append(<<>>, ErrorFrame) = <<ErrorFrame>>
      OBVIOUS
    <3>2. Contents(<<ErrorFrame>>) = Contents(<<>>) \o ContentsOf(ErrorFrame)
      BY <2>2, <3>1, ContentsAppend
    <3> QED
      BY <2>2, <3>2, HeardNothing
  <2>7. ContentInOrder'
    <3>1. Contents(Frames) = Contents(Frames')
      BY <2>5, <2>6
    <3>2. ContentInOrder
      BY DEF StreamInv
    <3> QED
      BY <1>4, <3>1, <3>2 DEF ContentInOrder
  <2> QED
    BY <1>1, <1>4, <2>4, <2>7 DEF StreamInv, StreamTyped, OwnAttempt
<1>5. \/ /\ attempt' \in Nat /\ out' = <<>> /\ said' = <<>>
         /\ upstream' = NewUpstream /\ conv' = NewConverter
      \/ /\ ~Committed /\ attempt' = 0
         /\ out' = Append(out, [by |-> 0, frame |-> ErrorFrame])
         /\ UNCHANGED <<client, target, upstream, said, conv>>
  BY <1>1, <1>2 DEF StreamEnds
<1> QED
  BY <1>3, <1>4, <1>5

\* Every step of a stream keeps the invariant.
LEMMA StreamStep == StreamInv /\ [StreamNext]_streamVars => StreamInv'
<1> SUFFICES ASSUME StreamInv, [StreamNext]_streamVars PROVE StreamInv'
  OBVIOUS
<1>1. CASE OpenAISends
  BY <1>1, OpenAISendsStep
<1>2. CASE OpenAIDone \/ AnthropicEnvelope
  BY <1>2, EnvelopeStep
<1>3. CASE AnthropicOpens
  BY <1>3, AnthropicOpensStep
<1>4. CASE AnthropicSends
  BY <1>4, AnthropicSendsStep
<1>5. CASE GeminiSends
  BY <1>5, GeminiSendsStep
<1>6. CASE StreamEnds
  BY <1>6, StreamEndsStep
<1>7. CASE UNCHANGED streamVars
  BY <1>7 DEF streamVars, StreamInv, StreamTyped, OwnAttempt, ContentInOrder, Frames
<1> QED
  BY <1>1, <1>2, <1>3, <1>4, <1>5, <1>6, <1>7 DEF StreamNext

\* The inductive invariant holds of every stream.
THEOREM StreamInvariant == StreamSpec => []StreamInv
BY StreamInitially, StreamStep, PTL DEF StreamSpec

\* The client never gets frames of two upstreams, nor an error behind a part of
\* an answer: another RAPI is asked only while nothing was written.
THEOREM OneUpstreamOnly == StreamSpec => []OneUpstream
<1>1. StreamInv => OneUpstream
  BY DEF StreamInv, OwnAttempt, OneUpstream
<1> QED
  BY <1>1, StreamInvariant, PTL

\* Every text and every fragment of arguments reaches the client, once and in
\* order, however upstreams fill their chunks.
THEOREM ContentsReach == StreamSpec => []ContentInOrder
<1>1. StreamInv => ContentInOrder
  BY DEF StreamInv
<1> QED
  BY <1>1, StreamInvariant, PTL

----------------------------------------------------------------------------
(* The blocks of an Anthropic message, as the frames tell of them.           *)

BlockFrames == {"block_start", "block_stop"}

\* A content of frame f goes into the block that b has started.
Fits(b, f) ==
  /\ b.index = f.index
  /\ b.kind = "text" <=> f.content.kind = "text"
  /\ b.kind = "tool" => b.call = f.content.call

\* Between frames j and n nothing has closed the block that b starts at j, or
\* opened another of its index.
LiveAfter(h, b, j, n) ==
  /\ h[j] = b
  /\ \A k \in (j + 1)..n : h[k].type \in BlockFrames => h[k].index # b.index \/ h[k] = b

Lives(h, b) == \E j \in 1..Len(h) : LiveAfter(h, b, j, Len(h))

OpenedIn(h, i) ==
  \E j \in 1..(i - 1) :
    h[j].type = "block_start" /\ Fits(h[j], h[i]) /\ LiveAfter(h, h[j], j, i - 1)

AllOpened(h) == \A i \in 1..Len(h) : h[i].type = "block_delta" => OpenedIn(h, i)

\* Every content is in its block, and the blocks of `live` may take more.
Opens(h, live) ==
  /\ AllOpened(h)
  /\ \A b \in live : b.type = "block_start" /\ Lives(h, b)

\* A sequence with one element more.
LEMMA AppendIs ==
  ASSUME NEW S, NEW h \in Seq(S), NEW f \in S, NEW n, Len(h) = n
  PROVE  /\ n \in Nat /\ Append(h, f) \in Seq(S) /\ Len(Append(h, f)) = n + 1
         /\ \A i \in 1..n : Append(h, f)[i] = h[i] /\ i \in 1..(n + 1)
         /\ Append(h, f)[n + 1] = f
OBVIOUS

\* What is live stays so but for a frame of its index.
LEMMA LiveAppend ==
  ASSUME NEW h \in Seq(Frame), NEW f \in Frame, NEW b, Lives(h, b),
         f.type \in BlockFrames => f.index # b.index \/ f = b
  PROVE  Lives(Append(h, f), b)
<1> DEFINE n == Len(h)
           g == Append(h, f)
<1>1. /\ n \in Nat /\ Len(g) = n + 1 /\ g[n + 1] = f
      /\ \A i \in 1..n : g[i] = h[i] /\ i \in 1..(n + 1)
  BY AppendIs
<1>2. PICK j \in 1..n : LiveAfter(h, b, j, n)
  BY DEF Lives
<1> HIDE DEF n, g
<1>3. LiveAfter(g, b, j, n + 1)
  <2>1. g[j] = b
    BY <1>1, <1>2 DEF LiveAfter
  <2>2. ASSUME NEW k \in (j + 1)..(n + 1), g[k].type \in BlockFrames
        PROVE  g[k].index # b.index \/ g[k] = b
    <3>1. CASE k = n + 1
      BY <1>1, <2>2, <3>1
    <3>2. CASE k # n + 1
      <4>1. k \in (j + 1)..n /\ k \in 1..n
        BY <1>1, <2>2, <3>2
      <4> QED
        BY <1>1, <1>2, <2>2, <4>1 DEF LiveAfter
    <3> QED
      BY <3>1, <3>2
  <2> QED
    BY <2>1, <2>2 DEF LiveAfter
<1> QED
  BY <1>1, <1>3 DEF Lives, g, n

\* A block that has just been started is live.
LEMMA LiveNow == ASSUME NEW h \in Seq(Frame), NEW f \in Frame PROVE Lives(Append(h, f), f)
<1> DEFINE n == Len(h)
           g == Append(h, f)
<1>1. n \in Nat /\ Len(g) = n + 1 /\ g[n + 1] = f
  BY AppendIs
<1> HIDE DEF n, g
<1>2. LiveAfter(g, f, n + 1, n + 1)
  BY <1>1 DEF LiveAfter
<1>3. n + 1 \in 1..(n + 1)
  BY <1>1
<1> QED
  BY <1>1, <1>2, <1>3 DEF Lives, g

\* What is live after frame f was so before, and is not touched, or is started by it.
Survives(live, f, new) ==
  \A b \in new :
    \/ b = f /\ f.type = "block_start"
    \/ b \in live /\ (f.type \in BlockFrames => f.index # b.index \/ f = b)

\* One frame more: a content goes into a live block.
LEMMA OpensAppend ==
  ASSUME NEW h \in Seq(Frame), NEW f \in Frame, NEW live, NEW new, Opens(h, live),
         Survives(live, f, new), f.type = "block_delta" => \E b \in live : Fits(b, f)
  PROVE  Opens(Append(h, f), new)
<1> DEFINE n == Len(h)
           g == Append(h, f)
<1>1. /\ n \in Nat /\ Len(g) = n + 1 /\ g[n + 1] = f
      /\ \A i \in 1..n : g[i] = h[i] /\ i \in 1..(n + 1)
  BY AppendIs
<1>2. ASSUME NEW b \in new PROVE b.type = "block_start" /\ Lives(g, b)
  <2>1. CASE b = f /\ f.type = "block_start"
    BY <2>1, LiveNow
  <2>2. CASE b \in live /\ (f.type \in BlockFrames => f.index # b.index \/ f = b)
    BY <2>2, LiveAppend DEF Opens
  <2> QED
    BY <1>2, <2>1, <2>2 DEF Survives
<1>3. ASSUME NEW i \in 1..n, h[i].type = "block_delta" PROVE OpenedIn(g, i)
  <2>1. PICK j \in 1..(i - 1) :
          h[j].type = "block_start" /\ Fits(h[j], h[i]) /\ LiveAfter(h, h[j], j, i - 1)
    BY <1>3 DEF Opens, AllOpened, OpenedIn
  <2> HIDE DEF g, n
  <2>2. \A k \in 1..i : g[k] = h[k]
    BY <1>1, <1>3
  <2>3. j \in 1..i /\ i \in 1..i /\ \A k \in (j + 1)..(i - 1) : k \in 1..i
    BY <1>1, <1>3, <2>1
  <2>4. g[j] = h[j] /\ g[i] = h[i] /\ \A k \in (j + 1)..(i - 1) : g[k] = h[k]
    BY <2>2, <2>3
  <2>5. LiveAfter(g, g[j], j, i - 1)
    BY <2>1, <2>4 DEF LiveAfter
  <2> QED
    BY <2>1, <2>4, <2>5 DEF OpenedIn
<1>4. ASSUME f.type = "block_delta" PROVE OpenedIn(g, n + 1)
  <2>1. PICK b \in live : Fits(b, f)
    BY <1>4
  <2>2. PICK j \in 1..n : b.type = "block_start" /\ LiveAfter(h, b, j, n)
    BY DEF Opens, Lives
  <2> HIDE DEF g, n
  <2>3. \A k \in j..n : g[k] = h[k]
    BY <1>1, <2>2
  <2>4. j \in j..n /\ (n + 1) - 1 = n /\ \A k \in (j + 1)..n : k \in j..n
    BY <1>1, <2>2
  <2>5. g[j] = b /\ LiveAfter(g, g[j], j, n)
    BY <2>2, <2>3, <2>4 DEF LiveAfter
  <2>6. j \in 1..((n + 1) - 1)
    BY <2>2, <2>4
  <2> QED
    BY <1>1, <2>1, <2>2, <2>4, <2>5, <2>6 DEF OpenedIn
<1>5. AllOpened(g)
  <2>1. ASSUME NEW i \in 1..(n + 1), g[i].type = "block_delta" PROVE OpenedIn(g, i)
    <3>1. i = n + 1 \/ i \in 1..n
      BY <1>1, <2>1
    <3>2. CASE i = n + 1
      BY <1>1, <1>4, <2>1, <3>2
    <3>3. CASE i \in 1..n
      BY <1>1, <1>3, <2>1, <3>3
    <3> QED
      BY <3>1, <3>2, <3>3
  <2> QED
    BY <1>1, <2>1 DEF AllOpened
<1> QED
  BY <1>2, <1>5 DEF Opens

\* A frame that is of no block.
LEMMA OpensSilent ==
  ASSUME NEW h \in Seq(Frame), NEW f \in Frame, NEW live, Opens(h, live),
         f.type \notin BlockFrames, f.type # "block_delta"
  PROVE  Opens(Append(h, f), live)
<1>1. Survives(live, f, live)
  BY DEF Survives
<1> QED
  BY <1>1, OpensAppend

\* Fewer blocks need less.
LEMMA OpensFewer ==
  ASSUME NEW h, NEW live, NEW new, Opens(h, live), new \subseteq live
  PROVE  Opens(h, new)
BY DEF Opens

----------------------------------------------------------------------------
(* The stops of blocks.                                                      *)

Stops(h, b) == {j \in 1..Len(h) : h[j].type = "block_stop" /\ h[j].index = b}

StoppedOnce(h, i) == \E j \in Stops(h, h[i].index) : j > i /\ Stops(h, h[i].index) = {j}

\* Blocks have indices below `top`; those of `open` are still to be closed and
\* each other was closed once.
Balanced(h, open, top) ==
  /\ \A i \in 1..Len(h) : h[i].type = "block_start" =>
       h[i].index < top /\ (h[i].index \notin open => StoppedOnce(h, i))
  /\ \A i \in 1..Len(h) : h[i].type = "block_stop" => h[i].index < top /\ h[i].index \notin open
  /\ \A b \in open : b < top

\* The stops of an index after one frame more.
LEMMA StopsAppend ==
  ASSUME NEW h \in Seq(Frame), NEW f \in Frame, NEW b
  PROVE  Stops(Append(h, f), b) =
           Stops(h, b) \cup {j \in {Len(h) + 1} : f.type = "block_stop" /\ f.index = b}
<1> DEFINE n == Len(h)
           g == Append(h, f)
<1>1. /\ n \in Nat /\ Len(g) = n + 1 /\ g[n + 1] = f
      /\ \A i \in 1..n : g[i] = h[i] /\ i \in 1..(n + 1)
  BY AppendIs
<1> HIDE DEF n, g
<1>2. \A j \in 1..(n + 1) : j = n + 1 \/ j \in 1..n
  BY <1>1
<1>3. n + 1 \in 1..(n + 1)
  BY <1>1
<1>4. Stops(g, b) = Stops(h, b) \cup {j \in {n + 1} : f.type = "block_stop" /\ f.index = b}
  BY <1>1, <1>2, <1>3 DEF Stops, n
<1> QED
  BY <1>4 DEF g, n

\* A block that was stopped once, and a frame that stops another, or none.
LEMMA StoppedStays ==
  ASSUME NEW h \in Seq(Frame), NEW f \in Frame, NEW i \in 1..Len(h), StoppedOnce(h, i),
         f.type = "block_stop" => f.index # h[i].index
  PROVE  StoppedOnce(Append(h, f), i)
<1>1. Stops(Append(h, f), h[i].index) = Stops(h, h[i].index)
  <2> DEFINE b == h[i].index
  <2>1. ~ (f.type = "block_stop" /\ f.index = b)
    OBVIOUS
  <2> HIDE DEF b
  <2>2. Stops(Append(h, f), b) =
          Stops(h, b) \cup {j \in {Len(h) + 1} : f.type = "block_stop" /\ f.index = b}
    BY StopsAppend
  <2>3. Stops(Append(h, f), b) = Stops(h, b)
    BY <2>1, <2>2
  <2> QED
    BY <2>3 DEF b
<1>2. Append(h, f)[i] = h[i]
  BY AppendIs
<1> QED
  BY <1>1, <1>2 DEF StoppedOnce

\* A frame that neither starts nor stops a block.
LEMMA BalancedSilent ==
  ASSUME NEW h \in Seq(Frame), NEW f \in Frame, NEW open, NEW top, Balanced(h, open, top),
         f.type \notin BlockFrames
  PROVE  Balanced(Append(h, f), open, top)
<1> DEFINE n == Len(h)
           g == Append(h, f)
<1>1. /\ n \in Nat /\ Len(g) = n + 1 /\ g[n + 1] = f
      /\ \A i \in 1..n : g[i] = h[i] /\ i \in 1..(n + 1)
  BY AppendIs
<1>2. \A i \in 1..n : StoppedOnce(h, i) => StoppedOnce(g, i)
  BY StoppedStays DEF BlockFrames
<1> HIDE DEF n, g
<1>3. \A j \in 1..(n + 1) : j = n + 1 \/ j \in 1..n
  BY <1>1
<1> QED
  BY <1>1, <1>2, <1>3 DEF Balanced, BlockFrames, n, g

\* A block is opened at the top, or once more.
LEMMA BalancedStart ==
  ASSUME NEW h \in Seq(Frame), NEW f \in Frame, NEW open, NEW top \in Int, Balanced(h, open, top),
         f.type = "block_start", f.index \in Int,
         \A i \in 1..Len(h) : h[i].type \in BlockFrames => h[i].index \in Int
  PROVE  /\ f.index = top /\ open \subseteq Int => Balanced(Append(h, f), open \cup {top}, top + 1)
         /\ f.index \in open => Balanced(Append(h, f), open, top)
<1> DEFINE n == Len(h)
           g == Append(h, f)
<1>1. /\ n \in Nat /\ Len(g) = n + 1 /\ g[n + 1] = f
      /\ \A i \in 1..n : g[i] = h[i] /\ i \in 1..(n + 1)
  BY AppendIs
<1>2. \A i \in 1..n : StoppedOnce(h, i) => StoppedOnce(g, i)
  BY StoppedStays
<1> HIDE DEF n, g
<1>3. \A j \in 1..(n + 1) : j = n + 1 \/ j \in 1..n
  BY <1>1
<1>4. ASSUME f.index \in open PROVE Balanced(g, open, top)
  BY <1>1, <1>2, <1>3, <1>4 DEF Balanced, n
<1>5. ASSUME f.index = top, open \subseteq Int PROVE Balanced(g, open \cup {top}, top + 1)
  <2> DEFINE more == open \cup {top}
  <2>2. \A x \in Int : x < top => x < top + 1 /\ x # top
    OBVIOUS
  <2>1. \A b \in more : b < top + 1
    <3>1. \A b \in open : b \in Int /\ b < top
      BY <1>5 DEF Balanced
    <3> QED
      BY <2>2, <3>1
  <2>3. top < top + 1 /\ top \in more /\ \A x : x \notin more => x \notin open
    OBVIOUS
  <2>4. \A x : x \in more => x \in open \/ x = top
    OBVIOUS
  <2> HIDE DEF more
  <2>5. ASSUME NEW i \in 1..(n + 1), g[i].type = "block_start"
        PROVE  g[i].index < top + 1 /\ (g[i].index \notin more => StoppedOnce(g, i))
    <3>1. CASE i = n + 1
      BY <1>1, <1>5, <2>3, <3>1
    <3>2. CASE i \in 1..n
      BY <1>1, <1>2, <2>2, <2>3, <2>5, <3>2 DEF Balanced, BlockFrames, n
    <3> QED
      BY <1>3, <3>1, <3>2
  <2>6. ASSUME NEW i \in 1..(n + 1), g[i].type = "block_stop"
        PROVE  g[i].index < top + 1 /\ g[i].index \notin more
    <3>1. i \in 1..n /\ h[i].type = "block_stop" /\ g[i] = h[i]
      BY <1>1, <1>3, <2>6
    <3>2. h[i].index < top /\ h[i].index \notin open /\ h[i].index \in Int
      BY <3>1 DEF Balanced, BlockFrames, n
    <3> QED
      BY <2>2, <2>4, <3>1, <3>2
  <2> QED
    BY <1>1, <2>1, <2>5, <2>6 DEF Balanced, more
<1> QED
  BY <1>4, <1>5 DEF g

\* An open block is closed.
LEMMA BalancedStop ==
  ASSUME NEW h \in Seq(Frame), NEW f \in Frame, NEW open, NEW top, Balanced(h, open, top),
         f.type = "block_stop", f.index \in open
  PROVE  Balanced(Append(h, f), open \ {f.index}, top)
<1> DEFINE n == Len(h)
           g == Append(h, f)
           b == f.index
           less == open \ {b}
<1>1. /\ n \in Nat /\ Len(g) = n + 1 /\ g[n + 1] = f
      /\ \A i \in 1..n : g[i] = h[i] /\ i \in 1..(n + 1)
  BY AppendIs
<1>2. \A i \in 1..n : StoppedOnce(h, i) /\ h[i].index # b => StoppedOnce(g, i)
  BY StoppedStays
<1>3. Stops(g, b) = {n + 1}
  <2>1. Stops(h, b) = {}
    BY DEF Stops, Balanced
  <2> QED
    BY <2>1, StopsAppend
<1>4. \A x : (x \in less <=> x \in open /\ x # b)
  OBVIOUS
<1>5. b < top
  BY DEF Balanced
<1> HIDE DEF n, g, b, less
<1>6. \A j \in 1..(n + 1) : j = n + 1 \/ (j \in 1..n /\ n + 1 > j)
  <2>1. n \in Nat
    BY <1>1
  <2> QED
    BY <2>1
<1>7. ASSUME NEW i \in 1..(n + 1), g[i].type = "block_start"
      PROVE  g[i].index < top /\ (g[i].index \notin less => StoppedOnce(g, i))
  <2>1. i \in 1..n /\ g[i] = h[i] /\ n + 1 > i
    BY <1>1, <1>6, <1>7
  <2>2. h[i].index < top /\ (h[i].index \notin open => StoppedOnce(h, i))
    BY <1>7, <2>1 DEF Balanced, n
  <2>3. h[i].index = b => StoppedOnce(g, i)
    BY <1>3, <2>1 DEF StoppedOnce
  <2> QED
    BY <1>2, <1>4, <2>1, <2>2, <2>3
<1>8. ASSUME NEW i \in 1..(n + 1), g[i].type = "block_stop"
      PROVE  g[i].index < top /\ g[i].index \notin less
  BY <1>1, <1>4, <1>5, <1>6, <1>8 DEF Balanced, n, b
<1>9. \A x \in less : x < top
  BY <1>4 DEF Balanced
<1> QED
  BY <1>1, <1>7, <1>8, <1>9 DEF Balanced, g, less, b

----------------------------------------------------------------------------
(* The message: where it begins and ends.                                    *)

\* The message has begun or not, and has not ended.
Talking(h) ==
  \A i \in 1..Len(h) :
    /\ h[i].type = "message_start" => i = 1
    /\ h[i].type = "block_delta" => h[1].type = "message_start"
    /\ h[i].type # "message_stop"

Headed(h, begun) ==
  /\ Talking(h)
  /\ IF begun THEN h # <<>> /\ h[1].type = "message_start" ELSE h = <<>>

\* It may have ended.
Ended(h) ==
  \A i \in 1..Len(h) :
    /\ h[i].type = "message_start" => i = 1
    /\ h[i].type = "block_delta" => h[1].type = "message_start"
    /\ h[i].type = "message_stop" => i = Len(h)

\* The message begins, goes on, and ends.
LEMMA HeadedAppend ==
  ASSUME NEW h \in Seq(Frame), NEW f \in Frame
  PROVE  /\ Headed(h, FALSE) /\ f.type = "message_start" => Headed(Append(h, f), TRUE)
         /\ Headed(h, TRUE) /\ f.type \notin {"message_start", "message_stop"} => Headed(Append(h, f), TRUE)
         /\ Talking(h) /\ f.type \notin {"message_start", "message_stop", "block_delta"} =>
              Talking(Append(h, f))
         /\ Talking(h) /\ f.type = "message_stop" => Ended(Append(h, f))
<1> DEFINE n == Len(h)
           g == Append(h, f)
<1>1. /\ n \in Nat /\ Len(g) = n + 1 /\ g[n + 1] = f
      /\ \A i \in 1..n : g[i] = h[i] /\ i \in 1..(n + 1)
  BY AppendIs
<1>2. g # <<>>
  BY <1>1
<1>3. h = <<>> => n = 0
  OBVIOUS
<1>4. h # <<>> => 1 \in 1..n
  OBVIOUS
<1> HIDE DEF n, g
<1>5. \A j \in 1..(n + 1) : j = n + 1 \/ (j \in 1..n /\ 1 \in 1..n)
  <2>1. n \in Nat
    BY <1>1
  <2> QED
    BY <2>1
<1>6. ASSUME Headed(h, FALSE), f.type = "message_start" PROVE Headed(g, TRUE)
  <2>1. Len(g) = 1 /\ g[1] = f
    BY <1>1, <1>3, <1>6 DEF Headed
  <2>2. \A i \in 1..Len(g) : i = 1
    BY <2>1
  <2> QED
    BY <1>2, <1>6, <2>1, <2>2 DEF Headed, Talking
<1>7. ASSUME Talking(h), f.type \notin {"message_start", "message_stop", "block_delta"} PROVE Talking(g)
  BY <1>1, <1>5, <1>7 DEF Talking, n
<1>8. ASSUME Headed(h, TRUE), f.type \notin {"message_start", "message_stop"} PROVE Headed(g, TRUE)
  <2>1. h # <<>> /\ h[1].type = "message_start" /\ Talking(h) /\ g[1] = h[1]
    BY <1>1, <1>4, <1>8 DEF Headed
  <2>2. Talking(g)
    BY <1>1, <1>5, <1>8, <2>1 DEF Talking, n
  <2> QED
    BY <1>2, <2>1, <2>2 DEF Headed
<1>9. ASSUME Talking(h), f.type = "message_stop" PROVE Ended(g)
  BY <1>1, <1>5, <1>9 DEF Talking, Ended, n
<1> QED
  BY <1>6, <1>7, <1>8, <1>9 DEF g

\* While it has not ended it is framed as if it had.
LEMMA TalkingEnded == ASSUME NEW h, Talking(h) PROVE Ended(h)
BY DEF Talking, Ended

\* The fields of frames.
LEMMA FrameFields ==
  /\ \A i, k, c : /\ BlockStart(i, k, c).type = "block_start" /\ BlockStart(i, k, c).index = i
                  /\ BlockStart(i, k, c).kind = k /\ BlockStart(i, k, c).call = c
  /\ \A i : BlockStop(i).type = "block_stop" /\ BlockStop(i).index = i
  /\ \A i, x : Delta(i, x).type = "block_delta" /\ Delta(i, x).index = i /\ Delta(i, x).content = x
  /\ MessageStart.type = "message_start" /\ MessageDelta.type = "message_delta"
  /\ MessageStop.type = "message_stop"
  /\ \A n : TextOf(n).kind = "text"
  /\ \A c, n : ArgsOf(c, n).kind = "args" /\ ArgsOf(c, n).call = c
BY DEF BlockStart, BlockStop, Delta, MessageStart, MessageDelta, MessageStop, TextOf, ArgsOf

----------------------------------------------------------------------------
(* The converter to Anthropic knows which block is whose.                    *)

\* The client has h; these are the frames it will have.
All(h, s) == h \o s.parts

\* The blocks that may take contents, but for the tools of `but`.
LiveBlocks(s, but) ==
  {b \in {BlockStart(s.blockIndex, "text", NotSeen)} : s.blockStarted}
  \cup {BlockStart(s.toolIdx[c], "tool", c) : c \in SeenTools(s) \ but}

Indexed(s) ==
  /\ s.blockIndex \in Nat
  /\ \A c \in SeenTools(s) : s.toolIdx[c] \in 0..(s.blockIndex - 1)
  /\ \A c, d \in SeenTools(s) : s.toolIdx[c] = s.toolIdx[d] => c = d

\* The message has begun as the field says, and every call's block is known.
Knows(h, s, but) ==
  /\ Headed(All(h, s), s.msgStarted)
  /\ Opens(All(h, s), LiveBlocks(s, but))
  /\ Indexed(s)

\* An answer that calls no tool but c: what is open, and below which index.
OpenBlocks(s, c) ==
  {b \in {s.blockIndex} : s.blockStarted} \cup {b \in {s.toolIdx[c]} : s.toolOpen}

TopBlock(s) == IF s.blockStarted THEN s.blockIndex + 1 ELSE s.blockIndex

Closes(h, s, c) ==
  /\ Balanced(All(h, s), OpenBlocks(s, c), TopBlock(s))
  /\ s.toolOpen => c \in SeenTools(s)

\* Which is when the block of the tool is found at the end.
InTime(s, c) == s.toolOpen => s.toolIdx[c] = s.blockIndex - 1

\* The live blocks, one by one.
LEMMA LiveBlocksAre ==
  ASSUME NEW s, NEW but
  PROVE  \A b : b \in LiveBlocks(s, but) <=>
           \/ s.blockStarted /\ b = BlockStart(s.blockIndex, "text", NotSeen)
           \/ \E c \in SeenTools(s) \ but : b = BlockStart(s.toolIdx[c], "tool", c)
BY DEF LiveBlocks

\* One frame more.
Emitted(h, s, f, t) ==
  /\ All(h, s) \in Seq(Frame) /\ t \in Converters /\ All(h, t) = Append(All(h, s), f)
  /\ t.msgStarted = s.msgStarted /\ t.blockStarted = s.blockStarted
  /\ t.blockIndex = s.blockIndex /\ t.toolOpen = s.toolOpen /\ t.toolIdx = s.toolIdx

\* The converter emits it and keeps its fields.
LEMMA EmitAll ==
  ASSUME NEW h \in Seq(Frame), NEW s \in Converters, NEW f \in Frame
  PROVE  Emitted(h, s, f, Emit(s, f))
<1>1. s.parts \in Seq(Frame) /\ Emit(s, f).parts = Append(s.parts, f)
  BY DEF Converters, Emit
<1>2. h \o s.parts \in Seq(Frame)
  BY <1>1, ConcatProperties
<1>3. h \o Append(s.parts, f) = Append(h \o s.parts, f)
  <2> DEFINE p == s.parts
  <2>1. p \in Seq(Frame)
    BY <1>1
  <2> HIDE DEF p
  <2>2. Append(p, f) = p \o <<f>> /\ <<f>> \in Seq(Frame)
    BY <2>1, AppendIsConcat
  <2>3. h \o (p \o <<f>>) = (h \o p) \o <<f>>
    BY <2>1, <2>2, ConcatAssociative
  <2>4. h \o p \in Seq(Frame)
    BY <2>1, ConcatProperties
  <2>5. (h \o p) \o <<f>> = Append(h \o p, f)
    BY <2>4, AppendIsConcat
  <2> QED
    BY <2>2, <2>3, <2>5 DEF p
<1> QED
  BY <1>1, <1>2, <1>3, EmitIs DEF All, Emitted

\* Fields that are not read for the blocks.
LEMMA SameBlocks ==
  ASSUME NEW s, NEW t, t.blockStarted = s.blockStarted, t.blockIndex = s.blockIndex,
         t.toolIdx = s.toolIdx
  PROVE  /\ SeenTools(t) = SeenTools(s)
         /\ \A but : LiveBlocks(t, but) = LiveBlocks(s, but)
         /\ Indexed(s) => Indexed(t)
         /\ TopBlock(t) = TopBlock(s)
         /\ t.toolOpen = s.toolOpen =>
              /\ \A c : OpenBlocks(t, c) = OpenBlocks(s, c)
              /\ \A c : InTime(s, c) => InTime(t, c)
<1>1. SeenTools(t) = SeenTools(s)
  BY DEF SeenTools
<1> QED
  BY <1>1 DEF LiveBlocks, Indexed, TopBlock, OpenBlocks, InTime

\* The beginning of the message.
LEMMA StartedKnows ==
  ASSUME NEW h \in Seq(Frame), NEW s \in Converters, Knows(h, s, {})
  PROVE  /\ Started(s) \in Converters /\ Started(s).msgStarted
         /\ Knows(h, Started(s), {}) /\ SeenTools(Started(s)) = SeenTools(s)
         /\ Started(s).blockStarted = s.blockStarted /\ Started(s).blockIndex = s.blockIndex
         /\ \A c : Closes(h, s, c) /\ InTime(s, c) =>
                     Closes(h, Started(s), c) /\ InTime(Started(s), c)
<1>1. CASE s.msgStarted
  BY <1>1 DEF Started
<1>2. CASE ~s.msgStarted
  <2> DEFINE e == Emit(s, MessageStart)
             t == [e EXCEPT !.msgStarted = TRUE]
             g == All(h, s)
  <2>1. Started(s) = t
    BY <1>2 DEF Started
  <2>2. /\ g \in Seq(Frame) /\ e \in Converters /\ All(h, e) = Append(g, MessageStart)
        /\ e.blockStarted = s.blockStarted /\ e.blockIndex = s.blockIndex
        /\ e.toolOpen = s.toolOpen /\ e.toolIdx = s.toolIdx /\ MessageStart \in Frame
    <3>1. MessageStart \in Frame
      BY FramesAre
    <3>2. Emitted(h, s, MessageStart, e)
      BY <3>1, EmitAll
    <3> QED
      BY <3>1, <3>2 DEF Emitted
  <2> HIDE DEF e, g
  <2>3. /\ t \in Converters /\ t.msgStarted = TRUE /\ t.parts = e.parts
        /\ t.blockStarted = s.blockStarted /\ t.blockIndex = s.blockIndex
        /\ t.toolOpen = s.toolOpen /\ t.toolIdx = s.toolIdx
    BY <2>2 DEF Converters
  <2> HIDE DEF t
  <2>4. All(h, t) = Append(g, MessageStart)
    BY <2>2, <2>3 DEF All
  <2>5. /\ SeenTools(t) = SeenTools(s) /\ LiveBlocks(t, {}) = LiveBlocks(s, {}) /\ Indexed(t)
        /\ TopBlock(t) = TopBlock(s) /\ \A c : OpenBlocks(t, c) = OpenBlocks(s, c)
        /\ \A c : InTime(s, c) => InTime(t, c)
    BY <2>3, SameBlocks DEF Knows
  <2>6. Headed(g, FALSE) /\ Opens(g, LiveBlocks(s, {}))
    <3>1. s.msgStarted = FALSE
      BY <1>2 DEF Converters
    <3> QED
      BY <3>1 DEF Knows, g
  <2>7. MessageStart.type = "message_start" /\ MessageStart.type \notin BlockFrames
        /\ MessageStart.type # "block_delta"
    BY DEF MessageStart, BlockFrames
  <2>8. Headed(All(h, t), TRUE) /\ Opens(All(h, t), LiveBlocks(t, {}))
    BY <2>2, <2>4, <2>5, <2>6, <2>7, HeadedAppend, OpensSilent
  <2>9. ASSUME NEW c, Closes(h, s, c) PROVE Closes(h, t, c)
    <3>1. Balanced(g, OpenBlocks(s, c), TopBlock(s))
      BY <2>9 DEF Closes, g
    <3>2. Balanced(Append(g, MessageStart), OpenBlocks(s, c), TopBlock(s))
      BY <2>2, <2>7, <3>1, BalancedSilent
    <3> QED
      BY <2>3, <2>4, <2>5, <2>9, <3>2 DEF Closes
  <2> QED
    BY <2>1, <2>3, <2>5, <2>8, <2>9 DEF Knows
<1> QED
  BY <1>1, <1>2

\* The blocks that frames start and stop have integers as indices.
LEMMA BlockIndices ==
  ASSUME NEW h \in Seq(Frame)
  PROVE  \A i \in 1..Len(h) : h[i].type \in BlockFrames => h[i].index \in Int
<1>1. \A f \in Frame : f.type \in BlockFrames => f.index \in Int
  BY DEF Frame, BlockFrames
<1> QED
  BY <1>1

\* What the operations below leave of the converter's fields: the message has
\* begun, and whoever was balanced is.
Onward(h, s, t) ==
  /\ t \in Converters /\ t.msgStarted
  /\ SeenTools(t) = SeenTools(s)
  /\ Knows(h, t, {})
  /\ \A c : Closes(h, s, c) /\ InTime(s, c) => Closes(h, t, c) /\ InTime(t, c)

\* A content for a block that is live.
LEMMA DeltaKnows ==
  ASSUME NEW h \in Seq(Frame), NEW s \in Converters, s.msgStarted, Knows(h, s, {}),
         NEW i \in Int, NEW x \in Content, \E b \in LiveBlocks(s, {}) : Fits(b, Delta(i, x))
  PROVE  Onward(h, s, Emit(s, Delta(i, x)))
<1> DEFINE f == Delta(i, x)
           t == Emit(s, f)
           g == All(h, s)
<1>1. f \in Frame /\ f.type = "block_delta" /\ f.type \notin BlockFrames
  BY FramesAre, FrameFields DEF BlockFrames
<1>2. \E b \in LiveBlocks(s, {}) : Fits(b, f)
  OBVIOUS
<1> HIDE DEF f
<1>3. /\ g \in Seq(Frame) /\ t \in Converters /\ All(h, t) = Append(g, f)
      /\ t.msgStarted = s.msgStarted /\ t.blockStarted = s.blockStarted
      /\ t.blockIndex = s.blockIndex /\ t.toolOpen = s.toolOpen /\ t.toolIdx = s.toolIdx
  <2>1. Emitted(h, s, f, t)
    BY <1>1, EmitAll
  <2> QED
    BY <2>1 DEF Emitted
<1>4. s.msgStarted = TRUE
  BY DEF Converters
<1>5. Headed(g, TRUE) /\ Opens(g, LiveBlocks(s, {})) /\ Indexed(s)
  BY <1>4 DEF Knows
<1> HIDE DEF g, t
<1>6. /\ SeenTools(t) = SeenTools(s) /\ LiveBlocks(t, {}) = LiveBlocks(s, {}) /\ Indexed(t)
      /\ TopBlock(t) = TopBlock(s) /\ \A c : OpenBlocks(t, c) = OpenBlocks(s, c)
      /\ \A c : InTime(s, c) => InTime(t, c)
  BY <1>3, <1>5, SameBlocks
<1>7. Headed(Append(g, f), TRUE)
  BY <1>1, <1>3, <1>5, HeadedAppend
<1>8. Opens(Append(g, f), LiveBlocks(s, {}))
  <2>1. Survives(LiveBlocks(s, {}), f, LiveBlocks(s, {}))
    BY <1>1 DEF Survives
  <2> QED
    BY <1>1, <1>2, <1>3, <1>5, <2>1, OpensAppend
<1>9. ASSUME NEW c, Closes(h, s, c) PROVE Closes(h, t, c)
  <2>1. Balanced(g, OpenBlocks(s, c), TopBlock(s))
    BY <1>9 DEF Closes, g
  <2>2. Balanced(Append(g, f), OpenBlocks(s, c), TopBlock(s))
    BY <1>1, <1>3, <2>1, BalancedSilent
  <2> QED
    BY <1>3, <1>6, <1>9, <2>2 DEF Closes
<1>10. Onward(h, s, t)
  BY <1>3, <1>4, <1>6, <1>7, <1>8, <1>9 DEF Onward, Knows
<1> QED
  BY <1>10 DEF t, f

\* One step after another.
LEMMA OnwardTwice ==
  ASSUME NEW h, NEW s, NEW t, NEW u, Onward(h, s, t), Onward(h, t, u)
  PROVE  Onward(h, s, u)
BY DEF Onward

\* A block for text is opened at the next index.
LEMMA TextOpens ==
  ASSUME NEW h \in Seq(Frame), NEW s \in Converters, s.msgStarted, ~s.blockStarted, Knows(h, s, {}),
         NEW e, e = Emit(s, BlockStart(s.blockIndex, "text", NotSeen)),
         NEW t, t = [e EXCEPT !.blockStarted = TRUE]
  PROVE  Onward(h, s, t) /\ t.blockStarted /\ t.blockIndex = s.blockIndex
<1> DEFINE b == s.blockIndex
           f == BlockStart(b, "text", NotSeen)
           g == All(h, s)
<1>1. /\ f \in Frame /\ f.type = "block_start" /\ f.type \in BlockFrames /\ f.type # "block_delta"
      /\ f.index = b /\ f.type \notin {"message_start", "message_stop"}
  BY IndexIs, FramesAre, FrameFields DEF BlockFrames
<1>2. s.msgStarted = TRUE /\ Headed(g, TRUE) /\ Opens(g, LiveBlocks(s, {})) /\ Indexed(s)
  BY DEF Converters, Knows
<1>3. \A c : f = BlockStart(b, "text", NotSeen)
  OBVIOUS
<1> HIDE DEF f
<1>4. /\ g \in Seq(Frame) /\ e \in Converters /\ All(h, e) = Append(g, f)
      /\ e.msgStarted = s.msgStarted /\ e.blockIndex = s.blockIndex
      /\ e.toolOpen = s.toolOpen /\ e.toolIdx = s.toolIdx
  <2>1. Emitted(h, s, f, e)
    BY <1>1, <1>3, EmitAll
  <2> QED
    BY <2>1 DEF Emitted
<1>5. /\ t \in Converters /\ t.msgStarted = TRUE /\ t.parts = e.parts /\ t.blockStarted = TRUE
      /\ t.blockIndex = b /\ t.toolOpen = s.toolOpen /\ t.toolIdx = s.toolIdx
  BY <1>2, <1>4 DEF Converters
<1>6. All(h, t) = Append(g, f)
  BY <1>4, <1>5 DEF All
<1>7. SeenTools(t) = SeenTools(s) /\ Indexed(t) /\ b \in Nat
  BY <1>2, <1>5 DEF SeenTools, Indexed
<1>8. \A x \in LiveBlocks(t, {}) : x = f \/ (x \in LiveBlocks(s, {}) /\ f.index # x.index)
  <2>1. SUFFICES ASSUME NEW x \in LiveBlocks(t, {})
                  PROVE  x = f \/ (x \in LiveBlocks(s, {}) /\ f.index # x.index)
    OBVIOUS
  <2>2. CASE x = BlockStart(t.blockIndex, "text", NotSeen)
    BY <1>3, <1>5, <2>2
  <2>3. CASE \E c \in SeenTools(t) \ {} : x = BlockStart(t.toolIdx[c], "tool", c)
    <3>1. PICK c \in SeenTools(s) : x = BlockStart(s.toolIdx[c], "tool", c)
      BY <1>5, <1>7, <2>3
    <3>2. x \in LiveBlocks(s, {})
      BY <3>1 DEF LiveBlocks
    <3>3. x.index = s.toolIdx[c]
      BY <3>1, FrameFields
    <3>4. s.toolIdx[c] # b
      BY <1>2, <1>7, <3>1 DEF Indexed
    <3> QED
      BY <1>1, <3>2, <3>3, <3>4
  <2>4. x = BlockStart(t.blockIndex, "text", NotSeen)
        \/ \E c \in SeenTools(t) \ {} : x = BlockStart(t.toolIdx[c], "tool", c)
    BY DEF LiveBlocks
  <2> QED
    BY <2>2, <2>3, <2>4
<1>9. Opens(Append(g, f), LiveBlocks(t, {}))
  <2>1. Survives(LiveBlocks(s, {}), f, LiveBlocks(t, {}))
    BY <1>1, <1>8 DEF Survives
  <2> QED
    BY <1>1, <1>2, <1>4, <2>1, OpensAppend
<1>10. Headed(Append(g, f), TRUE)
  BY <1>1, <1>2, <1>4, HeadedAppend
<1>11. ASSUME NEW c, Closes(h, s, c), InTime(s, c) PROVE Closes(h, t, c) /\ InTime(t, c)
  <2> DEFINE open == OpenBlocks(s, c)
  <2>1. Balanced(g, open, b) /\ (s.toolOpen => c \in SeenTools(s))
    BY <1>11 DEF Closes, TopBlock
  <2>2. open \subseteq Int
    BY <1>2, <2>1 DEF OpenBlocks, Indexed
  <2>3. OpenBlocks(t, c) = open \cup {b} /\ TopBlock(t) = b + 1
    BY <1>5 DEF OpenBlocks, TopBlock
  <2> HIDE DEF open
  <2>4. \A i \in 1..Len(g) : g[i].type \in BlockFrames => g[i].index \in Int
    BY <1>4, BlockIndices
  <2>5. b \in Int /\ f.index \in Int
    BY <1>1, <1>7
  <2>6. Balanced(Append(g, f), open \cup {b}, b + 1)
    <3> HIDE DEF g, b
    <3> QED
      BY <1>1, <1>4, <2>1, <2>2, <2>4, <2>5, BalancedStart
  <2> QED
    BY <1>5, <1>6, <1>7, <1>11, <2>1, <2>3, <2>6 DEF Closes, InTime
<1> QED
  BY <1>5, <1>6, <1>7, <1>9, <1>10, <1>11 DEF Onward, Knows

\* A text goes into the block of texts, which is opened for it.
LEMMA OnTextKnows ==
  ASSUME NEW h \in Seq(Frame), NEW s \in Converters, Knows(h, s, {}), NEW n \in Nat
  PROVE  Onward(h, s, OnText(s, n))
<1> DEFINE b == s.blockIndex
           st == Started(s)
           e == Emit(st, BlockStart(b, "text", NotSeen))
           u == [e EXCEPT !.blockStarted = TRUE]
           opened == IF st.blockStarted THEN st ELSE u
<1>1. /\ st \in Converters /\ st.msgStarted /\ Knows(h, st, {}) /\ st.blockIndex = b
      /\ Onward(h, s, st)
  BY StartedKnows DEF Onward
<1>2. OnText(s, n) = Emit(opened, Delta(b, TextOf(n)))
  BY DEF OnText
<1>3. b \in Int /\ TextOf(n) \in Content
  BY IndexIs DEF TextOf, Content
<1> HIDE DEF st, b
<1>5. ~st.blockStarted => Onward(h, st, u) /\ u.blockStarted /\ u.blockIndex = st.blockIndex
  <2>1. e = Emit(st, BlockStart(st.blockIndex, "text", NotSeen))
    BY <1>1
  <2> HIDE DEF e
  <2> QED
    BY <1>1, <2>1, TextOpens
<1> HIDE DEF u, e
<1>6. Onward(h, s, opened) /\ opened.blockStarted /\ opened.blockIndex = b
  BY <1>1, <1>5, OnwardTwice
<1> HIDE DEF opened
<1>7. BlockStart(b, "text", NotSeen) \in LiveBlocks(opened, {})
  BY <1>6, LiveBlocksAre
<1>8. Fits(BlockStart(b, "text", NotSeen), Delta(b, TextOf(n)))
  BY FrameFields DEF Fits
<1>9. Onward(h, opened, OnText(s, n))
  BY <1>2, <1>3, <1>6, <1>7, <1>8, DeltaKnows DEF Onward
<1> QED
  BY <1>6, <1>9, OnwardTwice

----------------------------------------------------------------------------
(* The blocks of calls.                                                      *)

\* From s to t the calls of cs have been heard; an answer that calls no tool but
\* c is still balanced.
Called(h, s, cs, t) ==
  /\ t \in Converters
  /\ SeenTools(t) = SeenTools(s) \cup cs
  /\ Knows(h, t, {})
  /\ \A c : cs \subseteq {c} /\ Closes(h, s, c) /\ InTime(s, c) =>
              Closes(h, t, c) /\ InTime(t, c)

\* Nothing called, and some calls after others.
LEMMA CalledThen ==
  /\ \A h, s, t : Onward(h, s, t) => Called(h, s, {}, t)
  /\ \A h, s : s \in Converters /\ Knows(h, s, {}) => Called(h, s, {}, s)
  /\ \A h, s, t, u, cs, ds : Called(h, s, cs, t) /\ Called(h, t, ds, u) => Called(h, s, cs \cup ds, u)
<1>1. ASSUME NEW h, NEW s, NEW t, Onward(h, s, t) PROVE Called(h, s, {}, t)
  BY <1>1 DEF Onward, Called
<1>2. ASSUME NEW h, NEW s, s \in Converters, Knows(h, s, {}) PROVE Called(h, s, {}, s)
  BY <1>2 DEF Called
<1>3. ASSUME NEW h, NEW s, NEW t, NEW u, NEW cs, NEW ds, Called(h, s, cs, t), Called(h, t, ds, u)
      PROVE  Called(h, s, cs \cup ds, u)
  <2>1. SeenTools(u) = SeenTools(s) \cup (cs \cup ds)
    BY <1>3 DEF Called
  <2>2. ASSUME NEW c, cs \cup ds \subseteq {c}, Closes(h, s, c), InTime(s, c)
        PROVE  Closes(h, u, c) /\ InTime(u, c)
    <3>1. cs \subseteq {c} /\ ds \subseteq {c}
      BY <2>2
    <3>2. Closes(h, t, c) /\ InTime(t, c)
      BY <1>3, <2>2, <3>1 DEF Called
    <3> QED
      BY <1>3, <3>1, <3>2 DEF Called
  <2> QED
    BY <1>3, <2>1, <2>2 DEF Called
<1> QED
  BY <1>1, <1>2, <1>3

\* Closing the block of texts: the frame and the field.
LEMMA CloseTextAll ==
  ASSUME NEW h \in Seq(Frame), NEW s \in Converters
  PROVE  /\ CloseText(s) \in Converters
         /\ All(h, CloseText(s)) = IF s.blockStarted THEN Append(All(h, s), BlockStop(s.blockIndex))
                                   ELSE All(h, s)
         /\ CloseText(s).msgStarted = s.msgStarted /\ CloseText(s).blockStarted = FALSE
         /\ CloseText(s).blockIndex = s.blockIndex /\ CloseText(s).toolOpen = s.toolOpen
         /\ CloseText(s).toolIdx = s.toolIdx
<1>1. CASE ~s.blockStarted
  <2>1. CloseText(s) = s /\ s.blockStarted = FALSE
    BY <1>1 DEF CloseText, Converters
  <2> QED
    BY <1>1, <2>1
<1>2. CASE s.blockStarted
  <2> DEFINE e == Emit(s, BlockStop(s.blockIndex))
             t == [e EXCEPT !.blockStarted = FALSE]
  <2>1. CloseText(s) = t
    BY <1>2 DEF CloseText
  <2>2. Emitted(h, s, BlockStop(s.blockIndex), e)
    <3>1. BlockStop(s.blockIndex) \in Frame
      BY IndexIs, FramesAre
    <3> QED
      BY <3>1, EmitAll
  <2> HIDE DEF e
  <2>3. e \in Converters
    BY <2>2 DEF Emitted
  <2>4. /\ t \in Converters /\ t.msgStarted = e.msgStarted /\ t.parts = e.parts
        /\ t.blockStarted = FALSE /\ t.blockIndex = e.blockIndex
        /\ t.toolOpen = e.toolOpen /\ t.toolIdx = e.toolIdx
    BY <2>3 DEF Converters
  <2> HIDE DEF t
  <2>5. All(h, t) = All(h, e)
    BY <2>4 DEF All
  <2> QED
    BY <1>2, <2>1, <2>2, <2>4, <2>5 DEF Emitted
<1> QED
  BY <1>1, <1>2

\* A text that is left is closed, and its index not used again.
LEMMA LeaveTextKnows ==
  ASSUME NEW h \in Seq(Frame), NEW s \in Converters, s.msgStarted, Knows(h, s, {}),
         NEW t, t = LeaveText(s)
  PROVE  /\ t \in Converters /\ t.msgStarted /\ ~t.blockStarted
         /\ t.toolIdx = s.toolIdx /\ SeenTools(t) = SeenTools(s) /\ Knows(h, t, {})
         /\ \A c : Closes(h, s, c) => Closes(h, t, c)
<1> DEFINE e == CloseText(s)
           i == IF s.blockStarted THEN s.blockIndex + 1 ELSE s.blockIndex
           g == All(h, s)
           f == BlockStop(s.blockIndex)
<1>1. /\ e \in Converters /\ e.msgStarted = s.msgStarted /\ e.blockStarted = FALSE
      /\ e.blockIndex = s.blockIndex /\ e.toolOpen = s.toolOpen /\ e.toolIdx = s.toolIdx
  BY CloseTextAll
<1>12. All(h, e) = IF s.blockStarted THEN Append(g, f) ELSE g
  BY CloseTextAll
<1>2. t = [e EXCEPT !.blockIndex = i]
  BY <1>1 DEF LeaveText
<1> HIDE DEF e
<1>3. Indexed(s) /\ s.blockIndex \in Nat /\ i \in Nat /\ i >= s.blockIndex
  BY DEF Knows, Indexed
<1> HIDE DEF i
<1>4. /\ t \in Converters /\ t.msgStarted = s.msgStarted /\ t.parts = e.parts
      /\ t.blockStarted = FALSE /\ t.blockIndex = i /\ t.toolOpen = s.toolOpen
      /\ t.toolIdx = s.toolIdx
  <2>1. e \in Converters /\ i \in Int
    BY <1>1, <1>3
  <2>2. /\ t \in Converters /\ t.msgStarted = e.msgStarted /\ t.parts = e.parts
        /\ t.blockStarted = e.blockStarted /\ t.blockIndex = i /\ t.toolOpen = e.toolOpen
        /\ t.toolIdx = e.toolIdx
    BY <1>2, <2>1 DEF Converters
  <2> QED
    BY <1>1, <2>2
<1>5. All(h, t) = IF s.blockStarted THEN Append(g, f) ELSE g
  BY <1>4, <1>12 DEF All
<1>6. SeenTools(t) = SeenTools(s)
  BY <1>4 DEF SeenTools
<1>7. Indexed(t)
  <2>1. \A c \in SeenTools(s) : s.toolIdx[c] \in 0..(s.blockIndex - 1)
    BY <1>3 DEF Indexed
  <2>2. \A c \in SeenTools(s) : s.toolIdx[c] \in 0..(i - 1)
    BY <1>3, <2>1
  <2> QED
    BY <1>3, <1>4, <1>6, <2>2 DEF Indexed
<1>8. LiveBlocks(t, {}) = {BlockStart(s.toolIdx[c], "tool", c) : c \in SeenTools(s)}
  BY <1>4, <1>6 DEF LiveBlocks
<1>9. LiveBlocks(t, {}) \subseteq LiveBlocks(s, {})
  BY <1>8 DEF LiveBlocks
<1>10. CASE ~s.blockStarted
  <2>1. Knows(h, t, {})
    BY <1>4, <1>5, <1>7, <1>9, <1>10, OpensFewer DEF Knows
  <2>2. ASSUME NEW c, Closes(h, s, c) PROVE Closes(h, t, c)
    <3>1. OpenBlocks(t, c) = OpenBlocks(s, c) /\ TopBlock(t) = TopBlock(s)
      BY <1>4, <1>10 DEF OpenBlocks, TopBlock, i
    <3> QED
      BY <1>4, <1>5, <1>6, <1>10, <2>2, <3>1 DEF Closes
  <2> QED
    BY <1>4, <1>6, <2>1, <2>2
<1>11. CASE s.blockStarted
  <2>1. /\ f \in Frame /\ f.type = "block_stop" /\ f.type # "block_delta" /\ f.index = s.blockIndex
        /\ f.type \notin {"message_start", "message_stop"}
    BY IndexIs, FramesAre, FrameFields
  <2>2. g \in Seq(Frame) /\ s.msgStarted = TRUE /\ Headed(g, TRUE) /\ Opens(g, LiveBlocks(s, {}))
    <3>1. g \in Seq(Frame)
      BY EmitAll, <2>1 DEF Emitted
    <3> QED
      BY <3>1 DEF Knows, Converters
  <2>3. \A c \in SeenTools(s) : s.toolIdx[c] # s.blockIndex
    BY <1>3 DEF Indexed
  <2> HIDE DEF f, g
  <2>4. Survives(LiveBlocks(s, {}), f, LiveBlocks(t, {}))
    <3>1. ASSUME NEW b \in LiveBlocks(t, {}) PROVE b \in LiveBlocks(s, {}) /\ f.index # b.index
      <4>1. PICK c \in SeenTools(s) : b = BlockStart(s.toolIdx[c], "tool", c)
        BY <1>8, <3>1
      <4> QED
        BY <1>9, <2>1, <2>3, <3>1, <4>1, FrameFields
    <3> QED
      BY <3>1 DEF Survives
  <2>5. Opens(Append(g, f), LiveBlocks(t, {}))
    BY <2>1, <2>2, <2>4, OpensAppend
  <2>6. Headed(Append(g, f), TRUE)
    BY <2>1, <2>2, HeadedAppend
  <2>7. Knows(h, t, {})
    BY <1>4, <1>5, <1>7, <1>11, <2>2, <2>5, <2>6 DEF Knows
  <2>8. ASSUME NEW c, Closes(h, s, c) PROVE Closes(h, t, c)
    <3> DEFINE open == OpenBlocks(s, c)
    <3>1. Balanced(g, open, i) /\ (s.toolOpen => c \in SeenTools(s))
      BY <1>11, <2>8 DEF Closes, TopBlock, i, g
    <3>2. s.blockIndex \in open
      BY <1>11 DEF OpenBlocks
    <3>3. OpenBlocks(t, c) = open \ {s.blockIndex} /\ TopBlock(t) = i
      BY <1>4, <2>3, <3>1 DEF OpenBlocks, TopBlock
    <3> HIDE DEF open
    <3>4. Balanced(Append(g, f), open \ {f.index}, i)
      BY <2>1, <2>2, <3>1, <3>2, BalancedStop
    <3> QED
      BY <1>4, <1>5, <1>6, <1>11, <2>1, <3>1, <3>3, <3>4 DEF Closes
  <2> QED
    BY <1>4, <1>6, <2>2, <2>7, <2>8
<1> QED
  BY <1>10, <1>11

\* When a call is announced, the block that is closed is its own former one, or
\* one that is not open: the other tools' blocks stay live.
LEMMA LeaveToolKnows ==
  ASSUME NEW h \in Seq(Frame), NEW s \in Converters, s.msgStarted, ~s.blockStarted,
         Knows(h, s, {}), NEW c \in CallIdx, NEW t, t = LeaveTool(s, c)
  PROVE  /\ t \in Converters /\ t.msgStarted /\ ~t.blockStarted /\ ~t.toolOpen
         /\ t.toolIdx = s.toolIdx /\ SeenTools(t) = SeenTools(s) /\ Knows(h, t, {c})
         /\ Closes(h, s, c) => Closes(h, t, c)
<1> DEFINE prev == s.toolIdx[c]
           last == IF prev # NotSeen /\ prev # s.blockIndex THEN prev ELSE s.blockIndex
           f == BlockStop(last)
           e == Emit(s, f)
           g == All(h, s)
<1>1. t = IF s.toolOpen THEN [e EXCEPT !.toolOpen = FALSE] ELSE s
  BY DEF LeaveTool
<1>2. Indexed(s) /\ s.msgStarted = TRUE /\ Headed(g, TRUE) /\ Opens(g, LiveBlocks(s, {}))
  BY DEF Knows, Converters
<1>3. /\ f \in Frame /\ f.type = "block_stop" /\ f.type # "block_delta" /\ f.index = last
      /\ f.type \notin {"message_start", "message_stop"}
  BY IndexIs, FramesAre, FrameFields
<1>4. ASSUME NEW d \in SeenTools(s), d # c PROVE s.toolIdx[d] # last
  <2>1. s.toolIdx[d] \in 0..(s.blockIndex - 1) /\ s.blockIndex \in Nat
    BY <1>2 DEF Indexed
  <2>2. prev # NotSeen => s.toolIdx[d] # prev
    BY <1>2, <1>4 DEF Indexed, SeenTools
  <2> QED
    BY <2>1, <2>2
<1>5. LiveBlocks(s, {c}) \subseteq LiveBlocks(s, {})
  BY DEF LiveBlocks
<1>6. CASE ~s.toolOpen
  <2>1. t = s
    BY <1>1, <1>6
  <2>2. Opens(g, LiveBlocks(s, {c}))
    BY <1>2, <1>5, OpensFewer
  <2>3. Knows(h, s, {c})
    BY <2>2 DEF Knows
  <2> QED
    BY <1>6, <2>1, <2>3
<1>7. CASE s.toolOpen
  <2> HIDE DEF f, last
  <2>1. Emitted(h, s, f, e)
    BY <1>3, EmitAll
  <2> HIDE DEF e
  <2>2. /\ t \in Converters /\ t.msgStarted = TRUE /\ t.parts = e.parts /\ t.blockStarted = s.blockStarted
        /\ t.blockIndex = s.blockIndex /\ t.toolOpen = FALSE /\ t.toolIdx = s.toolIdx
    BY <1>1, <1>2, <1>7, <2>1 DEF Converters, Emitted
  <2>3. All(h, t) = Append(g, f) /\ g \in Seq(Frame)
    BY <2>1, <2>2 DEF All, Emitted
  <2>4. SeenTools(t) = SeenTools(s) /\ LiveBlocks(t, {c}) = LiveBlocks(s, {c}) /\ Indexed(t)
    BY <1>2, <2>2, SameBlocks
  <2>5. Survives(LiveBlocks(s, {}), f, LiveBlocks(t, {c}))
    <3>1. ASSUME NEW b \in LiveBlocks(s, {c}) PROVE b \in LiveBlocks(s, {}) /\ f.index # b.index
      <4>1. PICK d \in SeenTools(s) \ {c} : b = BlockStart(s.toolIdx[d], "tool", d)
        BY <3>1 DEF LiveBlocks
      <4>2. b.index = s.toolIdx[d]
        BY <4>1, FrameFields
      <4>3. s.toolIdx[d] # last
        BY <1>4, <4>1
      <4> QED
        BY <1>3, <1>5, <3>1, <4>2, <4>3
    <3> QED
      BY <2>4, <3>1 DEF Survives
  <2> HIDE DEF g
  <2>6. Opens(Append(g, f), LiveBlocks(t, {c}))
    BY <1>2, <1>3, <2>3, <2>5, OpensAppend
  <2>7. Headed(Append(g, f), TRUE)
    BY <1>2, <1>3, <2>3, HeadedAppend
  <2>8. ASSUME Closes(h, s, c) PROVE Closes(h, t, c)
    <3>1. c \in SeenTools(s)
      BY <1>7, <2>8 DEF Closes
    <3>2. last = s.toolIdx[c]
      BY <1>2, <3>1 DEF Indexed, SeenTools, last
    <3>3. OpenBlocks(s, c) = {last} /\ OpenBlocks(t, c) = {last} \ {last} /\ TopBlock(t) = TopBlock(s)
      BY <1>7, <2>2, <3>2 DEF OpenBlocks, TopBlock
    <3>4. Balanced(g, {last}, TopBlock(s)) /\ last \in {last}
      BY <2>8, <3>3 DEF Closes, g
    <3>5. Balanced(Append(g, f), {last} \ {last}, TopBlock(s))
      BY <1>3, <2>3, <3>4, BalancedStop
    <3> QED
      BY <2>2, <2>3, <3>3, <3>5 DEF Closes
  <2> QED
    BY <2>2, <2>3, <2>4, <2>6, <2>7, <2>8 DEF Knows
<1> QED
  BY <1>6, <1>7

\* The block of a call is opened at the next index, which no other call has.
LEMMA OpenToolKnows ==
  ASSUME NEW h \in Seq(Frame), NEW s \in Converters, s.msgStarted, ~s.blockStarted, ~s.toolOpen,
         NEW c \in CallIdx, Knows(h, s, {c}), NEW t, t = OpenTool(s, c)
  PROVE  /\ t \in Converters /\ t.msgStarted
         /\ SeenTools(t) = SeenTools(s) \cup {c} /\ Knows(h, t, {}) /\ InTime(t, c)
         /\ Closes(h, s, c) => Closes(h, t, c)
<1> DEFINE b == s.blockIndex
           f == BlockStart(b, "tool", c)
           e == Emit(s, f)
           g == All(h, s)
           idx == [s.toolIdx EXCEPT ![c] = b]
<1>1. /\ f \in Frame /\ f.type = "block_start" /\ f.type \in BlockFrames /\ f.type # "block_delta"
      /\ f.index = b /\ f.type \notin {"message_start", "message_stop"}
  BY IndexIs, FramesAre, FrameFields DEF BlockFrames
<1>2. Indexed(s) /\ s.msgStarted = TRUE /\ Headed(g, TRUE) /\ Opens(g, LiveBlocks(s, {c})) /\ b \in Nat
  BY DEF Knows, Converters, Indexed
<1>3. Emitted(h, s, f, e)
  BY <1>1, EmitAll
<1>4. t = [e EXCEPT !.toolIdx = [e.toolIdx EXCEPT ![c] = b], !.blockIndex = e.blockIndex + 1,
                    !.toolOpen = TRUE]
  BY DEF OpenTool
<1> HIDE DEF e
<1>5. e \in Converters /\ e.toolIdx = s.toolIdx /\ e.blockIndex = b
  BY <1>3 DEF Emitted
<1>6. s.toolIdx \in [CallIdx -> Int] /\ idx \in [CallIdx -> Int] /\ b + 1 \in Int
  BY <1>2 DEF Converters
<1>7. /\ idx[c] = b /\ \A d \in CallIdx : d # c => idx[d] = s.toolIdx[d]
  BY <1>6
<1>8. t = [e EXCEPT !.toolIdx = idx, !.blockIndex = b + 1, !.toolOpen = TRUE]
  BY <1>4, <1>5
<1> HIDE DEF idx
<1>9. /\ t \in Converters /\ t.msgStarted = e.msgStarted /\ t.parts = e.parts
      /\ t.blockStarted = e.blockStarted /\ t.blockIndex = b + 1 /\ t.toolOpen = TRUE
      /\ t.toolIdx = idx
  BY <1>5, <1>6, <1>8 DEF Converters
<1>10. t.msgStarted = TRUE /\ t.blockStarted = FALSE
  BY <1>2, <1>3, <1>9 DEF Emitted, Converters
<1>11. All(h, t) = Append(g, f) /\ g \in Seq(Frame)
  BY <1>3, <1>9 DEF Emitted, All
<1>12. SeenTools(t) = SeenTools(s) \cup {c}
  <2>1. b # NotSeen
    BY <1>2 DEF NotSeen
  <2> QED
    BY <1>7, <1>9, <2>1 DEF SeenTools
<1>13. \A d \in SeenTools(s) : d \in CallIdx /\ s.toolIdx[d] \in 0..(b - 1)
  BY <1>2 DEF Indexed, SeenTools
<1>14. \A d \in SeenTools(s) : s.toolIdx[d] # b /\ s.toolIdx[d] \in 0..b
  BY <1>2, <1>13
<1>15. Indexed(t)
  <2>1. ASSUME NEW d \in SeenTools(t) PROVE idx[d] \in 0..b
    BY <1>2, <1>7, <1>12, <1>14, <1>13
  <2>2. ASSUME NEW d \in SeenTools(t), NEW x \in SeenTools(t), idx[d] = idx[x] PROVE d = x
    <3>1. CASE d = c /\ x # c
      BY <1>7, <1>12, <1>13, <1>14, <2>2, <3>1
    <3>2. CASE d # c /\ x = c
      BY <1>7, <1>12, <1>13, <1>14, <2>2, <3>2
    <3>3. CASE d # c /\ x # c
      <4>1. d \in SeenTools(s) /\ x \in SeenTools(s) /\ s.toolIdx[d] = s.toolIdx[x]
        BY <1>7, <1>12, <1>13, <2>2, <3>3
      <4> QED
        BY <1>2, <4>1 DEF Indexed
    <3> QED
      BY <3>1, <3>2, <3>3
  <2>3. b + 1 \in Nat /\ (b + 1) - 1 = b
    BY <1>2
  <2> QED
    BY <1>9, <2>1, <2>2, <2>3 DEF Indexed
<1>16. Survives(LiveBlocks(s, {c}), f, LiveBlocks(t, {}))
  <2>1. ASSUME NEW x \in LiveBlocks(t, {}) PROVE x = f \/ (x \in LiveBlocks(s, {c}) /\ f.index # x.index)
    <3>1. PICK d \in SeenTools(t) : x = BlockStart(idx[d], "tool", d)
      BY <1>9, <1>10, <2>1 DEF LiveBlocks
    <3>2. CASE d = c
      BY <1>7, <3>1, <3>2
    <3>3. CASE d # c
      <4>1. d \in SeenTools(s) \ {c} /\ idx[d] = s.toolIdx[d]
        BY <1>7, <1>12, <1>13, <3>1, <3>3
      <4>2. x = BlockStart(s.toolIdx[d], "tool", d)
        BY <3>1, <4>1
      <4>3. x.index = s.toolIdx[d]
        BY <4>2, FrameFields
      <4>4. x \in LiveBlocks(s, {c})
        BY <4>1, <4>2 DEF LiveBlocks
      <4>5. s.toolIdx[d] # b
        BY <1>14, <4>1
      <4> QED
        BY <1>1, <4>3, <4>4, <4>5
    <3> QED
      BY <3>2, <3>3
  <2> HIDE DEF f
  <2> QED
    BY <1>1, <2>1 DEF Survives
<1>17. Opens(Append(g, f), LiveBlocks(t, {})) /\ Headed(Append(g, f), TRUE)
  <2> HIDE DEF f, g
  <2>1. Opens(Append(g, f), LiveBlocks(t, {}))
    BY <1>1, <1>2, <1>11, <1>16, OpensAppend
  <2>2. Headed(Append(g, f), TRUE)
    BY <1>1, <1>2, <1>11, HeadedAppend
  <2> QED
    BY <2>1, <2>2
<1>18. Knows(h, t, {})
  BY <1>10, <1>11, <1>15, <1>17 DEF Knows
<1>19. InTime(t, c)
  BY <1>2, <1>7, <1>9 DEF InTime
<1>20. ASSUME Closes(h, s, c) PROVE Closes(h, t, c)
  <2>1. OpenBlocks(s, c) = {} /\ TopBlock(s) = b
    BY DEF OpenBlocks, TopBlock
  <2>2. OpenBlocks(t, c) = {} \cup {b} /\ TopBlock(t) = b + 1
    BY <1>7, <1>9, <1>10 DEF OpenBlocks, TopBlock
  <2>3. Balanced(g, {}, b)
    BY <1>20, <2>1 DEF Closes
  <2> HIDE DEF f, g
  <2>4. \A i \in 1..Len(g) : g[i].type \in BlockFrames => g[i].index \in Int
    BY <1>11, BlockIndices
  <2>5. b \in Int /\ f.index \in Int /\ {} \subseteq Int
    BY <1>1, <1>2
  <2>6. Balanced(Append(g, f), {} \cup {b}, b + 1)
    <3> HIDE DEF b
    <3> QED
      BY <1>1, <1>11, <2>3, <2>4, <2>5, BalancedStart
  <2>7. c \in SeenTools(t)
    BY <1>12
  <2> QED
    BY <1>11, <2>2, <2>6, <2>7 DEF Closes
<1> QED
  BY <1>9, <1>10, <1>12, <1>18, <1>19, <1>20

\* A call that is announced, or was.
LEMMA OnCallKnows ==
  ASSUME NEW h \in Seq(Frame), NEW s \in Converters, s.msgStarted, Knows(h, s, {}),
         NEW call \in CallParts, call.named \/ call.call \in SeenTools(s)
  PROVE  Called(h, s, {call.call}, OnCall(s, call)) /\ OnCall(s, call).msgStarted
<1> DEFINE c == call.call
           s1 == LeaveText(s)
           s2 == LeaveTool(s1, c)
           s3 == OpenTool(s2, c)
           opened == IF call.named THEN s3 ELSE s
           f == Delta(IndexOf(opened, c), ArgsOf(c, call.args))
<1>1. c \in CallIdx /\ call.args \in Nat /\ call.named \in BOOLEAN
  BY DEF CallParts
<1>2. OnCall(s, call) = IF call.args = 0 THEN opened ELSE Emit(opened, f)
  BY DEF OnCall
<1>3. call.named => Called(h, s, {c}, s3) /\ s3.msgStarted
  <2>1. /\ s1 \in Converters /\ s1.msgStarted /\ ~s1.blockStarted
        /\ SeenTools(s1) = SeenTools(s) /\ Knows(h, s1, {})
        /\ \A d : Closes(h, s, d) => Closes(h, s1, d)
    BY LeaveTextKnows
  <2>5. s2 = LeaveTool(s1, c) /\ s3 = OpenTool(s2, c)
    OBVIOUS
  <2> HIDE DEF s1, s2, s3, c
  <2>2. /\ s2 \in Converters /\ s2.msgStarted /\ ~s2.blockStarted /\ ~s2.toolOpen
        /\ SeenTools(s2) = SeenTools(s1) /\ Knows(h, s2, {c})
        /\ Closes(h, s1, c) => Closes(h, s2, c)
    BY <1>1, <2>1, <2>5, LeaveToolKnows
  <2>3. /\ s3 \in Converters /\ s3.msgStarted
        /\ SeenTools(s3) = SeenTools(s2) \cup {c} /\ Knows(h, s3, {}) /\ InTime(s3, c)
        /\ Closes(h, s2, c) => Closes(h, s3, c)
    BY <1>1, <2>2, <2>5, OpenToolKnows
  <2>4. \A d : {c} \subseteq {d} => d = c
    OBVIOUS
  <2> QED
    BY <2>1, <2>2, <2>3, <2>4 DEF Called
<1>4. ~call.named => Called(h, s, {c}, s)
  <2>1. ASSUME ~call.named PROVE SeenTools(s) = SeenTools(s) \cup {c}
    BY <2>1
  <2> QED
    BY <2>1 DEF Called
<1> HIDE DEF s3
<1>5. Called(h, s, {c}, opened) /\ opened.msgStarted
  BY <1>3, <1>4
<1> HIDE DEF opened
<1>6. CASE call.args = 0
  BY <1>2, <1>5, <1>6
<1>7. CASE call.args # 0
  <2>1. /\ opened \in Converters /\ Knows(h, opened, {}) /\ c \in SeenTools(opened)
    BY <1>5 DEF Called
  <2>2. IndexOf(opened, c) = opened.toolIdx[c]
    BY <2>1 DEF IndexOf, SeenTools
  <2>3. ArgsOf(c, call.args) \in Content /\ IndexOf(opened, c) \in Int
    BY <1>1, <2>1, IndexIs DEF ArgsOf, Content
  <2>4. BlockStart(opened.toolIdx[c], "tool", c) \in LiveBlocks(opened, {})
    BY <2>1 DEF LiveBlocks
  <2>5. Fits(BlockStart(opened.toolIdx[c], "tool", c), f)
    BY <2>2, FrameFields DEF Fits
  <2>6. Onward(h, opened, Emit(opened, f))
    BY <1>5, <2>1, <2>3, <2>4, <2>5, DeltaKnows
  <2>7. Called(h, opened, {}, Emit(opened, f)) /\ Emit(opened, f).msgStarted
    BY <2>6, CalledThen DEF Onward
  <2>8. Called(h, s, {c} \cup {}, Emit(opened, f))
    BY <1>5, <2>7, CalledThen
  <2>9. {c} \cup {} = {c}
    OBVIOUS
  <2> QED
    BY <1>2, <1>7, <2>7, <2>8, <2>9
<1> QED
  BY <1>6, <1>7

CallsOf(calls) == {calls[i].call : i \in DOMAIN calls}

\* Each of the calls is announced, or was.
Introduced(calls, seen) == \A i \in DOMAIN calls : calls[i].named \/ calls[i].call \in seen

\* The calls of one chunk.
LEMMA OnCallsKnows ==
  ASSUME NEW h \in Seq(Frame), NEW s \in Converters, s.msgStarted, Knows(h, s, {}),
         NEW calls \in Seq(CallParts), Introduced(calls, SeenTools(s))
  PROVE  Called(h, s, CallsOf(calls), OnCalls(s, calls))
<1> DEFINE F == CHOOSE f : IsRun(s, calls, f)
           n == Len(calls)
           Upto(i) == {calls[j].call : j \in 1..i}
<1>1. /\ n \in Nat /\ DOMAIN calls = 1..n /\ \A i \in 1..n : calls[i] \in CallParts
  OBVIOUS
<1>2. IsRun(s, calls, F)
  BY <1>1, RunExists
<1>3. OnCalls(s, calls) = F[n]
  BY DEF OnCalls, IsRun
<1> HIDE DEF F
<1>4. F[0] = s /\ \A i \in 1..n : F[i] = OnCall(F[i - 1], calls[i])
  <2> DEFINE G == F
  <2>1. F = [i \in 0..n |-> IF i = 0 THEN s ELSE OnCall(G[i - 1], calls[i])]
    BY <1>2 DEF IsRun
  <2> HIDE DEF G
  <2>2. F[0] = s /\ \A i \in 1..n : F[i] = OnCall(G[i - 1], calls[i])
    BY <1>1, <2>1
  <2> QED
    BY <2>2 DEF G
<1> HIDE DEF n
<1> DEFINE good == {i \in 0..n : Called(h, s, Upto(i), F[i]) /\ F[i].msgStarted}
<1>5. 0 \in good
  <2>1. Upto(0) = {} /\ 0 \in 0..n
    BY <1>1
  <2> QED
    BY <1>4, <2>1, CalledThen
<1>6. ASSUME NEW i \in 0..n, i \in good, i < n PROVE i + 1 \in good
  <2>1. i + 1 \in 1..n /\ i + 1 \in 0..n /\ (i + 1) - 1 = i
    BY <1>1, <1>6
  <2>2. Called(h, s, Upto(i), F[i]) /\ F[i].msgStarted
    BY <1>6
  <2> DEFINE x == calls[i + 1]
  <2>3. x \in CallParts /\ F[i + 1] = OnCall(F[i], x) /\ (x.named \/ x.call \in SeenTools(s))
    BY <1>1, <1>4, <2>1 DEF Introduced
  <2>4. Upto(i + 1) = Upto(i) \cup {x.call}
    <3>1. 1..(i + 1) = (1..i) \cup {i + 1}
      BY <1>1
    <3> QED
      BY <3>1
  <2> HIDE DEF Upto, x, good
  <2>5. F[i] \in Converters /\ Knows(h, F[i], {}) /\ (x.named \/ x.call \in SeenTools(F[i]))
    BY <2>2, <2>3 DEF Called
  <2>6. Called(h, F[i], {x.call}, F[i + 1]) /\ F[i + 1].msgStarted
    BY <2>2, <2>3, <2>5, OnCallKnows
  <2>7. Called(h, s, Upto(i) \cup {x.call}, F[i + 1])
    BY <2>2, <2>6, CalledThen
  <2> QED
    BY <2>1, <2>4, <2>6, <2>7 DEF good
<1> HIDE DEF good
<1>7. n \in good
  <2>1. 0..n \subseteq good
    BY <1>1, <1>5, <1>6, InductionUpTo
  <2> QED
    BY <1>1, <2>1
<1>8. Upto(n) = CallsOf(calls)
  BY <1>1 DEF CallsOf
<1> QED
  BY <1>3, <1>7, <1>8 DEF good

\* Nothing is open to contents any more, and the message has not ended yet.
Calm(g) == g \in Seq(Frame) /\ Talking(g) /\ AllOpened(g)

\* One frame more that is neither.
LEMMA CalmAppend ==
  ASSUME NEW g, NEW f \in Frame, Calm(g), f.type \notin {"message_start", "message_stop", "block_delta"}
  PROVE  Calm(Append(g, f))
<1>1. g \in Seq(Frame) /\ Talking(g) /\ Opens(g, {})
  BY DEF Calm, Opens
<1>2. Append(g, f) \in Seq(Frame) /\ Talking(Append(g, f))
  BY <1>1, HeadedAppend, AppendIs
<1>3. Survives({}, f, {})
  BY DEF Survives
<1>4. Opens(Append(g, f), {})
  BY <1>1, <1>3, OpensAppend
<1> QED
  BY <1>2, <1>4 DEF Calm, Opens

\* The message has ended with t, in which no block is left open that s could close.
Ends(h, s, t) ==
  /\ t \in Converters
  /\ All(h, t) \in Seq(Frame) /\ Ended(All(h, t)) /\ AllOpened(All(h, t))
  /\ \A c : Closes(h, s, c) /\ InTime(s, c) => \E top : Balanced(All(h, t), {}, top)

\* The end closes what is open, and ends the message.
LEMMA OnFinishEnds ==
  ASSUME NEW h \in Seq(Frame), NEW s \in Converters, Knows(h, s, {})
  PROVE  Ends(h, s, OnFinish(s))
<1> DEFINE t == CloseText(s)
           last == IF t.blockIndex > 0 THEN t.blockIndex - 1 ELSE 0
           e == Emit(t, BlockStop(last))
           u == [e EXCEPT !.toolOpen = FALSE]
           closed == IF t.toolOpen THEN u ELSE t
           w == Emit(closed, MessageDelta)
           z == Emit(w, MessageStop)
           g0 == All(h, s)
           g1 == IF s.blockStarted THEN Append(g0, BlockStop(s.blockIndex)) ELSE g0
           g2 == IF s.toolOpen THEN Append(g1, BlockStop(last)) ELSE g1
           g3 == Append(g2, MessageDelta)
           g4 == Append(g3, MessageStop)
           top == TopBlock(s)
<1>1. OnFinish(s) = z
  BY DEF OnFinish
<1>2. /\ t \in Converters /\ All(h, t) = g1
      /\ t.blockIndex = s.blockIndex /\ t.toolOpen = s.toolOpen
  BY CloseTextAll
<1>3. s.blockIndex \in Nat /\ last = IF s.blockIndex > 0 THEN s.blockIndex - 1 ELSE 0
  BY <1>2 DEF Knows, Indexed
<1>4. last \in Int /\ \A i \in Int : BlockStop(i) \in Frame
  BY <1>3, FramesAre
<1> HIDE DEF t, last
<1>5. closed \in Converters /\ All(h, closed) = g2
  <2>1. Emitted(h, t, BlockStop(last), e)
    BY <1>2, <1>4, EmitAll
  <2> HIDE DEF e
  <2>2. u \in Converters /\ u.parts = e.parts
    BY <2>1 DEF Emitted, Converters
  <2>3. All(h, u) = Append(g1, BlockStop(last))
    BY <1>2, <2>1, <2>2 DEF Emitted, All
  <2> HIDE DEF u, g1
  <2> QED
    BY <1>2, <2>2, <2>3
<1> HIDE DEF closed
<1>6. /\ MessageDelta \in Frame /\ MessageStop \in Frame
      /\ MessageDelta.type = "message_delta" /\ MessageStop.type = "message_stop"
  BY FramesAre, FrameFields
<1>7. z \in Converters /\ All(h, z) = g4
  <2> HIDE DEF g2
  <2>1. Emitted(h, closed, MessageDelta, w)
    BY <1>5, <1>6, EmitAll
  <2> HIDE DEF w
  <2>2. w \in Converters /\ All(h, w) = g3
    BY <1>5, <2>1 DEF Emitted
  <2>3. Emitted(h, w, MessageStop, z)
    BY <1>6, <2>2, EmitAll
  <2> HIDE DEF z, g3
  <2> QED
    BY <2>2, <2>3 DEF Emitted
<1> HIDE DEF z
<1>8. Calm(g0)
  <2>1. Emitted(h, s, MessageDelta, Emit(s, MessageDelta))
    BY <1>6, EmitAll
  <2> QED
    BY <2>1 DEF Emitted, Knows, Headed, Opens, Calm
<1>9. \A i \in Int : /\ BlockStop(i).type = "block_stop" /\ BlockStop(i).index = i
  BY FrameFields
<1>10. s.blockIndex \in Int
  BY <1>3
<1> HIDE DEF g0
<1>11. Calm(g1)
  BY <1>4, <1>8, <1>9, <1>10, CalmAppend
<1> HIDE DEF g1
<1>12. Calm(g2)
  BY <1>4, <1>9, <1>11, CalmAppend
<1> HIDE DEF g2
<1>13. Calm(g3)
  BY <1>6, <1>12, CalmAppend
<1> HIDE DEF g3
<1>14. g4 \in Seq(Frame) /\ Ended(g4) /\ AllOpened(g4)
  <2>1. g3 \in Seq(Frame) /\ Talking(g3) /\ Opens(g3, {})
    BY <1>13 DEF Calm, Opens
  <2>2. Survives({}, MessageStop, {})
    BY DEF Survives
  <2>3. Opens(g4, {})
    BY <1>6, <2>1, <2>2, OpensAppend
  <2> QED
    BY <1>6, <2>1, <2>3, HeadedAppend, AppendIs DEF Opens
<1>15. ASSUME NEW c, Closes(h, s, c), InTime(s, c) PROVE Balanced(g4, {}, top)
  <2> DEFINE tool == {b \in {s.toolIdx[c]} : s.toolOpen}
  <2>1. Balanced(g0, OpenBlocks(s, c), top)
    BY <1>15 DEF Closes, g0
  <2>2. /\ s.toolOpen => c \in SeenTools(s) /\ s.toolIdx[c] = s.blockIndex - 1
                         /\ s.toolIdx[c] \in 0..(s.blockIndex - 1)
    BY <1>15 DEF Closes, InTime, Knows, Indexed
  <2>3. s.toolOpen => s.toolIdx[c] # s.blockIndex /\ s.toolIdx[c] = last
    BY <1>3, <2>2
  <2> HIDE DEF top
  <2>4. Balanced(g1, tool, top)
    <3>1. CASE ~s.blockStarted
      <4>1. OpenBlocks(s, c) = tool
        BY <3>1 DEF OpenBlocks
      <4> QED
        BY <2>1, <3>1, <4>1 DEF g1
    <3>2. CASE s.blockStarted
      <4> DEFINE f == BlockStop(s.blockIndex)
                 open == OpenBlocks(s, c)
      <4>1. s.blockIndex \in open /\ tool = open \ {s.blockIndex}
        BY <2>3, <3>2 DEF OpenBlocks
      <4>2. f \in Frame /\ f.type = "block_stop" /\ f.index = s.blockIndex
        BY <1>4, <1>9, <1>10
      <4>3. g0 \in Seq(Frame)
        BY <1>8 DEF Calm
      <4>4. g1 = Append(g0, f)
        BY <3>2 DEF g1
      <4> HIDE DEF f, open, tool
      <4>5. Balanced(g0, open, top)
        BY <2>1 DEF open
      <4>6. Balanced(Append(g0, f), open \ {f.index}, top)
        BY <4>1, <4>2, <4>3, <4>5, BalancedStop
      <4> QED
        BY <4>1, <4>2, <4>4, <4>6
    <3> QED
      BY <3>1, <3>2
  <2>5. Balanced(g2, {}, top)
    <3>1. CASE ~s.toolOpen
      <4>1. tool = {}
        BY <3>1
      <4> QED
        BY <2>4, <3>1, <4>1 DEF g2
    <3>2. CASE s.toolOpen
      <4> DEFINE f == BlockStop(last)
      <4>1. tool = {last} /\ last \in tool /\ {} = tool \ {last}
        BY <2>3, <3>2
      <4>2. f \in Frame /\ f.type = "block_stop" /\ f.index = last
        BY <1>4, <1>9
      <4>3. g1 \in Seq(Frame)
        BY <1>11 DEF Calm
      <4>4. g2 = Append(g1, f)
        BY <3>2 DEF g2
      <4> HIDE DEF f, tool
      <4>5. Balanced(Append(g1, f), tool \ {f.index}, top)
        BY <2>4, <4>1, <4>2, <4>3, BalancedStop
      <4> QED
        BY <4>1, <4>2, <4>4, <4>5
    <3> QED
      BY <3>1, <3>2
  <2>6. Balanced(g3, {}, top)
    BY <1>6, <1>12, <2>5, BalancedSilent DEF Calm, g3, BlockFrames
  <2> QED
    BY <1>6, <1>13, <2>6, BalancedSilent DEF Calm, BlockFrames
<1> QED
  BY <1>1, <1>7, <1>14, <1>15 DEF Ends

\* A whole chunk: what it calls has been heard, and the message ends when it says so.
LEMMA ChunkKnows ==
  ASSUME NEW h \in Seq(Frame), NEW s \in Converters, Knows(h, s, {}),
         NEW role \in BOOLEAN, NEW n \in Nat, NEW calls \in Seq(CallParts), NEW finish \in BOOLEAN,
         Introduced(calls, SeenTools(s)),
         NEW t, t = OpenAIToAnthropic(s, Chunk(role, n, calls, finish))
  PROVE  \E r : /\ Called(h, s, CallsOf(calls), r)
                /\ IF finish THEN Ends(h, r, t) ELSE t = r
<1> DEFINE a == IF role THEN Started(s) ELSE s
           b == IF n # 0 THEN OnText(a, n) ELSE a
           r == IF calls # <<>> THEN OnCalls(Started(b), calls) ELSE b
<1>1. t = IF finish THEN OnFinish(r) ELSE r
  BY DEF OpenAIToAnthropic, Chunk
<1>2. \A x : x \in Converters /\ Knows(h, x, {}) => Called(h, x, {}, Started(x)) /\ Started(x).msgStarted
  <2>1. ASSUME NEW x, x \in Converters, Knows(h, x, {})
        PROVE  Onward(h, x, Started(x)) /\ Started(x).msgStarted
    BY <2>1, StartedKnows DEF Onward
  <2> QED
    BY <2>1, CalledThen
<1>3. Called(h, s, {}, a)
  BY <1>2, CalledThen
<1> HIDE DEF a
<1>4. Called(h, s, {} \cup {}, b)
  <2>1. a \in Converters /\ Knows(h, a, {})
    BY <1>3 DEF Called
  <2>2. Called(h, a, {}, OnText(a, n))
    BY <2>1, OnTextKnows, CalledThen
  <2>3. Called(h, a, {}, b)
    BY <2>1, <2>2, CalledThen
  <2> QED
    BY <1>3, <2>3, CalledThen
<1> HIDE DEF b
<1>5. Called(h, s, CallsOf(calls), r)
  <2>1. b \in Converters /\ Knows(h, b, {}) /\ SeenTools(b) = SeenTools(s) /\ {} \cup {} = {}
    BY <1>4 DEF Called
  <2>2. CASE calls = <<>>
    <3>1. CallsOf(calls) = {}
      BY <2>2 DEF CallsOf
    <3> QED
      BY <1>4, <2>1, <2>2, <3>1
  <2>3. CASE calls # <<>>
    <3> DEFINE d == Started(b)
    <3>1. Called(h, b, {}, d) /\ d.msgStarted
      BY <1>2, <2>1
    <3> HIDE DEF d
    <3>2. d \in Converters /\ Knows(h, d, {}) /\ SeenTools(d) = SeenTools(s)
      BY <2>1, <3>1 DEF Called
    <3>3. Called(h, d, CallsOf(calls), OnCalls(d, calls))
      BY <3>1, <3>2, OnCallsKnows
    <3>4. Called(h, s, {} \cup {}, d)
      BY <1>4, <2>1, <3>1, CalledThen
    <3>5. Called(h, s, {} \cup CallsOf(calls), OnCalls(d, calls))
      BY <2>1, <3>3, <3>4, CalledThen
    <3>6. {} \cup CallsOf(calls) = CallsOf(calls)
      OBVIOUS
    <3> QED
      BY <2>3, <3>5, <3>6 DEF d
  <2> QED
    BY <2>2, <2>3
<1> HIDE DEF r
<1>6. finish => Ends(h, r, t)
  <2>1. r \in Converters /\ Knows(h, r, {})
    BY <1>5 DEF Called
  <2> QED
    BY <1>1, <2>1, OnFinishEnds
<1> QED
  BY <1>1, <1>5, <1>6

----------------------------------------------------------------------------
(* What an Anthropic client has.                                             *)

\* Its frames, were the message to stop here; an answer that has ended and
\* called no tool but one has closed its blocks.
Proper(h, named) ==
  /\ Ended(h) /\ AllOpened(h)
  /\ \A c : named \subseteq {c} /\ (\E i \in 1..Len(h) : h[i].type = "message_stop") =>
              \E top : Balanced(h, {}, top)

\* The RAPI speaks OpenAI's protocol, and has not finished.
OpenAITalks ==
  /\ Knows(FramesOf(out), conv, {})
  /\ SeenTools(conv) = upstream.named
  /\ \A c : upstream.named \subseteq {c} => Closes(FramesOf(out), conv, c) /\ InTime(conv, c)

\* It speaks Anthropic's: what it has open.
RawOpen == {b \in {upstream.open} : b # NoContent}
RawLive == {BlockStart(b, upstream.kind, b) : b \in RawOpen}

AnthropicTalks ==
  /\ upstream.stage # "through" =>
       /\ Headed(FramesOf(out), upstream.stage # "begin")
       /\ Opens(FramesOf(out), RawLive)
       /\ Balanced(FramesOf(out), RawOpen, upstream.next)
  /\ upstream.stage # "talk" => upstream.open = NoContent
  /\ upstream.open # NoContent => upstream.kind \in {"text", "tool"}

AnthropicFrames ==
  client = "anthropic" /\ target # "gemini" =>
    /\ Proper(FramesOf(out), upstream.named)
    /\ Reading /\ target = "openai" /\ upstream.stage \in {"begin", "talk"} => OpenAITalks
    /\ Reading /\ target = "anthropic" => AnthropicTalks

\* What is heard: the converter's parts are put behind what the client has.
Hearing(frame, u, s) ==
  /\ s = Convert(conv, frame) /\ s \in Converters
  /\ conv' \in Converters /\ conv' = [s EXCEPT !.parts = <<>>]
  /\ FramesOf(out) \in Seq(Frame) /\ All(FramesOf(out), conv) = FramesOf(out)
  /\ FramesOf(out') = All(FramesOf(out), s) /\ All(FramesOf(out'), conv') = FramesOf(out')
  /\ FramesOf(out') \in Seq(Frame)
  /\ upstream' = u /\ attempt' = attempt /\ target' = target /\ client' = client

\* What is heard can be said of the frames alone.
LEMMA HearsFrames ==
  ASSUME StreamInv, NEW frame, NEW cs, NEW u, Sent(target, frame, cs), Hears(frame, cs, u)
  PROVE  \E s : Hearing(frame, u, s)
<1> DEFINE s == Convert(conv, frame)
           p == s.parts
           c == [s EXCEPT !.parts = <<>>]
<1>1. /\ attempt \in Nat /\ conv \in Converters /\ conv.parts = <<>> /\ out \in Seq(Received)
  BY DEF StreamInv, StreamTyped
<1>2. s \in Converters
  BY <1>1, ConvertTells DEF Tells
<1>3. /\ conv' = c /\ upstream' = u /\ attempt' = attempt /\ target' = target /\ client' = client
      /\ out' = out \o Stamped(s.parts, attempt)
  BY DEF Hears, Stamped
<1> HIDE DEF s
<1>4. c \in Converters /\ c.parts = <<>> /\ p \in Seq(Frame)
  <2>1. <<>> \in Seq(Frame)
    OBVIOUS
  <2> QED
    BY <1>2, <2>1 DEF Converters
<1>5. out' = out \o Stamped(p, attempt)
  BY <1>3
<1> HIDE DEF p, c
<1>6. /\ FramesOf(out) \in Seq(Frame) /\ FramesOf(out \o Stamped(p, attempt)) = FramesOf(out) \o p
  BY <1>1, <1>4, StampedIs
<1>7. FramesOf(out) \o p \in Seq(Frame) /\ \A g \in Seq(Frame) : g \o <<>> = g
  BY <1>4, <1>6, ConcatProperties, ConcatEmptySeq
<1>8. FramesOf(out') = FramesOf(out) \o p
  BY <1>5, <1>6
<1>9. Hearing(frame, u, s)
  <2>1. All(FramesOf(out), conv) = FramesOf(out) \o conv.parts
    BY DEF All
  <2>2. All(FramesOf(out'), conv') = FramesOf(out') \o conv'.parts
    BY DEF All
  <2>3. All(FramesOf(out), s) = FramesOf(out) \o p
    BY DEF All, p
  <2>4. conv' = [s EXCEPT !.parts = <<>>] /\ s = Convert(conv, frame)
    BY <1>3 DEF s, c
  <2>5. conv'.parts = <<>> /\ conv' \in Converters
    BY <1>3, <1>4
  <2>6. /\ FramesOf(out) \in Seq(Frame) /\ All(FramesOf(out), conv) = FramesOf(out)
        /\ FramesOf(out') = All(FramesOf(out), s) /\ All(FramesOf(out'), conv') = FramesOf(out')
        /\ FramesOf(out') \in Seq(Frame)
    BY <1>1, <1>6, <1>7, <1>8, <2>1, <2>2, <2>3, <2>5
  <2> QED
    BY <1>2, <1>3, <2>4, <2>5, <2>6 DEF Hearing
<1> QED
  BY <1>9

\* The fields after a chunk are those of its conversion.
LEMMA HearingKnows ==
  ASSUME NEW frame, NEW u, NEW s, Hearing(frame, u, s)
  PROVE  /\ SeenTools(conv)' = SeenTools(s)
         /\ Knows(FramesOf(out), s, {}) => Knows(FramesOf(out), conv, {})'
         /\ \A c : Closes(FramesOf(out), s, c) /\ InTime(s, c) =>
                     (Closes(FramesOf(out), conv, c) /\ InTime(conv, c))'
<1> DEFINE t == conv'
           h == FramesOf(out)
           g == FramesOf(out')
<1>1. /\ t.blockStarted = s.blockStarted /\ t.blockIndex = s.blockIndex /\ t.toolIdx = s.toolIdx
      /\ t.toolOpen = s.toolOpen /\ t.msgStarted = s.msgStarted
  BY DEF Hearing, Converters
<1>2. All(g, t) = All(h, s)
  BY DEF Hearing
<1>3. /\ SeenTools(conv)' = SeenTools(t) /\ Knows(FramesOf(out), conv, {})' = Knows(g, t, {})
      /\ \A c : (Closes(FramesOf(out), conv, c) /\ InTime(conv, c))' <=> (Closes(g, t, c) /\ InTime(t, c))
  BY DEF SeenTools, Knows, Closes, InTime, All, FramesOf, LiveBlocks, Indexed, OpenBlocks, TopBlock
<1> HIDE DEF t, h, g
<1>4. /\ SeenTools(t) = SeenTools(s) /\ LiveBlocks(t, {}) = LiveBlocks(s, {})
      /\ Indexed(s) => Indexed(t)
      /\ TopBlock(t) = TopBlock(s)
      /\ \A c : OpenBlocks(t, c) = OpenBlocks(s, c)
      /\ \A c : InTime(s, c) => InTime(t, c)
  BY <1>1, SameBlocks
<1>5. Knows(h, s, {}) => Knows(g, t, {})
  BY <1>1, <1>2, <1>4 DEF Knows
<1>6. \A c : Closes(h, s, c) /\ InTime(s, c) => Closes(g, t, c) /\ InTime(t, c)
  BY <1>1, <1>2, <1>4 DEF Closes
<1> QED
  BY <1>3, <1>4, <1>5, <1>6 DEF h

\* The calls of a chunk are announced in it, or were before.
LEMMA CallsKnown ==
  ASSUME NEW calls \in ToolCalls
  PROVE  Introduced(calls, upstream.named)
<1> DEFINE one == {CallAt(c, c, named, args) : c \in CallIdx, named \in BOOLEAN, args \in {0, Ordinal}}
           legal == {x \in one : (x.named \/ x.args # 0) /\ (x.named \/ x.call \in upstream.named)}
<1>1. calls \in InOneChunk(legal)
  BY DEF ToolCalls
<1>2. \A x \in legal : x.named \/ x.call \in upstream.named
  OBVIOUS
<1> HIDE DEF legal
<1>3. calls \in Seq(legal)
  BY <1>1, InOneChunkIs
<1>4. \A i \in DOMAIN calls : calls[i] \in legal
  BY <1>3
<1> QED
  BY <1>2, <1>4 DEF Introduced

\* A message that has not ended, and whose contents are in their blocks.
LEMMA TalkingProper ==
  ASSUME NEW h, NEW named, Talking(h), AllOpened(h)
  PROVE  Proper(h, named)
<1>1. Ended(h)
  BY TalkingEnded
<1>2. ~ \E i \in 1..Len(h) : h[i].type = "message_stop"
  BY DEF Talking
<1> QED
  BY <1>1, <1>2 DEF Proper

\* A chunk of an OpenAI upstream, for an Anthropic client.
LEMMA OpenAISendsFrames ==
  ASSUME StreamInv, AnthropicFrames, OpenAISends, client = "anthropic"
  PROVE  AnthropicFrames'
<1>1. PICK role \in Roles, finish \in BOOLEAN, text \in {0, Ordinal}, calls \in ToolCalls :
        Hears(Chunk(role, text, calls, finish), ContentsIn(text, calls),
              [upstream EXCEPT !.chunks = @ + 1,
                               !.stage = IF finish THEN "finished" ELSE "talk",
                               !.named = @ \cup {calls[i].call : i \in DOMAIN calls}])
  BY DEF OpenAISends
<1> DEFINE stage == IF finish THEN "finished" ELSE "talk"
           u == [upstream EXCEPT !.chunks = @ + 1, !.stage = stage,
                                 !.named = @ \cup {calls[i].call : i \in DOMAIN calls}]
           frame == Chunk(role, text, calls, finish)
           h == FramesOf(out)
<1>2. /\ target = "openai" /\ text \in Nat /\ role \in BOOLEAN /\ finish \in BOOLEAN
      /\ Reading /\ upstream.stage \in {"begin", "talk"}
  BY OrdinalIs DEF OpenAISends, Roles
<1>3. calls \in Seq(CallParts) /\ CallsOf(calls) = {calls[i].call : i \in DOMAIN calls}
  BY CallsAre DEF CallsOf
<1>4. Sent(target, frame, ContentsIn(text, calls))
  BY <1>2, <1>3 DEF Sent
<1>5. Hears(frame, ContentsIn(text, calls), u)
  BY <1>1
<1>6. upstream \in Upstreams /\ u.stage = stage /\ u.named = upstream.named \cup CallsOf(calls)
  BY <1>3, OrdinalIs DEF Upstreams
<1>7. frame.type = "chunk"
  BY DEF Chunk
<1> HIDE DEF frame, u
<1>8. PICK s : Hearing(frame, u, s)
  BY <1>4, <1>5, HearsFrames
<1>9. /\ h \in Seq(Frame) /\ FramesOf(out') = All(h, s) /\ upstream' = u /\ attempt' = attempt
      /\ target' = target /\ client' = client
  BY <1>8 DEF Hearing
<1>10. s = OpenAIToAnthropic(conv, frame)
  BY <1>2, <1>7, <1>8, ConvertCases DEF Hearing
<1>11. conv \in Converters /\ Knows(h, conv, {}) /\ SeenTools(conv) = upstream.named
       /\ \A c : upstream.named \subseteq {c} => Closes(h, conv, c) /\ InTime(conv, c)
  BY <1>2 DEF AnthropicFrames, OpenAITalks, StreamInv, StreamTyped
<1>12. Introduced(calls, SeenTools(conv))
  BY <1>11, CallsKnown
<1> HIDE DEF h
<1>13. PICK r : /\ Called(h, conv, CallsOf(calls), r)
                /\ IF finish THEN Ends(h, r, s) ELSE s = r
  <2> DEFINE v == conv
  <2>1. s = OpenAIToAnthropic(v, Chunk(role, text, calls, finish))
    BY <1>10 DEF frame
  <2>2. v \in Converters /\ Knows(h, v, {}) /\ Introduced(calls, SeenTools(v)) /\ h \in Seq(Frame)
    BY <1>9, <1>11, <1>12
  <2>3. role \in BOOLEAN /\ finish \in BOOLEAN /\ text \in Nat /\ calls \in Seq(CallParts)
    BY <1>2, <1>3
  <2> HIDE DEF v
  <2>4. \E r : /\ Called(h, v, CallsOf(calls), r)
               /\ IF finish THEN Ends(h, r, s) ELSE s = r
    BY <2>1, <2>2, <2>3, ChunkKnows
  <2> QED
    BY <2>4 DEF v
<1>14. \A c : u.named \subseteq {c} => Closes(h, r, c) /\ InTime(r, c)
  BY <1>6, <1>11, <1>13 DEF Called
<1>15. CASE finish
  <2>1. u.stage = "finished"
    BY <1>6, <1>15
  <2>2. Proper(All(h, s), u.named)
    BY <1>13, <1>14, <1>15 DEF Ends, Proper
  <2> QED
    BY <1>2, <1>9, <2>1, <2>2 DEF AnthropicFrames
<1>16. CASE ~finish
  <2>1. s = r /\ Knows(h, s, {}) /\ SeenTools(s) = u.named
    BY <1>6, <1>11, <1>13, <1>16 DEF Called
  <2>2. Talking(All(h, s)) /\ AllOpened(All(h, s))
    BY <2>1 DEF Knows, Headed, Opens
  <2>3. Proper(All(h, s), u.named)
    BY <2>2, TalkingProper
  <2>4. OpenAITalks'
    <3>1. SeenTools(conv)' = SeenTools(s) /\ Knows(h, conv, {})'
          /\ \A c : Closes(h, s, c) /\ InTime(s, c) => (Closes(h, conv, c) /\ InTime(conv, c))'
      BY <1>8, <2>1, HearingKnows DEF h
    <3>2. \A c : upstream'.named \subseteq {c} => Closes(h, s, c) /\ InTime(s, c)
      BY <1>9, <1>14, <2>1
    <3> QED
      BY <1>9, <2>1, <3>1, <3>2 DEF OpenAITalks, h
  <2> QED
    BY <1>2, <1>9, <2>3, <2>4 DEF AnthropicFrames
<1> QED
  BY <1>15, <1>16

\* The end of an OpenAI stream tells an Anthropic client nothing.
LEMMA OpenAIDoneFrames ==
  ASSUME StreamInv, AnthropicFrames, OpenAIDone, client = "anthropic"
  PROVE  AnthropicFrames'
<1> DEFINE u == [upstream EXCEPT !.stage = "through"]
<1>1. target = "openai" /\ Hears(DoneFrame, <<>>, u)
  BY DEF OpenAIDone
<1>2. Sent(target, DoneFrame, <<>>)
  BY <1>1 DEF Sent
<1>3. upstream \in Upstreams /\ u.stage = "through" /\ u.named = upstream.named
  BY OrdinalIs DEF Upstreams
<1> HIDE DEF u
<1>4. PICK s : Hearing(DoneFrame, u, s)
  BY <1>1, <1>2, HearsFrames
<1>5. s = conv
  BY <1>1, <1>4, ConvertCases DEF Hearing, DoneFrame
<1>6. /\ FramesOf(out') = FramesOf(out) /\ upstream' = u /\ target' = target /\ client' = client
  BY <1>4, <1>5 DEF Hearing
<1>7. Proper(FramesOf(out), upstream.named)
  BY <1>1 DEF AnthropicFrames
<1> QED
  BY <1>1, <1>3, <1>6, <1>7 DEF AnthropicFrames

\* What is heard of an Anthropic upstream is passed on to an Anthropic client.
Raw(frame, u) ==
  /\ frame \in Frame /\ FramesOf(out) \in Seq(Frame)
  /\ FramesOf(out') = Append(FramesOf(out), frame)
  /\ upstream' = u /\ attempt' = attempt /\ target' = "anthropic" /\ client' = client

\* Between the same protocols that is so.
LEMMA RawHears ==
  ASSUME StreamInv, client = "anthropic", target = "anthropic",
         NEW frame, NEW cs, NEW u, Sent(target, frame, cs), Hears(frame, cs, u)
  PROVE  Raw(frame, u)
<1>1. PICK s : Hearing(frame, u, s)
  BY HearsFrames
<1>2. frame \in Frame
  BY SentIs
<1>3. s = Emit(conv, frame)
  BY <1>1, ConvertCases DEF Hearing
<1>4. conv \in Converters /\ FramesOf(out) \in Seq(Frame)
  BY <1>1 DEF Hearing, StreamInv, StreamTyped
<1> DEFINE h == FramesOf(out)
           v == conv
<1>5. h \in Seq(Frame) /\ v \in Converters /\ s = Emit(v, frame)
  BY <1>3, <1>4
<1> HIDE DEF h, v
<1>6. All(h, s) = Append(All(h, v), frame)
  BY <1>2, <1>5, EmitAll DEF Emitted
<1> QED
  BY <1>1, <1>2, <1>4, <1>6 DEF Hearing, Raw, h, v

\* What the client has while the message goes on.
RawTalks(h, u) ==
  /\ Headed(h, TRUE)
  /\ Opens(h, {BlockStart(b, u.kind, b) : b \in {u.open} \ {NoContent}})
  /\ Balanced(h, {u.open} \ {NoContent}, u.next)
  /\ u.stage # "talk" => u.open = NoContent
  /\ u.open # NoContent => u.kind \in {"text", "tool"}

\* It is what the invariant says of it.
LEMMA RawTalking ==
  ASSUME client = "anthropic", target = "anthropic", AnthropicFrames
  PROVE  /\ Reading /\ upstream.stage \notin {"begin", "through"} => RawTalks(FramesOf(out), upstream)
         /\ Reading /\ upstream.stage # "talk" => upstream.open = NoContent
         /\ Reading /\ upstream.stage = "begin" =>
              /\ Headed(FramesOf(out), FALSE) /\ Opens(FramesOf(out), {})
              /\ Balanced(FramesOf(out), {}, upstream.next)
<1>1. Reading => AnthropicTalks
  BY DEF AnthropicFrames
<1>2. /\ RawOpen = {upstream.open} \ {NoContent}
      /\ RawLive = {BlockStart(b, upstream.kind, b) : b \in {upstream.open} \ {NoContent}}
  BY DEF RawOpen, RawLive
<1>3. upstream.open = NoContent => RawOpen = {} /\ RawLive = {}
  BY DEF RawOpen, RawLive
<1> QED
  BY <1>1, <1>2, <1>3 DEF AnthropicTalks, RawTalks

\* While the message goes on that is all there is to show.
LEMMA RawGoesOn ==
  ASSUME client = "anthropic", NEW frame, NEW u, Raw(frame, u), u.stage \in {"talk", "finished"},
         RawTalks(Append(FramesOf(out), frame), u)
  PROVE  AnthropicFrames'
<1> DEFINE g == FramesOf(out')
<1>1. RawTalks(g, u) /\ upstream' = u /\ target' = "anthropic" /\ client' = "anthropic"
  BY DEF Raw
<1>2. AnthropicTalks'
  <2>1. /\ RawOpen' = {u.open} \ {NoContent}
        /\ RawLive' = {BlockStart(b, u.kind, b) : b \in {u.open} \ {NoContent}}
    BY <1>1 DEF RawOpen, RawLive
  <2>2. FramesOf(out)' = g
    BY DEF FramesOf
  <2> HIDE DEF g
  <2> QED
    BY <1>1, <2>1, <2>2 DEF AnthropicTalks, RawTalks
<1>3. Proper(g, u.named)
  BY <1>1, TalkingProper DEF RawTalks, Headed, Opens
<1> QED
  BY <1>1, <1>2, <1>3 DEF AnthropicFrames, FramesOf

\* The envelope of a message.
LEMMA EnvelopeFrames ==
  ASSUME StreamInv, AnthropicFrames, AnthropicEnvelope, client = "anthropic"
  PROVE  AnthropicFrames'
<1> DEFINE h == FramesOf(out)
<1>1. /\ target = "anthropic" /\ Reading /\ upstream \in Upstreams
      /\ \A frame \in {MessageStart, MessageDelta, MessageStop} : Sent(target, frame, <<>>)
  BY OrdinalIs DEF AnthropicEnvelope, Sent
<1>2. ASSUME NEW frame \in {MessageStart, MessageDelta, MessageStop}, NEW u, Hears(frame, <<>>, u)
      PROVE  Raw(frame, u) /\ frame \in Frame /\ h \in Seq(Frame)
  BY <1>1, <1>2, RawHears DEF Raw
<1>3. /\ MessageStart.type = "message_start" /\ MessageDelta.type = "message_delta"
      /\ MessageStop.type = "message_stop"
  BY FrameFields
<1>4. ASSUME NEW frame \in Frame, h \in Seq(Frame), NEW live, NEW open, NEW top,
             Opens(h, live), Balanced(h, open, top),
             frame.type \in {"message_start", "message_delta", "message_stop"}
      PROVE  Opens(Append(h, frame), live) /\ Balanced(Append(h, frame), open, top)
  <2>1. frame.type \notin BlockFrames /\ frame.type # "block_delta"
    BY <1>4 DEF BlockFrames
  <2> HIDE DEF h
  <2> QED
    BY <1>4, <2>1, OpensSilent, BalancedSilent
<1>5. CASE upstream.stage = "begin" /\ Hears(MessageStart, <<>>, [upstream EXCEPT !.stage = "talk"])
  <2> DEFINE u == [upstream EXCEPT !.stage = "talk"]
  <2>1. u.stage = "talk" /\ u.open = NoContent /\ u.next = upstream.next
    BY <1>1, <1>5, RawTalking DEF Upstreams
  <2>2. Raw(MessageStart, u) /\ MessageStart \in Frame /\ h \in Seq(Frame)
    BY <1>2, <1>5
  <2>3. Headed(h, FALSE) /\ Opens(h, {}) /\ Balanced(h, {}, upstream.next)
    BY <1>1, <1>5, RawTalking
  <2> HIDE DEF u
  <2>4. Opens(Append(h, MessageStart), {}) /\ Balanced(Append(h, MessageStart), {}, upstream.next)
    BY <1>3, <1>4, <2>2, <2>3
  <2>5. Headed(Append(h, MessageStart), TRUE)
    <3> HIDE DEF h
    <3> QED
      BY <1>3, <2>2, <2>3, HeadedAppend
  <2>6. {u.open} \ {NoContent} = {} /\ {BlockStart(b, u.kind, b) : b \in {u.open} \ {NoContent}} = {}
    BY <2>1
  <2>7. RawTalks(Append(h, MessageStart), u)
    BY <2>1, <2>4, <2>5, <2>6 DEF RawTalks
  <2> QED
    BY <2>1, <2>2, <2>7, RawGoesOn
<1>6. CASE /\ upstream.stage = "talk" /\ upstream.open = NoContent
           /\ Hears(MessageDelta, <<>>, [upstream EXCEPT !.stage = "finished"])
  <2> DEFINE u == [upstream EXCEPT !.stage = "finished"]
  <2>1. u.stage = "finished" /\ u.open = NoContent /\ u.next = upstream.next
    BY <1>1, <1>6 DEF Upstreams
  <2>2. Raw(MessageDelta, u) /\ MessageDelta \in Frame /\ h \in Seq(Frame)
    BY <1>2, <1>6
  <2>3. RawTalks(h, upstream) /\ upstream.open = NoContent
    BY <1>1, <1>6, RawTalking
  <2> HIDE DEF u
  <2>4. Headed(h, TRUE) /\ Opens(h, {}) /\ Balanced(h, {}, upstream.next)
    BY <2>3 DEF RawTalks, Opens
  <2>5. Opens(Append(h, MessageDelta), {}) /\ Balanced(Append(h, MessageDelta), {}, upstream.next)
    BY <1>3, <1>4, <2>2, <2>4
  <2>6. Headed(Append(h, MessageDelta), TRUE)
    <3> HIDE DEF h
    <3> QED
      BY <1>3, <2>2, <2>4, HeadedAppend
  <2>7. {u.open} \ {NoContent} = {} /\ {BlockStart(b, u.kind, b) : b \in {u.open} \ {NoContent}} = {}
    BY <2>1
  <2>8. RawTalks(Append(h, MessageDelta), u)
    BY <2>1, <2>5, <2>6, <2>7 DEF RawTalks
  <2> QED
    BY <2>1, <2>2, <2>8, RawGoesOn
<1>7. CASE upstream.stage = "finished" /\ Hears(MessageStop, <<>>, [upstream EXCEPT !.stage = "through"])
  <2> DEFINE u == [upstream EXCEPT !.stage = "through"]
             g == Append(h, MessageStop)
  <2>1. u.stage = "through" /\ u.open = upstream.open
    BY <1>1, <1>7 DEF Upstreams
  <2>2. Raw(MessageStop, u) /\ MessageStop \in Frame /\ h \in Seq(Frame)
    BY <1>2, <1>7
  <2>3. RawTalks(h, upstream) /\ upstream.open = NoContent
    BY <1>1, <1>7, RawTalking
  <2> HIDE DEF u
  <2>4. Headed(h, TRUE) /\ Opens(h, {}) /\ Balanced(h, {}, upstream.next)
    BY <2>3 DEF RawTalks, Opens
  <2>5. Opens(g, {}) /\ Balanced(g, {}, upstream.next)
    BY <1>3, <1>4, <2>2, <2>4
  <2>6. Ended(g)
    <3> HIDE DEF h
    <3> QED
      BY <1>3, <2>2, <2>4, HeadedAppend DEF Headed
  <2>7. Proper(g, u.named)
    BY <2>5, <2>6 DEF Proper, Opens
  <2>8. FramesOf(out)' = g /\ upstream' = u /\ target' = "anthropic"
    BY <2>2 DEF Raw, FramesOf
  <2>9. AnthropicTalks'
    BY <2>1, <2>3, <2>8 DEF AnthropicTalks
  <2> QED
    BY <2>7, <2>8, <2>9 DEF AnthropicFrames
<1> QED
  BY <1>5, <1>6, <1>7 DEF AnthropicEnvelope

\* The blocks of an upstream that has one open.
LEMMA RawBlocks ==
  ASSUME NEW h, NEW u, u.open # NoContent
  PROVE  RawTalks(h, u) <=> /\ Headed(h, TRUE) /\ Opens(h, {BlockStart(u.open, u.kind, u.open)})
                            /\ Balanced(h, {u.open}, u.next)
                            /\ u.stage = "talk" /\ u.kind \in {"text", "tool"}
<1>1. /\ {u.open} \ {NoContent} = {u.open}
      /\ {BlockStart(b, u.kind, b) : b \in {u.open} \ {NoContent}} = {BlockStart(u.open, u.kind, u.open)}
  OBVIOUS
<1> QED
  BY <1>1 DEF RawTalks

\* And of one that has none.
LEMMA NoRawBlocks ==
  ASSUME NEW h, NEW u, u.open = NoContent
  PROVE  RawTalks(h, u) <=> Headed(h, TRUE) /\ Opens(h, {}) /\ Balanced(h, {}, u.next)
<1>1. /\ {u.open} \ {NoContent} = {}
      /\ {BlockStart(b, u.kind, b) : b \in {u.open} \ {NoContent}} = {}
  OBVIOUS
<1> QED
  BY <1>1 DEF RawTalks

\* The start of a block.
LEMMA AnthropicOpensFrames ==
  ASSUME StreamInv, AnthropicFrames, AnthropicOpens, client = "anthropic"
  PROVE  AnthropicFrames'
<1> DEFINE h == FramesOf(out)
<1>1. target = "anthropic" /\ Reading /\ upstream \in Upstreams /\ upstream.stage = "talk"
  BY OrdinalIs DEF AnthropicOpens
<1>2. RawTalks(h, upstream)
  BY <1>1, RawTalking
<1>3. CASE /\ upstream.open = NoContent /\ upstream.next \in CallIdx
           /\ \E kind \in {"text", "tool"} :
                Hears(BlockStart(upstream.next, kind, upstream.next), <<>>,
                      [upstream EXCEPT !.chunks = @ + 1, !.kind = kind,
                                       !.open = upstream.next, !.next = @ + 1])
  <2> DEFINE n == upstream.next
  <2>1. PICK kind \in {"text", "tool"} :
          Hears(BlockStart(n, kind, n), <<>>,
                [upstream EXCEPT !.chunks = @ + 1, !.kind = kind, !.open = n, !.next = @ + 1])
    BY <1>3
  <2> DEFINE u == [upstream EXCEPT !.chunks = @ + 1, !.kind = kind, !.open = n, !.next = @ + 1]
             f == BlockStart(n, kind, n)
  <2>2. /\ n \in CallIdx /\ n \in Int /\ n # NoContent
        /\ u.stage = "talk" /\ u.kind = kind /\ u.open = n /\ u.next = n + 1
    BY <1>1, <1>3, IndexIs DEF Upstreams, NoContent, NotSeen
  <2>3. Sent(target, f, <<>>)
    BY <1>1, <2>2 DEF Sent
  <2>4. Raw(f, u)
    BY <1>1, <2>1, <2>3, RawHears
  <2>5. f.type = "block_start" /\ f.index = n
    BY FrameFields
  <2>6. Headed(h, TRUE) /\ Opens(h, {}) /\ Balanced(h, {}, n)
    BY <1>2, <1>3, NoRawBlocks
  <2> HIDE DEF u, f, n
  <2>7. h \in Seq(Frame) /\ f \in Frame
    BY <2>4 DEF Raw
  <2> HIDE DEF h
  <2>8. Headed(Append(h, f), TRUE)
    BY <2>5, <2>6, <2>7, HeadedAppend
  <2>9. Survives({}, f, {f})
    BY <2>5 DEF Survives
  <2>10. Opens(Append(h, f), {f})
    BY <2>5, <2>6, <2>7, <2>9, OpensAppend
  <2>11. Balanced(Append(h, f), {n}, n + 1)
    <3>1. \A i \in 1..Len(h) : h[i].type \in BlockFrames => h[i].index \in Int
      BY <2>7, BlockIndices
    <3>2. Balanced(Append(h, f), {} \cup {n}, n + 1)
      BY <2>2, <2>5, <2>6, <2>7, <3>1, BalancedStart
    <3>3. {} \cup {n} = {n}
      OBVIOUS
    <3> QED
      BY <3>2, <3>3
  <2>12. RawTalks(Append(h, f), u)
    BY <2>2, <2>8, <2>10, <2>11, RawBlocks DEF f
  <2> QED
    BY <2>2, <2>4, <2>12, RawGoesOn DEF h
<1>4. CASE /\ upstream.open # NoContent /\ upstream.kind = "tool"
           /\ Hears(BlockStart(upstream.open, "tool", upstream.open), <<>>,
                    [upstream EXCEPT !.chunks = @ + 1])
  <2> DEFINE u == [upstream EXCEPT !.chunks = @ + 1]
             b == upstream.open
             f == BlockStart(b, "tool", b)
             n == upstream.next
  <2>1. /\ b \in CallIdx /\ b \in Int /\ b # NoContent /\ n \in Int
        /\ u.stage = "talk" /\ u.kind = "tool" /\ u.open = b /\ u.next = n
    BY <1>1, <1>4, IndexIs DEF Upstreams
  <2>2. Sent(target, f, <<>>)
    BY <1>1, <2>1 DEF Sent
  <2>3. Raw(f, u)
    BY <1>1, <1>4, <2>2, RawHears
  <2>4. f.type = "block_start" /\ f.index = b
    BY FrameFields
  <2>5. Headed(h, TRUE) /\ Opens(h, {f}) /\ Balanced(h, {b}, n)
    BY <1>2, <1>4, RawBlocks
  <2> HIDE DEF u, f, n, b
  <2>6. h \in Seq(Frame) /\ f \in Frame
    BY <2>3 DEF Raw
  <2> HIDE DEF h
  <2>7. Headed(Append(h, f), TRUE)
    BY <2>4, <2>5, <2>6, HeadedAppend
  <2>8. Survives({f}, f, {f})
    BY <2>4 DEF Survives
  <2>9. Opens(Append(h, f), {f})
    BY <2>4, <2>5, <2>6, <2>8, OpensAppend
  <2>10. Balanced(Append(h, f), {b}, n)
    <3>1. \A i \in 1..Len(h) : h[i].type \in BlockFrames => h[i].index \in Int
      BY <2>6, BlockIndices
    <3> QED
      BY <2>1, <2>4, <2>5, <2>6, <3>1, BalancedStart
  <2>11. RawTalks(Append(h, f), u)
    BY <2>1, <2>7, <2>9, <2>10, RawBlocks DEF f
  <2> QED
    BY <2>1, <2>3, <2>11, RawGoesOn DEF h
<1> QED
  BY <1>3, <1>4 DEF AnthropicOpens

\* A delta goes into the open block, and its stop closes it.
LEMMA AnthropicSendsFrames ==
  ASSUME StreamInv, AnthropicFrames, AnthropicSends, client = "anthropic"
  PROVE  AnthropicFrames'
<1> DEFINE h == FramesOf(out)
           b == upstream.open
           n == upstream.next
           kind == upstream.kind
           start == BlockStart(b, kind, b)
<1>1. /\ target = "anthropic" /\ Reading /\ upstream \in Upstreams /\ upstream.stage = "talk"
      /\ b # NoContent /\ b \in CallIdx /\ Ordinal \in Nat \ {0}
  BY OrdinalIs DEF AnthropicSends, Upstreams
<1>2. /\ Headed(h, TRUE) /\ Opens(h, {start}) /\ Balanced(h, {b}, n) /\ kind \in {"text", "tool"}
  <2>1. RawTalks(h, upstream)
    BY <1>1, RawTalking
  <2> HIDE DEF h
  <2> QED
    BY <1>1, <2>1, RawBlocks
<1>3. ASSUME NEW content, content = IF kind = "text" THEN TextOf(Ordinal) ELSE ArgsOf(b, Ordinal),
             Hears(Delta(b, content), <<content>>, [upstream EXCEPT !.chunks = @ + 1])
      PROVE  AnthropicFrames'
  <2> DEFINE u == [upstream EXCEPT !.chunks = @ + 1]
             f == Delta(b, content)
  <2>1. /\ u.stage = "talk" /\ u.kind = kind /\ u.open = b /\ u.next = n
    BY <1>1 DEF Upstreams
  <2>2. Sent(target, f, <<content>>)
    <3>1. content \in {TextOf(Ordinal), ArgsOf(b, Ordinal)}
      BY <1>3
    <3> QED
      BY <1>1, <3>1 DEF Sent
  <2>3. Raw(f, u)
    BY <1>1, <1>3, <2>2, RawHears
  <2>4. f.type = "block_delta" /\ Fits(start, f)
    <3>1. /\ f.type = "block_delta" /\ f.index = b /\ f.content = content
          /\ start.index = b /\ start.kind = kind /\ start.call = b
      BY FrameFields
    <3>2. kind = "text" => content.kind = "text"
      BY <1>3, FrameFields
    <3>3. kind # "text" => content.kind = "args" /\ content.call = b
      BY <1>3, FrameFields
    <3> QED
      BY <3>1, <3>2, <3>3 DEF Fits
  <2> HIDE DEF u, f, n, start, kind
  <2>5. h \in Seq(Frame) /\ f \in Frame /\ f.type \notin BlockFrames
    BY <2>3, <2>4 DEF Raw, BlockFrames
  <2> HIDE DEF h, b
  <2>6. Headed(Append(h, f), TRUE)
    BY <1>2, <2>4, <2>5, HeadedAppend
  <2>7. Survives({start}, f, {start})
    BY <2>5 DEF Survives
  <2>8. Opens(Append(h, f), {start})
    BY <1>2, <2>4, <2>5, <2>7, OpensAppend
  <2>9. Balanced(Append(h, f), {b}, n)
    BY <1>2, <2>5, BalancedSilent
  <2>10. RawTalks(Append(h, f), u)
    BY <1>1, <1>2, <2>1, <2>6, <2>8, <2>9, RawBlocks DEF start
  <2> QED
    BY <2>1, <2>3, <2>10, RawGoesOn DEF h
<1>4. CASE Hears(BlockStop(b), <<>>, [upstream EXCEPT !.open = NoContent])
  <2> DEFINE u == [upstream EXCEPT !.open = NoContent]
             f == BlockStop(b)
  <2>1. u.stage = "talk" /\ u.open = NoContent /\ u.next = n
    BY <1>1 DEF Upstreams
  <2>2. Sent(target, f, <<>>)
    BY <1>1 DEF Sent
  <2>3. Raw(f, u)
    BY <1>1, <1>4, <2>2, RawHears
  <2>4. f.type = "block_stop" /\ f.index = b
    BY FrameFields
  <2> HIDE DEF u, f, n, start, kind
  <2>5. h \in Seq(Frame) /\ f \in Frame
    BY <2>3 DEF Raw
  <2> HIDE DEF h, b
  <2>6. Headed(Append(h, f), TRUE)
    BY <1>2, <2>4, <2>5, HeadedAppend
  <2>7. Survives({start}, f, {})
    BY DEF Survives
  <2>8. Opens(Append(h, f), {})
    BY <1>2, <2>4, <2>5, <2>7, OpensAppend
  <2>9. Balanced(Append(h, f), {}, n)
    <3>1. Balanced(Append(h, f), {b} \ {f.index}, n)
      BY <1>2, <2>4, <2>5, BalancedStop
    <3>2. {b} \ {f.index} = {}
      BY <2>4
    <3> QED
      BY <3>1, <3>2
  <2>10. RawTalks(Append(h, f), u)
    BY <2>1, <2>6, <2>8, <2>9, NoRawBlocks
  <2> QED
    BY <2>1, <2>3, <2>10, RawGoesOn DEF h
<1> QED
  BY <1>3, <1>4 DEF AnthropicSends

\* A stream of which nothing has come.
Untouched == out = <<>> /\ conv = NewConverter /\ upstream = NewUpstream

\* Its client has no frame, and nothing is open.
LEMMA NoFrames ==
  /\ <<>> \in Seq(Frame) /\ Len(<<>>) = 0
  /\ Headed(<<>>, FALSE) /\ Opens(<<>>, {}) /\ \A n : Balanced(<<>>, {}, n)
<1>1. <<>> \in Seq(Frame) /\ Len(<<>>) = 0 /\ 1..0 = {}
  OBVIOUS
<1> QED
  BY <1>1 DEF Headed, Talking, Opens, AllOpened, Balanced

\* So the invariant holds of it.
LEMMA UntouchedFrames == Untouched => AnthropicFrames
<1> SUFFICES ASSUME Untouched PROVE AnthropicFrames
  OBVIOUS
<1> DEFINE h == FramesOf(out)
<1>1. h = <<>>
  BY DEF Untouched, FramesOf
<1>2. /\ conv.msgStarted = FALSE /\ conv.blockStarted = FALSE /\ conv.blockIndex = 0
      /\ conv.toolOpen = FALSE /\ conv.parts = <<>> /\ SeenTools(conv) = {}
  BY DEF Untouched, NewConverter, SeenTools
<1>3. /\ upstream.stage = "begin" /\ upstream.open = NoContent /\ upstream.named = {}
  BY DEF Untouched, NewUpstream
<1>4. All(h, conv) = <<>>
  BY <1>1, <1>2 DEF All
<1> HIDE DEF h
<1>5. Headed(<<>>, FALSE) /\ Opens(<<>>, {}) /\ \A n : Balanced(<<>>, {}, n)
  BY NoFrames
<1>6. OpenAITalks
  <2>1. LiveBlocks(conv, {}) = {}
    BY <1>2 DEF LiveBlocks
  <2>2. Indexed(conv)
    BY <1>2 DEF Indexed
  <2>3. Knows(h, conv, {})
    BY <1>2, <1>4, <1>5, <2>1, <2>2 DEF Knows
  <2>4. \A c : OpenBlocks(conv, c) = {}
    BY <1>2 DEF OpenBlocks
  <2>5. \A c : Closes(h, conv, c) /\ InTime(conv, c)
    BY <1>2, <1>4, <1>5, <2>4 DEF Closes, InTime
  <2> QED
    BY <1>2, <1>3, <2>3, <2>5 DEF OpenAITalks, h
<1>7. AnthropicTalks
  <2>1. RawOpen = {} /\ RawLive = {}
    BY <1>3 DEF RawOpen, RawLive
  <2> QED
    BY <1>1, <1>3, <1>5, <2>1 DEF AnthropicTalks, h
<1>8. Proper(h, upstream.named)
  BY <1>1, <1>5, TalkingProper DEF Headed, Opens
<1> QED
  BY <1>6, <1>7, <1>8 DEF AnthropicFrames, h

\* The end of a stream.
LEMMA EndsFrames ==
  ASSUME StreamInv, AnthropicFrames, StreamEnds
  PROVE  AnthropicFrames'
<1>1. ~Committed => out = <<>>
  BY DEF Committed, StreamInv, OwnAttempt, StreamTyped
<1>2. CASE Untouched'
  BY <1>2, UntouchedFrames, PTL
<1>3. CASE out = <<>> /\ attempt' = 0 /\ out' = <<[by |-> 0, frame |-> ErrorFrame]>>
  <2> DEFINE g == Append(<<>>, ErrorFrame)
             e == <<>>
  <2>1. FramesOf(out)' = g
    BY <1>3 DEF FramesOf
  <2>2. ErrorFrame \in Frame /\ ErrorFrame.type = "error"
    BY FramesAre DEF ErrorFrame
  <2>3. e \in Seq(Frame) /\ Talking(e) /\ Opens(e, {}) /\ g = Append(e, ErrorFrame)
    BY NoFrames DEF Headed
  <2> HIDE DEF e
  <2>4. Talking(g) /\ Opens(g, {})
    BY <2>2, <2>3, HeadedAppend, OpensSilent DEF BlockFrames
  <2> HIDE DEF g
  <2>5. Proper(g, upstream'.named)
    BY <2>4, TalkingProper DEF Opens
  <2>6. ~Reading'
    BY <1>3 DEF Reading
  <2>7. Proper(FramesOf(out), upstream.named)'
    BY <2>1, <2>5 DEF Proper, FramesOf
  <2> QED
    BY <2>6, <2>7 DEF AnthropicFrames
<1>4. Untouched' \/ (out = <<>> /\ attempt' = 0 /\ out' = <<[by |-> 0, frame |-> ErrorFrame]>>)
  <2>1. \A x : Append(<<>>, x) = <<x>>
    OBVIOUS
  <2>2. \/ out' = <<>> /\ upstream' = NewUpstream /\ conv' = NewConverter
        \/ out = <<>> /\ attempt' = 0 /\ out' = Append(<<>>, [by |-> 0, frame |-> ErrorFrame])
    BY <1>1, Zenon DEF StreamEnds
  <2> QED
    BY <2>1, <2>2 DEF Untouched
<1> QED
  BY <1>2, <1>3, <1>4

\* Every step keeps it.
LEMMA FramesStep == StreamInv /\ AnthropicFrames /\ [StreamNext]_streamVars => AnthropicFrames'
<1> SUFFICES ASSUME StreamInv, AnthropicFrames, [StreamNext]_streamVars PROVE AnthropicFrames'
  OBVIOUS
<1>1. CASE client # "anthropic"
  <2>1. client' = client
    BY DEF StreamNext, OpenAISends, OpenAIDone, AnthropicEnvelope, AnthropicOpens, AnthropicSends,
           GeminiSends, StreamEnds, Hears, streamVars
  <2> QED
    BY <1>1, <2>1 DEF AnthropicFrames
<1>2. CASE client = "anthropic"
  <2>1. CASE OpenAISends
    BY <1>2, <2>1, OpenAISendsFrames
  <2>2. CASE OpenAIDone
    BY <1>2, <2>2, OpenAIDoneFrames
  <2>3. CASE AnthropicEnvelope
    BY <1>2, <2>3, EnvelopeFrames
  <2>4. CASE AnthropicOpens
    BY <1>2, <2>4, AnthropicOpensFrames
  <2>5. CASE AnthropicSends
    BY <1>2, <2>5, AnthropicSendsFrames
  <2>6. CASE GeminiSends
    <3>1. target' = "gemini"
      BY <2>6 DEF GeminiSends, Hears
    <3> QED
      BY <3>1 DEF AnthropicFrames
  <2>7. CASE StreamEnds
    BY <2>7, EndsFrames
  <2>8. CASE UNCHANGED streamVars
    BY <2>8 DEF streamVars, AnthropicFrames, OpenAITalks, AnthropicTalks, RawOpen, RawLive, Reading,
                FramesOf, Knows, SeenTools, Closes, InTime, All, LiveBlocks, Indexed, OpenBlocks, TopBlock
  <2> QED
    BY <2>1, <2>2, <2>3, <2>4, <2>5, <2>6, <2>7, <2>8 DEF StreamNext
<1> QED
  BY <1>1, <1>2

\* An Anthropic client's frames, of every stream.
LEMMA FramesInvariant == StreamSpec => []AnthropicFrames
<1>1. StreamInit => AnthropicFrames
  BY UntouchedFrames DEF StreamInit, Untouched
<1> QED
  BY <1>1, FramesStep, StreamInvariant, PTL DEF StreamSpec

----------------------------------------------------------------------------
(* The calls an OpenAI client files under their indices.                     *)

CallsOfFrame(f) == IF f.type = "chunk" THEN f.calls ELSE <<>>
CallsOfEach(h) == [i \in DOMAIN h |-> CallsOfFrame(h[i])]
CallsIn(h) == FlattenSeq(CallsOfEach(h))

\* The calls of frames are calls.
LEMMA CallsOfEachIs ==
  ASSUME NEW h \in Seq(Frame)
  PROVE  CallsOfEach(h) \in Seq(Seq(CallParts)) /\ CallsIn(h) \in Seq(CallParts)
<1>1. DOMAIN h = 1..Len(h) /\ Len(h) \in Nat /\ \A i \in 1..Len(h) : h[i] \in Frame
  OBVIOUS
<1>2. \A f \in Frame : CallsOfFrame(f) \in Seq(CallParts)
  <2>1. <<>> \in Seq(CallParts)
    OBVIOUS
  <2>2. \A f \in Frame : f.type = "chunk" => f.calls \in Seq(CallParts)
    BY DEF Frame
  <2> QED
    BY <2>1, <2>2 DEF CallsOfFrame
<1>3. CallsOfEach(h) \in Seq(Seq(CallParts))
  BY <1>1, <1>2 DEF CallsOfEach
<1> QED
  BY <1>3, FlatType DEF CallsIn

\* One frame more.
LEMMA CallsInAppend ==
  ASSUME NEW h \in Seq(Frame), NEW f \in Frame
  PROVE  CallsIn(Append(h, f)) = CallsIn(h) \o CallsOfFrame(f)
<1> DEFINE S == Seq(CallParts)
           a == CallsOfEach(h)
           b == <<CallsOfFrame(f)>>
           c == CallsOfEach(Append(h, f))
           n == Len(h)
<1>1. a \in Seq(S) /\ CallsOfFrame(f) \in S /\ c \in Seq(S)
  <2>1. Append(h, f) \in Seq(Frame)
    OBVIOUS
  <2>2. <<f>> \in Seq(Frame)
    OBVIOUS
  <2>3. CallsOfEach(<<f>>) \in Seq(S)
    BY <2>2, CallsOfEachIs
  <2>4. 1 \in DOMAIN CallsOfEach(<<f>>) /\ CallsOfEach(<<f>>)[1] = CallsOfFrame(f)
    BY <2>2 DEF CallsOfEach
  <2> HIDE DEF S
  <2>5. CallsOfFrame(f) \in S
    BY <2>3, <2>4
  <2> QED
    BY <2>1, <2>5, CallsOfEachIs DEF S
<1>2. /\ n \in Nat /\ Append(h, f) \in Seq(Frame) /\ Len(Append(h, f)) = n + 1
      /\ \A i \in 1..n : Append(h, f)[i] = h[i] /\ i \in 1..(n + 1)
      /\ Append(h, f)[n + 1] = f
  <2> HIDE DEF n
  <2> QED
    BY AppendIs DEF n
<1>3. Len(a) = n /\ Len(c) = n + 1
  <2>1. DOMAIN a = 1..n /\ DOMAIN c = 1..(n + 1)
    BY <1>2 DEF CallsOfEach
  <2> HIDE DEF a, c, n, S
  <2> QED
    BY <1>1, <1>2, <2>1
<1>4. /\ \A i \in 1..n : c[i] = a[i]
      /\ c[n + 1] = CallsOfFrame(f)
  <2>1. \A i \in 1..(n + 1) : c[i] = CallsOfFrame(Append(h, f)[i])
    BY <1>2 DEF CallsOfEach
  <2>2. \A i \in 1..n : a[i] = CallsOfFrame(h[i])
    BY DEF CallsOfEach
  <2>3. n + 1 \in 1..(n + 1)
    BY <1>2
  <2> HIDE DEF a, c, n
  <2> QED
    BY <1>2, <2>1, <2>2, <2>3
<1> HIDE DEF S, a, c, n
<1>5. b \in Seq(S) /\ c = a \o b
  <2>1. b \in Seq(S)
    BY <1>1
  <2>2. Append(a, CallsOfFrame(f)) = a \o b
    BY <1>1, AppendIsConcat
  <2>3. c = Append(a, CallsOfFrame(f))
    <3> DEFINE x == CallsOfFrame(f)
               d == Append(a, x)
    <3> HIDE DEF x
    <3>1. /\ d \in Seq(S) /\ Len(d) = n + 1
          /\ \A i \in 1..n : d[i] = a[i]
          /\ d[n + 1] = x
      BY <1>1, <1>2, <1>3, AppendIs DEF x
    <3> HIDE DEF d
    <3>2. \A i \in 1..(n + 1) : c[i] = d[i]
      BY <1>2, <1>4, <3>1 DEF x
    <3>3. c = d
      BY <1>1, <1>3, <3>1, <3>2, SeqEqual
    <3> QED
      BY <3>3 DEF d, x
  <2> QED
    BY <2>1, <2>2, <2>3
<1>6. FlattenSeq(c) = FlattenSeq(a) \o FlattenSeq(b)
  BY <1>1, <1>5, FlatConcat DEF S
<1>7. FlattenSeq(b) = CallsOfFrame(f)
  BY <1>1, FlatOne DEF S
<1> QED
  BY <1>6, <1>7 DEF a, c, CallsIn

\* Up to n, call c was announced under index b, and no other after it.
Announced(L, c, b, n) ==
  \E i \in 1..n :
    /\ L[i].named /\ L[i].index = b /\ L[i].call = c
    /\ \A k \in (i + 1)..n : L[k].named => L[k].index # b

\* Each call of `met` was announced under an index of its own, which all its
\* parts bear.
Filed(L, idx, met) ==
  /\ \A j \in 1..Len(L) :
       /\ L[j].call \in met /\ L[j].index = idx[L[j].call]
       /\ L[j].args # 0 => Announced(L, L[j].call, L[j].index, j)
  /\ \A c \in met : Announced(L, c, idx[c], Len(L))
  /\ \A c, d \in met : idx[c] = idx[d] => c = d

\* One part more: of a call that is announced by it, or was, under its index.
Follows(idx, met, x, idx2, met2) ==
  /\ x.named \/ x.call \in met
  /\ met2 = met \cup {x.call} /\ x.index = idx2[x.call]
  /\ \A c \in met : idx2[c] = idx[c]
  /\ \A c, d \in met2 : idx2[c] = idx2[d] => c = d

\* What was announced stays so, but for another under its index.
LEMMA AnnouncedAppend ==
  ASSUME NEW L \in Seq(CallParts), NEW x \in CallParts, NEW c, NEW b,
         Announced(L, c, b, Len(L)), x.named => x.index # b
  PROVE  Announced(Append(L, x), c, b, Len(L) + 1)
<1> DEFINE n == Len(L)
           M == Append(L, x)
<1>1. /\ n \in Nat /\ \A i \in 1..n : M[i] = L[i] /\ i \in 1..(n + 1)
      /\ M[n + 1] = x
  BY AppendIs
<1>2. PICK i \in 1..n : /\ L[i].named /\ L[i].index = b /\ L[i].call = c
                        /\ \A k \in (i + 1)..n : L[k].named => L[k].index # b
  BY DEF Announced
<1> HIDE DEF n, M
<1>3. ASSUME NEW k \in (i + 1)..(n + 1) PROVE M[k].named => M[k].index # b
  <2>1. CASE k = n + 1
    BY <1>1, <2>1
  <2>2. CASE k # n + 1
    <3>1. k \in (i + 1)..n /\ k \in 1..n
      BY <1>1, <2>2
    <3> QED
      BY <1>1, <1>2, <3>1
  <2> QED
    BY <2>1, <2>2
<1>4. i \in 1..(n + 1) /\ M[i].named /\ M[i].index = b /\ M[i].call = c
  BY <1>1, <1>2
<1>5. Announced(M, c, b, n + 1)
  BY <1>3, <1>4 DEF Announced
<1> QED
  BY <1>5 DEF n, M

\* One part more is filed with the others.
LEMMA FiledAppend ==
  ASSUME NEW L \in Seq(CallParts), NEW x \in CallParts, NEW idx, NEW met, Filed(L, idx, met),
         NEW idx2, NEW met2, Follows(idx, met, x, idx2, met2)
  PROVE  Filed(Append(L, x), idx2, met2)
<1> DEFINE n == Len(L)
           M == Append(L, x)
<1>1. /\ n \in Nat /\ \A i \in 1..n : M[i] = L[i] /\ i \in 1..(n + 1)
      /\ M[n + 1] = x /\ Len(M) = n + 1
  BY AppendIs
<1>2. /\ x.named \/ x.call \in met
      /\ met2 = met \cup {x.call} /\ x.index = idx2[x.call]
      /\ \A c \in met : idx2[c] = idx[c]
      /\ \A c, d \in met2 : idx2[c] = idx2[d] => c = d
  BY DEF Follows
<1>3. /\ \A j \in 1..n : /\ L[j].call \in met /\ L[j].index = idx[L[j].call]
                         /\ L[j].args # 0 => Announced(L, L[j].call, L[j].index, j)
      /\ \A c \in met : Announced(L, c, idx[c], n)
  BY DEF Filed
<1> HIDE DEF M
<1>4. ASSUME NEW c \in met2 PROVE Announced(M, c, idx2[c], n + 1)
  <2>1. CASE x.named /\ c = x.call
    <3>1. n + 1 \in 1..(n + 1) /\ (n + 1 + 1)..(n + 1) = {}
      BY <1>1
    <3> HIDE DEF n
    <3> QED
      BY <1>1, <1>2, <2>1, <3>1 DEF Announced
  <2>2. CASE c \in met /\ (x.named => c # x.call)
    <3>1. Announced(L, c, idx[c], n) /\ idx2[c] = idx[c]
      BY <1>2, <1>3, <2>2
    <3>2. x.named => x.index # idx[c]
      BY <1>2, <2>2, <3>1
    <3>3. Announced(M, c, idx[c], n + 1)
      BY <3>1, <3>2, AnnouncedAppend DEF M
    <3> QED
      BY <3>1, <3>3
  <2> QED
    BY <1>2, <2>1, <2>2
<1> HIDE DEF n
<1>5. ASSUME NEW j \in 1..(n + 1)
      PROVE  /\ M[j].call \in met2 /\ M[j].index = idx2[M[j].call]
             /\ M[j].args # 0 => Announced(M, M[j].call, M[j].index, j)
  <2>1. CASE j = n + 1
    <3>1. M[j] = x /\ x.call \in met2 /\ x.index = idx2[x.call]
      BY <1>1, <1>2, <2>1
    <3> QED
      BY <1>4, <2>1, <3>1
  <2>2. CASE j # n + 1
    <3>1. j \in 1..n
      BY <1>1, <2>2
    <3>2. M[j] = L[j] /\ L[j].call \in met2 /\ L[j].index = idx2[L[j].call]
      BY <1>1, <1>2, <1>3, <3>1
    <3>3. ASSUME Announced(L, L[j].call, L[j].index, j) PROVE Announced(M, L[j].call, L[j].index, j)
      <4>1. \A i \in 1..j : M[i] = L[i]
        BY <1>1, <3>1
      <4>2. \A i \in 1..j : \A k \in (i + 1)..j : k \in 1..j
        BY <1>1, <3>1
      <4> QED
        BY <3>3, <4>1, <4>2 DEF Announced
    <3> QED
      BY <1>3, <3>1, <3>2, <3>3
  <2> QED
    BY <2>1, <2>2
<1>6. Filed(M, idx2, met2)
  BY <1>1, <1>2, <1>4, <1>5 DEF Filed
<1> QED
  BY <1>6 DEF M

\* An OpenAI upstream indexes its calls itself.
Itself == [c \in CallIdx |-> c]

\* One part of a call more, as an OpenAI upstream sends it.
LEMMA FiledByItself ==
  ASSUME NEW L \in Seq(CallParts), NEW met \in SUBSET CallIdx, Filed(L, Itself, met),
         NEW x \in CallParts, x.index = x.call, x.named \/ x.call \in met
  PROVE  /\ Append(L, x) \in Seq(CallParts) /\ met \cup {x.call} \in SUBSET CallIdx
         /\ Filed(Append(L, x), Itself, met \cup {x.call})
<1> DEFINE met2 == met \cup {x.call}
<1>1. x.call \in CallIdx /\ met2 \in SUBSET CallIdx
  BY DEF CallParts
<1>2. \A c \in CallIdx : Itself[c] = c
  BY DEF Itself
<1>3. Follows(Itself, met, x, Itself, met2)
  BY <1>1, <1>2 DEF Follows
<1> HIDE DEF met2
<1>4. Filed(Append(L, x), Itself, met2)
  BY <1>3, FiledAppend
<1> QED
  BY <1>1, <1>4 DEF met2

\* The calls of a chunk of its.
LEMMA FiledChunk ==
  ASSUME StreamInv, NEW L \in Seq(CallParts), Filed(L, Itself, upstream.named), NEW calls \in ToolCalls
  PROVE  Filed(L \o calls, Itself, upstream.named \cup CallsOf(calls))
<1> DEFINE one == {CallAt(c, c, named, args) : c \in CallIdx, named \in BOOLEAN, args \in {0, Ordinal}}
           legal == {x \in one : (x.named \/ x.args # 0) /\ (x.named \/ x.call \in upstream.named)}
           met == upstream.named
<1>1. /\ \A x \in legal : x \in CallParts /\ x.index = x.call /\ (x.named \/ x.call \in met)
      /\ met \in SUBSET CallIdx
  <2>1. Ordinal \in Nat
    BY OrdinalIs
  <2>2. \A x \in one : x \in CallParts /\ x.index = x.call
    BY <2>1, IndexIs DEF CallAt, CallParts
  <2> HIDE DEF one
  <2> QED
    BY <2>2, OrdinalIs DEF Upstreams
<1>2. calls \in InOneChunk(legal)
  BY DEF ToolCalls
<1> HIDE DEF legal, met
<1>3. CASE calls = <<>>
  <2>1. CallsOf(calls) = {} /\ L \o calls = L
    BY <1>3, ConcatEmptySeq DEF CallsOf
  <2> QED
    BY <2>1
<1>4. CASE \E x \in legal : calls = <<x>>
  <2>1. PICK x \in legal : calls = <<x>>
    BY <1>4
  <2>2. CallsOf(calls) = {x.call}
    BY <2>1 DEF CallsOf
  <2>3. L \o calls = Append(L, x)
    BY <1>1, <2>1, AppendIsConcat
  <2>4. Filed(Append(L, x), Itself, met \cup {x.call})
    BY <1>1, FiledByItself DEF met
  <2> QED
    BY <2>2, <2>3, <2>4 DEF met
<1>5. CASE calls \in legal \X legal
  <2>1. PICK x \in legal, y \in legal : calls = <<x, y>>
    BY <1>5
  <2>2. CallsOf(calls) = {x.call, y.call}
    BY <2>1 DEF CallsOf
  <2>3. L \o calls = Append(Append(L, x), y)
    <3>1. x \in CallParts /\ y \in CallParts
      BY <1>1
    <3> QED
      BY <2>1, <3>1
  <2> DEFINE M == Append(L, x)
             met1 == met \cup {x.call}
  <2>4. M \in Seq(CallParts) /\ met1 \in SUBSET CallIdx /\ Filed(M, Itself, met1)
    <3>1. Filed(L, Itself, met)
      BY DEF met
    <3> QED
      BY <1>1, <3>1, FiledByItself
  <2>5. y \in CallParts /\ y.index = y.call /\ (y.named \/ y.call \in met1)
    BY <1>1
  <2> HIDE DEF M, met1
  <2>6. Filed(Append(M, y), Itself, met1 \cup {y.call})
    BY <2>4, <2>5, FiledByItself
  <2>7. met1 \cup {y.call} = met \cup {x.call, y.call}
    BY DEF met1
  <2> QED
    BY <2>2, <2>3, <2>6, <2>7 DEF M, met
<1> QED
  BY <1>2, <1>3, <1>4, <1>5 DEF InOneChunk

\* The indices the converter to OpenAI has given, in the order of the blocks.
Numbered(s) == \A c \in SeenTools(s) : s.toolIdx[c] \in 0..(Cardinality(SeenTools(s)) - 1)

\* The first frame, and no other, has the role; the last is [DONE].
RoleFirst(h, over) ==
  \A i \in 1..Len(h) :
    /\ h[i].type = "chunk" => (h[i].role <=> i = 1)
    /\ h[i].type = "done" => over /\ i = Len(h)

FromAnthropic ==
  /\ Filed(CallsIn(FramesOf(out)), conv.toolIdx, SeenTools(conv)) /\ Numbered(conv)
  /\ upstream.open # NoContent =>
       upstream.kind = "text" \/ (upstream.kind = "tool" /\ upstream.open \in SeenTools(conv))
  /\ RoleFirst(FramesOf(out), upstream.stage = "through")
  /\ Reading => (upstream.stage = "begin" <=> FramesOf(out) = <<>>)

FromGemini ==
  /\ RoleFirst(FramesOf(out), upstream.stage = "through")
  /\ Reading => (conv.geminiFirstSent <=> FramesOf(out) # <<>>)

\* What an OpenAI client has.
OpenAIFrames ==
  client = "openai" =>
    /\ target = "openai" => Filed(CallsIn(FramesOf(out)), Itself, upstream.named)
    /\ target = "anthropic" => FromAnthropic
    /\ target = "gemini" => FromGemini

\* A frame that is not a chunk has no calls.
LEMMA NoCalls ==
  ASSUME NEW h \in Seq(Frame), NEW f \in Frame, f.type # "chunk" \/ f.calls = <<>>
  PROVE  CallsIn(Append(h, f)) = CallsIn(h)
<1>1. CallsOfFrame(f) = <<>>
  BY DEF CallsOfFrame
<1>2. CallsIn(h) \in Seq(CallParts)
  BY CallsOfEachIs
<1> DEFINE L == CallsIn(h)
<1>3. L \o <<>> = L
  <2> HIDE DEF L
  <2> QED
    BY <1>2, ConcatEmptySeq DEF L
<1> QED
  BY <1>1, <1>3, CallsInAppend

\* A chunk of an OpenAI upstream is passed on to an OpenAI client.
LEMMA OpenAISendsFiled ==
  ASSUME StreamInv, OpenAIFrames, OpenAISends, client = "openai"
  PROVE  OpenAIFrames'
<1>1. PICK role \in Roles, finish \in BOOLEAN, text \in {0, Ordinal}, calls \in ToolCalls :
        Hears(Chunk(role, text, calls, finish), ContentsIn(text, calls),
              [upstream EXCEPT !.chunks = @ + 1,
                               !.stage = IF finish THEN "finished" ELSE "talk",
                               !.named = @ \cup {calls[i].call : i \in DOMAIN calls}])
  BY DEF OpenAISends
<1> DEFINE stage == IF finish THEN "finished" ELSE "talk"
           u == [upstream EXCEPT !.chunks = @ + 1, !.stage = stage,
                                 !.named = @ \cup {calls[i].call : i \in DOMAIN calls}]
           frame == Chunk(role, text, calls, finish)
           h == FramesOf(out)
<1>2. /\ target = "openai" /\ text \in Nat /\ role \in BOOLEAN /\ finish \in BOOLEAN
  <2>1. (upstream.chunks = 0) \in BOOLEAN
    OBVIOUS
  <2>2. Roles = {upstream.chunks = 0}
    BY DEF Roles
  <2>3. role = (upstream.chunks = 0)
    BY <2>2
  <2>4. role \in BOOLEAN
    BY <2>1, <2>3, Zenon
  <2> QED
    BY <2>4, OrdinalIs DEF OpenAISends
<1>3. calls \in Seq(CallParts) /\ CallsOf(calls) = {calls[i].call : i \in DOMAIN calls}
  BY CallsAre DEF CallsOf
<1>4. Sent(target, frame, ContentsIn(text, calls))
  BY <1>2, <1>3 DEF Sent
<1>5. upstream \in Upstreams /\ u.named = upstream.named \cup CallsOf(calls)
  BY <1>3, OrdinalIs DEF Upstreams
<1>6. frame.type = "chunk" /\ frame.calls = calls
  BY DEF Chunk
<1>7. Hears(frame, ContentsIn(text, calls), u)
  BY <1>1
<1> HIDE DEF frame, u
<1>8. PICK s : Hearing(frame, u, s)
  BY <1>4, <1>7, HearsFrames
<1>9. s = Emit(conv, frame)
  BY <1>2, <1>6, <1>8, ConvertCases DEF Hearing
<1>10. frame \in Frame
  BY <1>4, SentIs
<1>11. /\ h \in Seq(Frame) /\ conv \in Converters /\ All(h, conv) = h
       /\ FramesOf(out') = All(h, s) /\ upstream' = u /\ target' = target /\ client' = client
  BY <1>8 DEF Hearing, StreamInv, StreamTyped
<1>12. FramesOf(out') = Append(h, frame)
  <2> DEFINE v == conv
  <2>1. v \in Converters /\ s = Emit(v, frame) /\ All(h, v) = h
    BY <1>9, <1>11
  <2> HIDE DEF h, v
  <2>2. All(h, s) = Append(All(h, v), frame)
    BY <1>10, <1>11, <2>1, EmitAll DEF Emitted
  <2> QED
    BY <1>11, <2>1, <2>2
<1> DEFINE L == CallsIn(h)
<1>13. L \in Seq(CallParts) /\ CallsIn(Append(h, frame)) = L \o calls
  <2>1. CallsOfFrame(frame) = calls
    BY <1>6 DEF CallsOfFrame
  <2> HIDE DEF h
  <2> QED
    BY <1>10, <1>11, <2>1, CallsOfEachIs, CallsInAppend
<1>14. Filed(L, Itself, upstream.named)
  BY <1>2 DEF OpenAIFrames
<1> HIDE DEF L
<1>15. Filed(L \o calls, Itself, upstream.named \cup CallsOf(calls))
  BY <1>13, <1>14, FiledChunk
<1>16. Filed(CallsIn(FramesOf(out')), Itself, upstream'.named)
  BY <1>5, <1>11, <1>12, <1>13, <1>15
<1>17. FramesOf(out)' = FramesOf(out') /\ Itself' = Itself
  BY DEF FramesOf, Itself
<1> QED
  BY <1>2, <1>11, <1>16, <1>17 DEF OpenAIFrames

\* And so is its end.
LEMMA OpenAIDoneFiled ==
  ASSUME StreamInv, OpenAIFrames, OpenAIDone, client = "openai"
  PROVE  OpenAIFrames'
<1> DEFINE u == [upstream EXCEPT !.stage = "through"]
           h == FramesOf(out)
<1>1. target = "openai" /\ Hears(DoneFrame, <<>>, u)
  BY DEF OpenAIDone
<1>2. Sent(target, DoneFrame, <<>>) /\ DoneFrame.type = "done"
  BY <1>1 DEF Sent, DoneFrame
<1>3. upstream \in Upstreams /\ u.named = upstream.named
  BY OrdinalIs DEF Upstreams
<1> HIDE DEF u
<1>4. PICK s : Hearing(DoneFrame, u, s)
  BY <1>1, <1>2, HearsFrames
<1>5. s = Emit(conv, DoneFrame)
  BY <1>1, <1>2, <1>4, ConvertCases DEF Hearing
<1>6. DoneFrame \in Frame
  BY FramesAre
<1>7. /\ h \in Seq(Frame) /\ conv \in Converters /\ All(h, conv) = h
      /\ FramesOf(out') = All(h, s) /\ upstream' = u /\ target' = target /\ client' = client
  BY <1>4 DEF Hearing, StreamInv, StreamTyped
<1>8. CallsIn(FramesOf(out')) = CallsIn(h)
  <2> DEFINE v == conv
             f == DoneFrame
  <2>1. v \in Converters /\ s = Emit(v, f) /\ All(h, v) = h /\ f \in Frame /\ f.type # "chunk"
    BY <1>2, <1>5, <1>6, <1>7
  <2> HIDE DEF h, v, f
  <2>2. All(h, s) = Append(All(h, v), f)
    BY <1>7, <2>1, EmitAll DEF Emitted
  <2>3. CallsIn(Append(h, f)) = CallsIn(h)
    BY <1>7, <2>1, NoCalls
  <2> QED
    BY <1>7, <2>1, <2>2, <2>3
<1>9. FramesOf(out)' = FramesOf(out') /\ Itself' = Itself
  BY DEF FramesOf, Itself
<1>10. Filed(CallsIn(h), Itself, upstream.named)
  BY <1>1 DEF OpenAIFrames
<1> QED
  BY <1>1, <1>3, <1>7, <1>8, <1>9, <1>10 DEF OpenAIFrames

\* One frame more: the role is the first's, and [DONE] the last.
LEMMA RoleAppend ==
  ASSUME NEW h \in Seq(Frame), NEW f \in Frame, NEW over, RoleFirst(h, FALSE),
         f.type = "chunk" => (f.role <=> h = <<>>), f.type = "done" => over
  PROVE  RoleFirst(Append(h, f), over)
<1> DEFINE n == Len(h)
           g == Append(h, f)
<1>1. /\ n \in Nat /\ \A i \in 1..n : g[i] = h[i]
      /\ g[n + 1] = f /\ Len(g) = n + 1
  BY AppendIs
<1>2. h = <<>> <=> n = 0
  OBVIOUS
<1> HIDE DEF n, g
<1>3. \A i \in 1..n : /\ h[i].type = "chunk" => (h[i].role <=> i = 1)
                      /\ h[i].type # "done"
  BY DEF RoleFirst, n
<1>4. ASSUME NEW i \in 1..(n + 1)
      PROVE  /\ g[i].type = "chunk" => (g[i].role <=> i = 1)
             /\ g[i].type = "done" => over /\ i = n + 1
  <2>1. CASE i = n + 1
    <3>1. g[i] = f /\ (i = 1 <=> h = <<>>)
      BY <1>1, <1>2, <2>1
    <3> QED
      BY <2>1, <3>1
  <2>2. CASE i # n + 1
    <3>1. i \in 1..n
      BY <1>1, <2>2
    <3> QED
      BY <1>1, <1>3, <3>1
  <2> QED
    BY <2>1, <2>2
<1> QED
  BY <1>1, <1>4 DEF RoleFirst, g

\* What is to be shown of a step of an Anthropic upstream.
Told(g, u, s) ==
  /\ Filed(CallsIn(g), s.toolIdx, SeenTools(s)) /\ Numbered(s)
  /\ u.open # NoContent => u.kind = "text" \/ (u.kind = "tool" /\ u.open \in SeenTools(s))
  /\ RoleFirst(g, u.stage = "through")
  /\ u.stage # "begin" /\ g # <<>>

\* It is what the invariant says after the step.
LEMMA ToldIsEnough ==
  ASSUME client = "openai", target = "anthropic", NEW frame, NEW u, NEW s, Hearing(frame, u, s),
         Told(FramesOf(out'), u, s)
  PROVE  OpenAIFrames'
<1> DEFINE g == FramesOf(out')
<1>1. SeenTools(conv)' = SeenTools(s)
  BY HearingKnows
<1>2. conv'.toolIdx = s.toolIdx
  BY DEF Hearing, Converters
<1>3. upstream' = u /\ target' = "anthropic" /\ client' = "openai" /\ FramesOf(out)' = g
  BY DEF Hearing, FramesOf
<1> HIDE DEF g
<1>4. Told(g, u, s)
  BY DEF g
<1>5. Numbered(conv)'
  BY <1>1, <1>2, <1>4 DEF Numbered, Told
<1>6. Filed(CallsIn(g), conv'.toolIdx, SeenTools(conv)')
  BY <1>1, <1>2, <1>4 DEF Told
<1>7. RoleFirst(g, u.stage = "through") /\ u.stage # "begin" /\ g # <<>>
  BY <1>4 DEF Told
<1>8. u.open # NoContent => u.kind = "text" \/ (u.kind = "tool" /\ u.open \in SeenTools(conv)')
  BY <1>1, <1>4 DEF Told
<1>9. FromAnthropic'
  BY <1>3, <1>5, <1>6, <1>7, <1>8 DEF FromAnthropic
<1> QED
  BY <1>3, <1>9 DEF OpenAIFrames

\* The converter's answer to a frame of Anthropic's.
LEMMA AnthropicHears ==
  ASSUME StreamInv, OpenAIFrames, client = "openai", target = "anthropic", Reading,
         NEW frame, NEW cs, NEW u, Sent(target, frame, cs), Hears(frame, cs, u)
  PROVE  \E s : /\ Hearing(frame, u, s) /\ s = AnthropicToOpenAI(conv, frame)
                /\ conv \in Converters /\ FramesOf(out) \in Seq(Frame)
                /\ All(FramesOf(out), conv) = FramesOf(out)
                /\ FromAnthropic /\ frame \in Frame
<1>1. PICK s : Hearing(frame, u, s)
  BY HearsFrames
<1>2. frame \in Frame /\ frame.type # "done"
  <2>1. \/ frame \in {MessageStart, MessageDelta, MessageStop}
        \/ \E b \in CallIdx, kind \in {"text", "tool"} : frame = BlockStart(b, kind, b)
        \/ \E b \in CallIdx : \E content : frame = Delta(b, content)
        \/ \E b \in CallIdx : frame = BlockStop(b)
    BY Zenon DEF Sent
  <2>2. frame.type # "done"
    BY <2>1 DEF MessageStart, MessageDelta, MessageStop, BlockStart, BlockStop, Delta
  <2>3. frame \in Frame
    BY SentIs
  <2> QED
    BY <2>2, <2>3
<1>3. s = AnthropicToOpenAI(conv, frame)
  BY <1>1, <1>2, ConvertCases DEF Hearing
<1> QED
  BY <1>1, <1>2, <1>3 DEF Hearing, StreamInv, StreamTyped, OpenAIFrames

\* A frame without calls.
LEMMA ToldNoCall ==
  ASSUME NEW h \in Seq(Frame), NEW s \in Converters, All(h, s) = h, NEW f \in Frame, NEW u,
         Filed(CallsIn(h), s.toolIdx, SeenTools(s)), Numbered(s), RoleFirst(h, FALSE),
         u.open # NoContent => u.kind = "text" \/ (u.kind = "tool" /\ u.open \in SeenTools(s)),
         u.stage # "begin",
         f.type = "chunk" => f.calls = <<>> /\ (f.role <=> h = <<>>),
         f.type = "done" => u.stage = "through"
  PROVE  Told(All(h, Emit(s, f)), u, Emit(s, f))
<1> DEFINE t == Emit(s, f)
           g == Append(h, f)
<1>1. All(h, t) = g /\ t.toolIdx = s.toolIdx
  BY EmitAll DEF Emitted
<1>2. SeenTools(t) = SeenTools(s) /\ Numbered(t)
  BY <1>1 DEF SeenTools, Numbered
<1>3. CallsIn(g) = CallsIn(h)
  BY NoCalls
<1>4. RoleFirst(g, u.stage = "through")
  BY RoleAppend
<1>5. g # <<>>
  OBVIOUS
<1> QED
  BY <1>1, <1>2, <1>3, <1>4, <1>5 DEF Told

\* No frame at all.
LEMMA ToldNothing ==
  ASSUME NEW h \in Seq(Frame), NEW s, All(h, s) = h, NEW u,
         Filed(CallsIn(h), s.toolIdx, SeenTools(s)), Numbered(s), RoleFirst(h, FALSE), h # <<>>,
         u.open # NoContent => u.kind = "text" \/ (u.kind = "tool" /\ u.open \in SeenTools(s)),
         u.stage = "talk"
  PROVE  Told(All(h, s), u, s)
BY DEF Told

\* The envelope of Anthropic's message, for an OpenAI client.
LEMMA EnvelopeFiled ==
  ASSUME StreamInv, OpenAIFrames, AnthropicEnvelope, client = "openai"
  PROVE  OpenAIFrames'
<1> DEFINE h == FramesOf(out)
           v == conv
           first == Chunk(TRUE, 0, <<>>, FALSE)
           last == Chunk(FALSE, 0, <<>>, TRUE)
<1>1. /\ target = "anthropic" /\ Reading /\ upstream \in Upstreams
      /\ \A frame \in {MessageStart, MessageDelta, MessageStop} : Sent(target, frame, <<>>)
  BY OrdinalIs DEF AnthropicEnvelope, Sent
<1>2. /\ first \in Frame /\ first.type = "chunk" /\ first.calls = <<>> /\ first.role = TRUE
      /\ last \in Frame /\ last.type = "chunk" /\ last.calls = <<>> /\ last.role = FALSE
      /\ DoneFrame \in Frame /\ DoneFrame.type = "done"
  BY FramesAre, SmallChunks DEF Chunk, DoneFrame
<1>3. \A s : /\ AnthropicToOpenAI(s, MessageStart) = Emit(s, first)
             /\ AnthropicToOpenAI(s, MessageDelta) = Emit(s, last)
             /\ AnthropicToOpenAI(s, MessageStop) = Emit(s, DoneFrame)
  BY DEF AnthropicToOpenAI, MessageStart, MessageDelta, MessageStop
<1> HIDE DEF first, last
<1>4. ASSUME NEW frame \in {MessageStart, MessageDelta, MessageStop}, NEW f \in Frame,
             NEW stage, stage # "begin",
             Hears(frame, <<>>, [upstream EXCEPT !.stage = stage]), upstream.stage # "through",
             \A s : AnthropicToOpenAI(s, frame) = Emit(s, f),
             f.type = "chunk" => f.calls = <<>> /\ (f.role <=> upstream.stage = "begin"),
             f.type = "done" => stage = "through"
      PROVE  OpenAIFrames'
  <2> DEFINE u == [upstream EXCEPT !.stage = stage]
  <2>1. PICK s : /\ Hearing(frame, u, s) /\ s = AnthropicToOpenAI(conv, frame)
                 /\ conv \in Converters /\ h \in Seq(Frame) /\ All(h, conv) = h
                 /\ FromAnthropic
    BY <1>1, <1>4, AnthropicHears
  <2>2. /\ u.stage = stage /\ u.open = upstream.open /\ u.kind = upstream.kind
    BY <1>1 DEF Upstreams
  <2>3. s = Emit(v, f) /\ FramesOf(out') = All(h, s)
    BY <1>4, <2>1 DEF Hearing
  <2>4. /\ Filed(CallsIn(h), v.toolIdx, SeenTools(v)) /\ Numbered(v)
        /\ upstream.open # NoContent =>
             upstream.kind = "text" \/ (upstream.kind = "tool" /\ upstream.open \in SeenTools(v))
        /\ RoleFirst(h, upstream.stage = "through")
        /\ upstream.stage = "begin" <=> h = <<>>
    BY <1>1, <2>1 DEF FromAnthropic
  <2>5. RoleFirst(h, FALSE)
    BY <1>4, <2>4 DEF RoleFirst
  <2>6. v \in Converters /\ h \in Seq(Frame) /\ All(h, v) = h
    BY <2>1
  <2>7. Hearing(frame, u, s)
    BY <2>1
  <2> HIDE DEF u, v, h
  <2>8. u.open # NoContent => u.kind = "text" \/ (u.kind = "tool" /\ u.open \in SeenTools(v))
    BY <2>2, <2>4
  <2>9. f.type = "chunk" => f.calls = <<>> /\ (f.role <=> h = <<>>)
    BY <1>4, <2>4
  <2>10. Told(All(h, Emit(v, f)), u, Emit(v, f))
    BY <1>4, <2>2, <2>4, <2>5, <2>6, <2>8, <2>9, ToldNoCall
  <2> QED
    BY <1>1, <2>3, <2>7, <2>10, ToldIsEnough
<1>5. CASE upstream.stage = "begin" /\ Hears(MessageStart, <<>>, [upstream EXCEPT !.stage = "talk"])
  BY <1>2, <1>3, <1>4, <1>5
<1>6. CASE /\ upstream.stage = "talk" /\ upstream.open = NoContent
           /\ Hears(MessageDelta, <<>>, [upstream EXCEPT !.stage = "finished"])
  BY <1>2, <1>3, <1>4, <1>6
<1>7. CASE upstream.stage = "finished" /\ Hears(MessageStop, <<>>, [upstream EXCEPT !.stage = "through"])
  BY <1>2, <1>3, <1>4, <1>7
<1> QED
  BY <1>5, <1>6, <1>7 DEF AnthropicEnvelope

Apart(idx, met) == \A c, d \in met : idx[c] = idx[d] => c = d

\* A block that is met has an index of its own, the next unless it was met before.
LEMMA MeetIs ==
  ASSUME NEW s \in Converters, NEW b \in CallIdx, Numbered(s), Apart(s.toolIdx, SeenTools(s)),
         NEW t, t = Meet(s, b)
  PROVE  /\ t \in Converters /\ t.parts = s.parts
         /\ SeenTools(t) = SeenTools(s) \cup {b}
         /\ Numbered(t) /\ Apart(t.toolIdx, SeenTools(t))
         /\ \A c \in SeenTools(s) : t.toolIdx[c] = s.toolIdx[c]
<1> DEFINE seen == SeenTools(s)
           n == Cardinality(seen)
<1>1. IsFiniteSet(seen) /\ n \in Nat /\ seen \subseteq CallIdx
  <2>1. seen \subseteq CallIdx
    BY DEF SeenTools
  <2>2. IsFiniteSet(seen)
    BY <2>1, StreamAssumption, FS_Subset
  <2> QED
    BY <2>1, <2>2, FS_CardinalityType
<1>2. CASE s.toolIdx[b] # NotSeen
  <2>1. t = s /\ b \in seen
    BY <1>2 DEF Meet, SeenTools
  <2>2. SeenTools(s) \cup {b} = SeenTools(s)
    BY <2>1
  <2> QED
    BY <2>1, <2>2
<1>3. CASE s.toolIdx[b] = NotSeen
  <2> DEFINE idx == [s.toolIdx EXCEPT ![b] = n]
             u == [s EXCEPT !.toolIdx = idx]
  <2>1. t = u
    BY <1>3 DEF Meet
  <2>2. /\ idx \in [CallIdx -> Int] /\ idx[b] = n /\ \A c \in CallIdx : c # b => idx[c] = s.toolIdx[c]
    BY <1>1 DEF Converters
  <2>3. b \notin seen
    BY <1>3 DEF SeenTools
  <2>4. /\ IsFiniteSet(seen \cup {b}) /\ Cardinality(seen \cup {b}) = n + 1
    <3> HIDE DEF seen
    <3> QED
      BY <1>1, <2>3, FS_AddElement
  <2> HIDE DEF idx, n
  <2>5. u \in Converters /\ u.parts = s.parts /\ u.toolIdx = idx
    BY <2>2 DEF Converters
  <2> HIDE DEF u
  <2>6. SeenTools(u) = seen \cup {b}
    <3>1. n # NotSeen
      BY <1>1 DEF NotSeen
    <3> QED
      BY <2>2, <2>5, <3>1 DEF SeenTools
  <2>7. \A c \in seen : idx[c] = s.toolIdx[c] /\ idx[c] \in 0..(n - 1)
    BY <1>1, <2>2, <2>3 DEF Numbered, n
  <2> HIDE DEF seen
  <2>8. \A c \in seen \cup {b} : idx[c] \in 0..n /\ (c # b => idx[c] < n)
    BY <1>1, <2>2, <2>7
  <2>9. Numbered(u)
    <3>1. \A c \in seen \cup {b} : u.toolIdx[c] \in 0..(Cardinality(seen \cup {b}) - 1)
      BY <1>1, <2>4, <2>5, <2>8
    <3> QED
      BY <2>6, <3>1 DEF Numbered
  <2>10. Apart(idx, seen \cup {b})
    <3>1. \A c, d \in seen : idx[c] = idx[d] => c = d
      BY <2>7 DEF Apart, seen
    <3>2. \A c \in seen : idx[c] # idx[b]
      BY <1>1, <2>2, <2>3, <2>8
    <3> QED
      BY <3>1, <3>2 DEF Apart
  <2> QED
    BY <2>1, <2>5, <2>6, <2>7, <2>9, <2>10 DEF seen
<1> QED
  BY <1>2, <1>3

\* A frame with one part of a call.
LEMMA ToldCall ==
  ASSUME NEW h \in Seq(Frame), NEW s \in Converters, NEW t \in Converters, All(h, s) = h,
         t.parts = s.parts, Filed(CallsIn(h), s.toolIdx, SeenTools(s)),
         Numbered(t), RoleFirst(h, FALSE), h # <<>>,
         NEW u, u.open # NoContent => u.kind = "text" \/ (u.kind = "tool" /\ u.open \in SeenTools(t)),
         u.stage = "talk", NEW x \in CallParts,
         Follows(s.toolIdx, SeenTools(s), x, t.toolIdx, SeenTools(t)),
         NEW f, f = Chunk(FALSE, 0, <<x>>, FALSE)
  PROVE  Told(All(h, Emit(t, f)), u, Emit(t, f))
<1> DEFINE g == Append(h, f)
           r == Emit(t, f)
           L == CallsIn(h)
<1>1. f \in Frame /\ f.type = "chunk" /\ f.role = FALSE /\ f.calls = <<x>>
  <2>1. <<x>> \in Seq(CallParts)
    OBVIOUS
  <2> QED
    BY <2>1, FramesAre DEF Chunk
<1>2. All(h, t) = h
  BY DEF All
<1>3. All(h, r) = g /\ r.toolIdx = t.toolIdx
  <2>1. Emitted(h, t, f, r)
    BY <1>1, EmitAll
  <2> HIDE DEF r
  <2> QED
    BY <1>2, <2>1 DEF Emitted
<1>4. SeenTools(r) = SeenTools(t) /\ Numbered(r)
  BY <1>3 DEF SeenTools, Numbered
<1>5. L \in Seq(CallParts)
  BY CallsOfEachIs
<1>6. CallsIn(g) = Append(L, x)
  <2>1. CallsIn(g) = L \o CallsOfFrame(f)
    BY <1>1, CallsInAppend
  <2>2. CallsOfFrame(f) = <<x>>
    BY <1>1 DEF CallsOfFrame
  <2> HIDE DEF L
  <2>3. Append(L, x) = L \o <<x>>
    BY <1>5, AppendIsConcat
  <2> QED
    BY <2>1, <2>2, <2>3
<1>7. Filed(Append(L, x), t.toolIdx, SeenTools(t))
  <2> DEFINE a == s.toolIdx
             b == SeenTools(s)
             c == t.toolIdx
             d == SeenTools(t)
  <2>1. Filed(L, a, b) /\ Follows(a, b, x, c, d)
    OBVIOUS
  <2> HIDE DEF L, a, b, c, d
  <2>2. Filed(Append(L, x), c, d)
    BY <1>5, <2>1, FiledAppend
  <2> QED
    BY <2>2 DEF c, d
<1>8. RoleFirst(g, FALSE)
  BY <1>1, RoleAppend
<1>9. RoleFirst(g, u.stage = "through")
  BY <1>8 DEF RoleFirst
<1>10. g # <<>>
  <2>1. Len(g) = Len(h) + 1 /\ Len(h) \in Nat
    BY <1>1
  <2> HIDE DEF g
  <2>2. Len(g) # 0 /\ Len(<<>>) = 0
    BY <2>1
  <2> QED
    BY <2>2
<1> HIDE DEF g, r, L
<1> QED
  BY <1>3, <1>4, <1>6, <1>7, <1>9, <1>10 DEF Told, r

\* What an OpenAI client has in the middle of Anthropic's message.
LEMMA FiledMidway ==
  ASSUME NEW h, NEW v, h = FramesOf(out), v = conv, FromAnthropic, Reading, upstream.stage = "talk"
  PROVE  /\ Filed(CallsIn(h), v.toolIdx, SeenTools(v)) /\ Numbered(v)
         /\ Apart(v.toolIdx, SeenTools(v)) /\ RoleFirst(h, FALSE) /\ h # <<>>
         /\ upstream.open # NoContent =>
              upstream.kind = "text" \/ (upstream.kind = "tool" /\ upstream.open \in SeenTools(v))
<1>1. /\ Filed(CallsIn(h), v.toolIdx, SeenTools(v)) /\ Numbered(v)
      /\ RoleFirst(h, upstream.stage = "through") /\ h # <<>>
      /\ upstream.open # NoContent =>
           upstream.kind = "text" \/ (upstream.kind = "tool" /\ upstream.open \in SeenTools(v))
  BY DEF FromAnthropic
<1>2. Apart(v.toolIdx, SeenTools(v))
  BY <1>1 DEF Filed, Apart
<1>3. RoleFirst(h, FALSE)
  BY <1>1 DEF RoleFirst
<1> QED
  BY <1>1, <1>2, <1>3

\* The start of a block, be it sent again.
LEMMA StartFiled ==
  ASSUME StreamInv, OpenAIFrames, client = "openai", target = "anthropic", Reading,
         upstream.stage = "talk", NEW b \in CallIdx, NEW kind \in {"text", "tool"}, NEW u,
         u.stage = "talk", u.open = b, u.kind = kind, Hears(BlockStart(b, kind, b), <<>>, u)
  PROVE  OpenAIFrames'
<1> DEFINE h == FramesOf(out)
           v == conv
           start == BlockStart(b, kind, b)
<1>1. Sent(target, start, <<>>)
  BY DEF Sent
<1>2. PICK s : /\ Hearing(start, u, s) /\ s = AnthropicToOpenAI(conv, start)
               /\ v \in Converters /\ h \in Seq(Frame) /\ All(h, v) = h /\ FromAnthropic
  BY <1>1, AnthropicHears
<1>3. /\ Filed(CallsIn(h), v.toolIdx, SeenTools(v)) /\ Numbered(v)
      /\ Apart(v.toolIdx, SeenTools(v)) /\ RoleFirst(h, FALSE) /\ h # <<>>
  BY <1>2, FiledMidway
<1>4. FramesOf(out') = All(h, s)
  BY <1>2 DEF Hearing
<1>5. CASE kind = "text"
  <2>1. s = v
    BY <1>2, <1>5 DEF AnthropicToOpenAI, BlockStart
  <2> HIDE DEF h, v
  <2>2. Told(All(h, v), u, v)
    BY <1>2, <1>3, <1>5, ToldNothing
  <2> QED
    BY <1>2, <1>4, <2>1, <2>2, ToldIsEnough
<1>6. CASE kind = "tool"
  <2> DEFINE t == Meet(v, b)
             x == CallAt(t.toolIdx[b], b, TRUE, 0)
             f == Chunk(FALSE, 0, <<x>>, FALSE)
  <2>1. s = Emit(t, f)
    BY <1>2, <1>6 DEF AnthropicToOpenAI, BlockStart
  <2> HIDE DEF h, v
  <2>2. /\ t \in Converters /\ t.parts = v.parts
        /\ SeenTools(t) = SeenTools(v) \cup {b}
        /\ Numbered(t) /\ Apart(t.toolIdx, SeenTools(t))
        /\ \A c \in SeenTools(v) : t.toolIdx[c] = v.toolIdx[c]
    BY <1>2, <1>3, MeetIs
  <2> HIDE DEF t
  <2>3. t.toolIdx[b] \in Int
    BY <2>2 DEF Converters
  <2>4. x \in CallParts /\ x.named = TRUE /\ x.call = b /\ x.index = t.toolIdx[b]
    BY <2>3 DEF CallAt, CallParts
  <2> HIDE DEF x
  <2>5. Follows(v.toolIdx, SeenTools(v), x, t.toolIdx, SeenTools(t))
    BY <2>2, <2>4 DEF Follows, Apart
  <2>6. u.open \in SeenTools(t)
    BY <2>2
  <2>7. Told(All(h, Emit(t, f)), u, Emit(t, f))
    BY <1>2, <1>3, <1>6, <2>2, <2>4, <2>5, <2>6, ToldCall
  <2> QED
    BY <1>2, <1>4, <2>1, <2>7, ToldIsEnough
<1> QED
  BY <1>5, <1>6

\* A block of Anthropic's starts, for an OpenAI client.
LEMMA AnthropicOpensFiled ==
  ASSUME StreamInv, OpenAIFrames, AnthropicOpens, client = "openai"
  PROVE  OpenAIFrames'
<1>1. target = "anthropic" /\ Reading /\ upstream \in Upstreams /\ upstream.stage = "talk"
  BY OrdinalIs DEF AnthropicOpens
<1>2. CASE /\ upstream.open = NoContent /\ upstream.next \in CallIdx
           /\ \E kind \in {"text", "tool"} :
                Hears(BlockStart(upstream.next, kind, upstream.next), <<>>,
                      [upstream EXCEPT !.chunks = @ + 1, !.kind = kind,
                                       !.open = upstream.next, !.next = @ + 1])
  <2> DEFINE n == upstream.next
  <2>1. PICK kind \in {"text", "tool"} :
          Hears(BlockStart(n, kind, n), <<>>,
                [upstream EXCEPT !.chunks = @ + 1, !.kind = kind, !.open = n, !.next = @ + 1])
    BY <1>2
  <2> DEFINE u == [upstream EXCEPT !.chunks = @ + 1, !.kind = kind, !.open = n, !.next = @ + 1]
  <2>2. n \in CallIdx /\ u.stage = "talk" /\ u.kind = kind /\ u.open = n
    BY <1>1, <1>2 DEF Upstreams
  <2>3. Hears(BlockStart(n, kind, n), <<>>, u)
    BY <2>1
  <2> HIDE DEF u, n
  <2> QED
    BY <1>1, <2>2, <2>3, StartFiled
<1>3. CASE /\ upstream.open # NoContent /\ upstream.kind = "tool"
           /\ Hears(BlockStart(upstream.open, "tool", upstream.open), <<>>,
                    [upstream EXCEPT !.chunks = @ + 1])
  <2> DEFINE u == [upstream EXCEPT !.chunks = @ + 1]
             b == upstream.open
  <2>1. b \in CallIdx /\ u.stage = "talk" /\ u.kind = "tool" /\ u.open = b
    BY <1>1, <1>3 DEF Upstreams
  <2>2. Hears(BlockStart(b, "tool", b), <<>>, u)
    BY <1>3
  <2> HIDE DEF u, b
  <2> QED
    BY <1>1, <2>1, <2>2, StartFiled
<1> QED
  BY <1>2, <1>3 DEF AnthropicOpens

\* A delta, or the end of a block.
LEMMA AnthropicSendsFiled ==
  ASSUME StreamInv, OpenAIFrames, AnthropicSends, client = "openai"
  PROVE  OpenAIFrames'
<1> DEFINE h == FramesOf(out)
           v == conv
           b == upstream.open
           kind == upstream.kind
<1>1. /\ target = "anthropic" /\ Reading /\ upstream \in Upstreams /\ upstream.stage = "talk"
      /\ b # NoContent /\ b \in CallIdx /\ Ordinal \in Nat \ {0}
  BY OrdinalIs DEF AnthropicSends, Upstreams
<1>2. ASSUME NEW content, content = IF kind = "text" THEN TextOf(Ordinal) ELSE ArgsOf(b, Ordinal),
             Hears(Delta(b, content), <<content>>, [upstream EXCEPT !.chunks = @ + 1])
      PROVE  OpenAIFrames'
  <2> DEFINE u == [upstream EXCEPT !.chunks = @ + 1]
             d == Delta(b, content)
  <2>1. u.stage = "talk" /\ u.kind = kind /\ u.open = b
    BY <1>1 DEF Upstreams
  <2>2. Sent(target, d, <<content>>)
    <3>1. content \in {TextOf(Ordinal), ArgsOf(b, Ordinal)}
      BY <1>2
    <3> QED
      BY <1>1, <3>1 DEF Sent
  <2>3. PICK s : /\ Hearing(d, u, s) /\ s = AnthropicToOpenAI(conv, d)
                 /\ v \in Converters /\ h \in Seq(Frame) /\ All(h, v) = h /\ FromAnthropic
    BY <1>1, <1>2, <2>2, AnthropicHears
  <2>4. /\ Filed(CallsIn(h), v.toolIdx, SeenTools(v)) /\ Numbered(v)
        /\ Apart(v.toolIdx, SeenTools(v)) /\ RoleFirst(h, FALSE) /\ h # <<>>
        /\ kind = "text" \/ (kind = "tool" /\ b \in SeenTools(v))
    BY <1>1, <2>3, FiledMidway
  <2>5. FramesOf(out') = All(h, s)
    BY <2>3 DEF Hearing
  <2>6. CASE kind = "text"
    <3> DEFINE f == Chunk(FALSE, Ordinal, <<>>, FALSE)
    <3>1. s = Emit(v, f)
      BY <1>2, <2>3, <2>6 DEF AnthropicToOpenAI, Delta, TextOf
    <3>2. f \in Frame /\ f.type = "chunk" /\ f.calls = <<>> /\ f.role = FALSE
      BY <1>1, FramesAre, SmallChunks DEF Chunk
    <3> HIDE DEF h, v, f, u, b, kind
    <3>3. Told(All(h, Emit(v, f)), u, Emit(v, f))
      BY <2>1, <2>3, <2>4, <2>6, <3>2, ToldNoCall
    <3> QED
      BY <1>1, <1>2, <2>3, <2>5, <3>1, <3>3, ToldIsEnough DEF v
  <2>7. CASE kind = "tool" /\ b \in SeenTools(v)
    <3> DEFINE x == CallAt(v.toolIdx[b], b, FALSE, Ordinal)
               f == Chunk(FALSE, 0, <<x>>, FALSE)
    <3>1. s = Emit(v, f)
      <4>1. v.toolIdx[b] # NotSeen
        BY <2>7 DEF SeenTools
      <4>2. content = ArgsOf(b, Ordinal)
        BY <1>2, <2>7
      <4> QED
        BY <2>3, <4>1, <4>2 DEF AnthropicToOpenAI, Delta, ArgsOf, IndexOf
    <3>2. x \in CallParts /\ x.call = b /\ x.index = v.toolIdx[b]
      <4>1. v.toolIdx[b] \in Int
        BY <1>1, <2>3 DEF Converters
      <4> QED
        BY <1>1, <4>1 DEF CallAt, CallParts
    <3> HIDE DEF h, v, x, u, b, kind
    <3>3. Follows(v.toolIdx, SeenTools(v), x, v.toolIdx, SeenTools(v))
      <4>1. SeenTools(v) = SeenTools(v) \cup {x.call}
        BY <2>7, <3>2
      <4> QED
        BY <2>4, <2>7, <3>2, <4>1 DEF Follows, Apart
    <3>4. Told(All(h, Emit(v, f)), u, Emit(v, f))
      BY <2>1, <2>3, <2>4, <2>7, <3>2, <3>3, ToldCall
    <3> QED
      BY <1>1, <1>2, <2>3, <2>5, <3>1, <3>4, ToldIsEnough DEF v
  <2> QED
    BY <2>4, <2>6, <2>7
<1>3. CASE Hears(BlockStop(b), <<>>, [upstream EXCEPT !.open = NoContent])
  <2> DEFINE u == [upstream EXCEPT !.open = NoContent]
             d == BlockStop(b)
  <2>1. u.stage = "talk" /\ u.open = NoContent
    BY <1>1 DEF Upstreams
  <2>2. Sent(target, d, <<>>)
    BY <1>1 DEF Sent
  <2>3. PICK s : /\ Hearing(d, u, s) /\ s = AnthropicToOpenAI(conv, d)
                 /\ v \in Converters /\ h \in Seq(Frame) /\ All(h, v) = h /\ FromAnthropic
    BY <1>1, <1>3, <2>2, AnthropicHears
  <2>4. /\ Filed(CallsIn(h), v.toolIdx, SeenTools(v)) /\ Numbered(v)
        /\ RoleFirst(h, FALSE) /\ h # <<>>
    BY <1>1, <2>3, FiledMidway
  <2>5. s = v /\ FramesOf(out') = All(h, s)
    BY <2>3 DEF Hearing, AnthropicToOpenAI, BlockStop
  <2> HIDE DEF h, v, u
  <2>6. Told(All(h, v), u, v)
    BY <2>1, <2>3, <2>4, ToldNothing
  <2> QED
    BY <1>1, <1>3, <2>3, <2>5, <2>6, ToldIsEnough
<1> QED
  BY <1>2, <1>3 DEF AnthropicSends

\* Gemini's calls are passed on under index 0: the frames of a chunk.
LEMMA GeminiFrames ==
  ASSUME NEW h \in Seq(Frame), NEW s \in Converters, All(h, s) = h,
         RoleFirst(h, FALSE), s.geminiFirstSent <=> h # <<>>,
         NEW n \in Nat, NEW calls \in Seq(WholeCalls), NEW finish \in BOOLEAN,
         NEW r, r = GeminiToOpenAI(s, Candidate(n, calls, finish))
  PROVE  /\ RoleFirst(All(h, r), finish) /\ All(h, r) # <<>>
         /\ r.geminiFirstSent = TRUE
<1> DEFINE parts == [i \in DOMAIN calls |-> CallAt(0, calls[i].call, TRUE, calls[i].args)]
           t == [s EXCEPT !.geminiFirstSent = TRUE]
           f == Chunk(~s.geminiFirstSent, n, parts, finish)
           u == Emit(t, f)
           g == Append(h, f)
<1>1. r = IF finish THEN Emit(u, DoneFrame) ELSE u
  BY DEF GeminiToOpenAI, Candidate
<1>2. parts \in Seq(CallParts)
  <2>1. /\ Len(calls) \in Nat /\ DOMAIN calls = 1..Len(calls)
        /\ \A i \in 1..Len(calls) : calls[i] \in WholeCalls
    OBVIOUS
  <2>2. \A i \in 1..Len(calls) : CallAt(0, calls[i].call, TRUE, calls[i].args) \in CallParts
    BY <2>1 DEF CallAt, CallParts, WholeCalls
  <2>3. DOMAIN parts = 1..Len(calls) /\ parts = [i \in 1..Len(calls) |-> parts[i]]
    BY <2>1
  <2>4. \A i \in 1..Len(calls) : parts[i] \in CallParts
    BY <2>1, <2>2
  <2> HIDE DEF parts
  <2> QED
    BY <2>1, <2>3, <2>4
<1> HIDE DEF parts
<1>3. t \in Converters /\ t.parts = s.parts /\ t.geminiFirstSent = TRUE /\ s.geminiFirstSent \in BOOLEAN
  BY DEF Converters
<1>4. f \in Frame /\ f.type = "chunk" /\ f.role = ~s.geminiFirstSent
  <2>1. (~s.geminiFirstSent) \in BOOLEAN
    OBVIOUS
  <2>2. f \in Frame
    BY <1>2, <2>1, FramesAre
  <2> QED
    BY <2>2 DEF Chunk
<1> HIDE DEF t, f
<1>5. u \in Converters /\ All(h, u) = g /\ u.geminiFirstSent = TRUE
  <2>1. Emitted(h, t, f, u)
    BY <1>3, <1>4, EmitAll
  <2>2. All(h, t) = h
    BY <1>3 DEF All
  <2>3. u.geminiFirstSent = TRUE
    BY <1>3 DEF Emit, Converters
  <2> HIDE DEF u
  <2> QED
    BY <2>1, <2>2, <2>3 DEF Emitted
<1>6. g \in Seq(Frame) /\ g # <<>> /\ RoleFirst(g, FALSE)
  <2>1. g \in Seq(Frame) /\ Len(g) = Len(h) + 1 /\ Len(h) \in Nat
    BY <1>4
  <2>2. RoleFirst(g, FALSE)
    BY <1>4, RoleAppend
  <2> HIDE DEF g
  <2>3. Len(g) # 0 /\ Len(<<>>) = 0
    BY <2>1
  <2> QED
    BY <2>1, <2>2, <2>3
<1> HIDE DEF u, g
<1>7. CASE ~finish
  <2>1. r = u
    BY <1>1, <1>7
  <2> QED
    BY <1>5, <1>6, <1>7, <2>1
<1>8. CASE finish
  <2> DEFINE d == DoneFrame
             e == Append(g, d)
  <2>1. r = Emit(u, d) /\ d \in Frame /\ d.type = "done"
    BY <1>1, <1>8, FramesAre DEF DoneFrame
  <2> HIDE DEF d
  <2>2. Emitted(h, u, d, r)
    BY <1>5, <2>1, EmitAll
  <2>3. All(h, r) = e
    BY <1>5, <2>2 DEF Emitted
  <2>4. r.geminiFirstSent = TRUE
    BY <1>5, <2>1 DEF Emit, Converters
  <2>5. RoleFirst(e, TRUE)
    BY <1>6, <2>1, RoleAppend
  <2>6. e # <<>>
    <3>1. Len(e) = Len(g) + 1 /\ Len(g) \in Nat
      BY <1>6, <2>1
    <3> HIDE DEF e
    <3>2. Len(e) # 0 /\ Len(<<>>) = 0
      BY <3>1
    <3> QED
      BY <3>2
  <2> HIDE DEF e
  <2>7. finish = TRUE
    BY <1>8
  <2> QED
    BY <2>3, <2>4, <2>5, <2>6, <2>7
<1> QED
  BY <1>7, <1>8

\* A chunk of a Gemini upstream, for an OpenAI client.
LEMMA GeminiSendsFramed ==
  ASSUME StreamInv, OpenAIFrames, GeminiSends, client = "openai"
  PROVE  OpenAIFrames'
<1>1. PICK text \in {0, Ordinal}, calls \in FunctionCalls, finish \in BOOLEAN :
        Hears(Candidate(text, calls, finish), ContentsIn(text, calls),
              [upstream EXCEPT !.chunks = @ + 1,
                               !.named = @ \cup {calls[i].call : i \in DOMAIN calls},
                               !.stage = IF finish THEN "through" ELSE "talk"])
  BY DEF GeminiSends
<1> DEFINE stage == IF finish THEN "through" ELSE "talk"
           u == [upstream EXCEPT !.chunks = @ + 1,
                                 !.named = @ \cup {calls[i].call : i \in DOMAIN calls}, !.stage = stage]
           frame == Candidate(text, calls, finish)
           h == FramesOf(out)
           v == conv
<1>2. /\ target = "gemini" /\ text \in Nat /\ Reading /\ upstream.stage \in {"begin", "talk"}
      /\ calls \in Seq(WholeCalls)
  BY OrdinalIs, CallsAre DEF GeminiSends
<1>3. Sent(target, frame, ContentsIn(text, calls))
  BY <1>2 DEF Sent
<1>4. Hears(frame, ContentsIn(text, calls), u)
  BY <1>1
<1>5. u.stage = stage
  BY OrdinalIs DEF Upstreams
<1>6. frame.type = "candidate"
  BY DEF Candidate
<1> HIDE DEF frame, u
<1>7. PICK s : Hearing(frame, u, s)
  BY <1>3, <1>4, HearsFrames
<1>8. /\ s = GeminiToOpenAI(v, frame) /\ v \in Converters /\ h \in Seq(Frame) /\ All(h, v) = h
  BY <1>2, <1>6, <1>7, ConvertCases DEF Hearing, StreamInv, StreamTyped
<1>9. RoleFirst(h, FALSE) /\ (v.geminiFirstSent <=> h # <<>>)
  <2>1. FromGemini
    BY <1>2 DEF OpenAIFrames
  <2> QED
    BY <1>2, <2>1 DEF FromGemini, RoleFirst
<1>10. /\ FramesOf(out') = All(h, s) /\ upstream' = u /\ attempt' = attempt /\ target' = target
       /\ client' = client /\ conv'.geminiFirstSent = s.geminiFirstSent
  BY <1>7 DEF Hearing, Converters
<1> HIDE DEF h, v
<1>11. /\ RoleFirst(All(h, s), finish) /\ All(h, s) # <<>> /\ s.geminiFirstSent = TRUE
  BY <1>2, <1>8, <1>9, GeminiFrames DEF frame
<1>12. RoleFirst(All(h, s), u.stage = "through")
  BY <1>5, <1>11 DEF RoleFirst
<1>13. FramesOf(out)' = FramesOf(out')
  BY DEF FramesOf
<1>14. FromGemini'
  BY <1>10, <1>11, <1>12, <1>13 DEF FromGemini
<1> QED
  BY <1>2, <1>10, <1>14 DEF OpenAIFrames

\* A stream of which nothing has come.
LEMMA UntouchedFiled == Untouched => OpenAIFrames
<1> SUFFICES ASSUME Untouched PROVE OpenAIFrames
  OBVIOUS
<1>1. /\ FramesOf(out) = <<>> /\ conv.geminiFirstSent = FALSE /\ SeenTools(conv) = {}
      /\ upstream.stage = "begin" /\ upstream.open = NoContent /\ upstream.named = {}
  BY DEF Untouched, FramesOf, NewConverter, NewUpstream, SeenTools
<1>2. CallsIn(<<>>) = <<>> /\ Len(<<>>) = 0 /\ 1..0 = {}
  <2>1. CallsOfEach(<<>>) = <<>>
    BY DEF CallsOfEach
  <2> QED
    BY <2>1, FlatEmpty DEF CallsIn
<1>3. \A idx : Filed(<<>>, idx, {})
  BY <1>2 DEF Filed
<1>4. \A over : RoleFirst(<<>>, over)
  BY <1>2 DEF RoleFirst
<1>5. Numbered(conv)
  BY <1>1 DEF Numbered
<1> QED
  BY <1>1, <1>2, <1>3, <1>4, <1>5 DEF OpenAIFrames, FromAnthropic, FromGemini

\* The end of a stream.
LEMMA EndsFiled ==
  ASSUME StreamInv, OpenAIFrames, StreamEnds
  PROVE  OpenAIFrames'
<1>1. ~Committed => out = <<>>
  BY DEF Committed, StreamInv, OwnAttempt, StreamTyped
<1>2. CASE Untouched'
  BY <1>2, UntouchedFiled, PTL
<1>3. CASE /\ out = <<>> /\ attempt' = 0 /\ out' = <<[by |-> 0, frame |-> ErrorFrame]>>
           /\ UNCHANGED <<client, target, upstream, conv>>
  <2> DEFINE g == Append(<<>>, ErrorFrame)
             e == <<>>
  <2>1. FramesOf(out)' = g /\ FramesOf(out) = <<>>
    BY <1>3 DEF FramesOf
  <2>2. ErrorFrame \in Frame /\ ErrorFrame.type = "error"
    BY FramesAre DEF ErrorFrame
  <2>3. e \in Seq(Frame) /\ g = Append(e, ErrorFrame) /\ \A over : RoleFirst(e, over)
    BY NoFrames DEF RoleFirst
  <2>4. CallsIn(FramesOf(out)') = CallsIn(FramesOf(out))
    <3>1. CallsIn(g) = CallsIn(<<>>)
      <4> HIDE DEF e
      <4>1. CallsIn(Append(e, ErrorFrame)) = CallsIn(e)
        BY <2>2, <2>3, NoCalls
      <4> QED
        BY <2>3, <4>1 DEF e
    <3> QED
      BY <2>1, <3>1
  <2> HIDE DEF e
  <2>5. \A over : RoleFirst(Append(e, ErrorFrame), over)
    BY <2>2, <2>3, RoleAppend
  <2>6. \A over : RoleFirst(g, over)
    BY <2>3, <2>5
  <2> HIDE DEF g
  <2>7. ~Reading'
    BY <1>3 DEF Reading
  <2>8. ASSUME client = "openai", target = "openai"
        PROVE  Filed(CallsIn(FramesOf(out)), Itself, upstream.named)'
    <3>1. Filed(CallsIn(FramesOf(out)), Itself, upstream.named)
      BY <2>8 DEF OpenAIFrames
    <3>2. Itself' = Itself
      BY DEF Itself
    <3> QED
      BY <1>3, <2>4, <3>1, <3>2
  <2>9. ASSUME client = "openai", target = "anthropic"
        PROVE  FromAnthropic'
    <3>1. /\ Filed(CallsIn(FramesOf(out)), conv.toolIdx, SeenTools(conv)) /\ Numbered(conv)
          /\ upstream.open # NoContent =>
               upstream.kind = "text" \/ (upstream.kind = "tool" /\ upstream.open \in SeenTools(conv))
      BY <2>9 DEF OpenAIFrames, FromAnthropic
    <3>2. SeenTools(conv)' = SeenTools(conv) /\ (Numbered(conv) <=> Numbered(conv)')
      BY <1>3 DEF SeenTools, Numbered
    <3> QED
      BY <1>3, <2>1, <2>4, <2>6, <2>7, <3>1, <3>2 DEF FromAnthropic
  <2>10. FromGemini'
    BY <2>1, <2>6, <2>7 DEF FromGemini
  <2> QED
    BY <1>3, <2>8, <2>9, <2>10 DEF OpenAIFrames
<1>4. \/ Untouched'
      \/ /\ out = <<>> /\ attempt' = 0 /\ out' = <<[by |-> 0, frame |-> ErrorFrame]>>
         /\ UNCHANGED <<client, target, upstream, conv>>
  <2>1. \A x : Append(<<>>, x) = <<x>>
    OBVIOUS
  <2>2. \/ out' = <<>> /\ upstream' = NewUpstream /\ conv' = NewConverter
        \/ /\ out = <<>> /\ attempt' = 0 /\ out' = Append(<<>>, [by |-> 0, frame |-> ErrorFrame])
           /\ UNCHANGED <<client, target, upstream, conv>>
    BY <1>1 DEF StreamEnds
  <2> QED
    BY <2>1, <2>2 DEF Untouched
<1> QED
  BY <1>2, <1>3, <1>4

\* Every step keeps it.
LEMMA FiledStep == StreamInv /\ OpenAIFrames /\ [StreamNext]_streamVars => OpenAIFrames'
<1> SUFFICES ASSUME StreamInv, OpenAIFrames, [StreamNext]_streamVars PROVE OpenAIFrames'
  OBVIOUS
<1>1. CASE client # "openai"
  <2>1. client' = client
    BY DEF StreamNext, OpenAISends, OpenAIDone, AnthropicEnvelope, AnthropicOpens, AnthropicSends,
           GeminiSends, StreamEnds, Hears, streamVars
  <2> QED
    BY <1>1, <2>1 DEF OpenAIFrames
<1>2. CASE client = "openai"
  <2>1. CASE OpenAISends
    BY <1>2, <2>1, OpenAISendsFiled
  <2>2. CASE OpenAIDone
    BY <1>2, <2>2, OpenAIDoneFiled
  <2>3. CASE AnthropicEnvelope
    BY <1>2, <2>3, EnvelopeFiled
  <2>4. CASE AnthropicOpens
    BY <1>2, <2>4, AnthropicOpensFiled
  <2>5. CASE AnthropicSends
    BY <1>2, <2>5, AnthropicSendsFiled
  <2>6. CASE GeminiSends
    BY <1>2, <2>6, GeminiSendsFramed
  <2>7. CASE StreamEnds
    BY <2>7, EndsFiled
  <2>8. CASE UNCHANGED streamVars
    BY <2>8 DEF streamVars, OpenAIFrames, FromAnthropic, FromGemini, Itself, Reading,
                FramesOf, SeenTools, Numbered
  <2> QED
    BY <2>1, <2>2, <2>3, <2>4, <2>5, <2>6, <2>7, <2>8 DEF StreamNext
<1> QED
  BY <1>1, <1>2

\* An OpenAI client's frames, of every stream.
LEMMA FiledInvariant == StreamSpec => []OpenAIFrames
<1>1. StreamInit => OpenAIFrames
  BY UntouchedFiled DEF StreamInit, Untouched
<1> QED
  BY <1>1, FiledStep, StreamInvariant, PTL DEF StreamSpec

\* The frames are those the client has.
LEMMA FramesAreThose ==
  ASSUME StreamInv
  PROVE  /\ Frames = FramesOf(out) /\ FramesOf(out) \in Seq(Frame)
         /\ DOMAIN out = 1..Len(out) /\ Len(FramesOf(out)) = Len(out) /\ Len(out) \in Nat
         /\ CallsHeard = CallsIn(FramesOf(out))
<1>1. out \in Seq(Received)
  BY DEF StreamInv, StreamTyped
<1>2. Frames = FramesOf(out)
  BY DEF Frames, FramesOf
<1>3. DOMAIN out = 1..Len(out) /\ Len(out) \in Nat /\ DOMAIN FramesOf(out) = 1..Len(out)
  BY <1>1 DEF FramesOf
<1>4. \A i \in 1..Len(out) : FramesOf(out)[i] \in Frame
  <2>1. \A i \in 1..Len(out) : out[i] \in Received
    BY <1>1
  <2> QED
    BY <1>3, <2>1 DEF FramesOf, Received
<1>5. FramesOf(out) \in Seq(Frame) /\ Len(FramesOf(out)) = Len(out)
  <2> DEFINE h == FramesOf(out)
             n == Len(out)
  <2>1. h = [i \in 1..n |-> h[i]]
    BY <1>3 DEF FramesOf
  <2>2. n \in Nat /\ DOMAIN h = 1..n /\ \A i \in 1..n : h[i] \in Frame
    BY <1>3, <1>4
  <2> HIDE DEF h, n
  <2>3. h \in Seq(Frame) /\ Len(h) = n
    BY <2>1, <2>2
  <2> QED
    BY <2>3 DEF h, n
<1>6. CallsHeard = CallsIn(FramesOf(out))
  BY <1>2, <1>3 DEF CallsHeard, CallsIn, CallsOfEach, CallsOfFrame
<1> QED
  BY <1>2, <1>3, <1>5, <1>6

\* What is filed under an index is of the call last announced there.
LEMMA FiledReaches ==
  ASSUME NEW L \in Seq(CallParts), NEW idx, NEW met, Filed(L, idx, met)
  PROVE  /\ \A j \in DOMAIN L : L[j].args # 0 =>
              \E i \in 1..j :
                /\ L[i].named /\ L[i].index = L[j].index /\ L[i].call = L[j].call
                /\ \A k \in (i + 1)..j : L[k].named => L[k].index # L[i].index
         /\ \A i, j \in DOMAIN L : L[i].call = L[j].call <=> L[i].index = L[j].index
<1>1. DOMAIN L = 1..Len(L)
  OBVIOUS
<1>2. /\ \A j \in DOMAIN L : L[j].call \in met /\ L[j].index = idx[L[j].call]
      /\ \A c, d \in met : idx[c] = idx[d] => c = d
  BY <1>1 DEF Filed
<1>3. \A i, j \in DOMAIN L : L[i].call = L[j].call <=> L[i].index = L[j].index
  BY <1>2
<1>4. ASSUME NEW j \in DOMAIN L, L[j].args # 0
      PROVE  \E i \in 1..j :
               /\ L[i].named /\ L[i].index = L[j].index /\ L[i].call = L[j].call
               /\ \A k \in (i + 1)..j : L[k].named => L[k].index # L[i].index
  <2>1. Announced(L, L[j].call, L[j].index, j)
    BY <1>1, <1>4 DEF Filed
  <2> QED
    BY <2>1 DEF Announced
<1> QED
  BY <1>3, <1>4

\* The formats are those the gateway knows.
OfFormats == client \in ClientFormats /\ target \in TargetFormats

\* They stay so.
LEMMA FormatsInvariant == StreamSpec => []OfFormats
<1>1. StreamInit => OfFormats
  BY DEF StreamInit, OfFormats
<1>2. OfFormats /\ [StreamNext]_streamVars => OfFormats'
  BY DEF OfFormats, StreamNext, OpenAISends, OpenAIDone, AnthropicEnvelope, AnthropicOpens,
         AnthropicSends, GeminiSends, StreamEnds, Hears, streamVars
<1> QED
  BY <1>1, <1>2, PTL DEF StreamSpec

\* A conversion is missing for a Gemini upstream and an Anthropic client only.
LEMMA ConvertedIs ==
  ASSUME OfFormats
  PROVE  /\ target \in {"openai", "anthropic", "gemini"}
         /\ client = "anthropic" => (Converted <=> target # "gemini")
<1>1. target \in {"openai", "anthropic", "gemini"}
  BY StreamAssumption DEF OfFormats
<1>2. {"gemini", "anthropic"} = {"anthropic", "gemini"}
  OBVIOUS
<1>3. \A t : {t, "anthropic"} = {"anthropic", "gemini"} => t = "gemini"
  <2>1. \A t : {t, "anthropic"} = {"anthropic", "gemini"} => "gemini" \in {t, "anthropic"}
    OBVIOUS
  <2> QED
    BY <2>1
<1> QED
  BY <1>1, <1>2, <1>3 DEF Converted

\* The two invariants say that arguments reach their call.
LEMMA ReachTheirCall ==
  StreamInv /\ AnthropicFrames /\ OpenAIFrames /\ OfFormats => ArgsReachTheirCall
<1> SUFFICES ASSUME StreamInv, AnthropicFrames, OpenAIFrames, OfFormats PROVE ArgsReachTheirCall
  OBVIOUS
<1> DEFINE h == FramesOf(out)
           L == CallsIn(h)
<1>1. /\ Frames = h /\ h \in Seq(Frame) /\ DOMAIN out = 1..Len(h) /\ CallsHeard = L
  BY FramesAreThose
<1>2. ASSUME client = "anthropic", Converted, NEW i \in DOMAIN out, Frames[i].type = "block_delta"
      PROVE  OpenedFor(i)
  <2>1. target # "gemini"
    BY <1>2, ConvertedIs
  <2>2. AllOpened(h)
    BY <1>2, <2>1 DEF AnthropicFrames, Proper
  <2> HIDE DEF h
  <2>3. OpenedIn(h, i)
    BY <1>1, <1>2, <2>2 DEF AllOpened
  <2> QED
    BY <1>1, <2>3 DEF OpenedFor, OpenedIn, Fits, LiveAfter, BlockFrames
<1>3. L \in Seq(CallParts)
  BY <1>1, CallsOfEachIs
<1>4. client = "openai" /\ target # "gemini" => \E idx, met : Filed(L, idx, met)
  BY ConvertedIs DEF OpenAIFrames, FromAnthropic
<1> HIDE DEF h, L
<1>5. ASSUME client = "openai", target # "gemini"
      PROVE  /\ \A j \in DOMAIN L : L[j].args # 0 =>
                  \E i \in 1..j :
                    /\ L[i].named /\ L[i].index = L[j].index /\ L[i].call = L[j].call
                    /\ \A k \in (i + 1)..j : L[k].named => L[k].index # L[i].index
             /\ \A i, j \in DOMAIN L : L[i].call = L[j].call <=> L[i].index = L[j].index
  BY <1>3, <1>4, <1>5, FiledReaches
<1> QED
  BY <1>1, <1>2, <1>5 DEF ArgsReachTheirCall

\* A content lies in the block that was opened for it, and the arguments that
\* are filed under an index are those of the call last announced there.
THEOREM ArgumentsArrive == StreamSpec => []ArgsReachTheirCall
BY ReachTheirCall, StreamInvariant, FramesInvariant, FiledInvariant, FormatsInvariant, PTL

\* And that the stream is framed as its protocol says.
LEMMA FramedAsSaid ==
  StreamInv /\ AnthropicFrames /\ OpenAIFrames /\ OfFormats => WellFramed
<1> SUFFICES ASSUME StreamInv, AnthropicFrames, OpenAIFrames, OfFormats PROVE WellFramed
  OBVIOUS
<1> DEFINE h == FramesOf(out)
<1>1. /\ Frames = h /\ h \in Seq(Frame) /\ DOMAIN out = 1..Len(h) /\ Len(out) = Len(h)
  BY FramesAreThose
<1>2. client = "anthropic" /\ Converted => Proper(h, upstream.named)
  BY ConvertedIs DEF AnthropicFrames
<1>3. client = "openai" /\ target # "openai" => \E over : RoleFirst(h, over)
  BY ConvertedIs DEF OpenAIFrames, FromAnthropic, FromGemini
<1> HIDE DEF h
<1>4. Framed
  <2>1. ASSUME NEW i \in DOMAIN out, client = "anthropic", Converted
        PROVE  /\ Frames[i].type = "message_start" => i = 1
               /\ Frames[i].type = "block_delta" => Frames[1].type = "message_start"
               /\ Frames[i].type = "message_stop" => i = Len(out)
    BY <1>1, <1>2, <2>1 DEF Proper, Ended
  <2>2. ASSUME NEW i \in DOMAIN out, client = "openai", target # "openai"
        PROVE  /\ Frames[i].type = "chunk" => (Frames[i].role <=> i = 1)
               /\ Frames[i].type = "done" => i = Len(out)
    BY <1>1, <1>3, <2>2 DEF RoleFirst
  <2> QED
    BY <2>1, <2>2 DEF Framed
<1>5. ASSUME NEW c, upstream.named \subseteq {c} PROVE EveryBlockStops
  <2> SUFFICES ASSUME client = "anthropic", Converted,
                      \E i \in DOMAIN out : Frames[i].type = "message_stop",
                      NEW i \in DOMAIN out, Frames[i].type = "block_start"
               PROVE  \E j \in StopsAfter(i) : j > i /\ StopsAfter(i) = {j}
    BY DEF EveryBlockStops
  <2>1. PICK top : Balanced(h, {}, top)
    BY <1>1, <1>2, <1>5 DEF Proper
  <2>2. StoppedOnce(h, i)
    BY <1>1, <2>1 DEF Balanced
  <2>3. StopsAfter(i) = Stops(h, h[i].index)
    BY <1>1 DEF StopsAfter, Stops
  <2> QED
    BY <2>2, <2>3 DEF StoppedOnce
<1> QED
  BY <1>4, <1>5 DEF WellFramed

\* However upstreams pack roles, texts, calls and the end into chunks, messages
\* begin once, end once, and close each block once if they call one tool only.
THEOREM FramesBalanced == StreamSpec => []WellFramed
BY FramedAsSaid, StreamInvariant, FramesInvariant, FiledInvariant, FormatsInvariant, PTL

----------------------------------------------------------------------------
(* The blocks that a chunk can open.                                        *)

\* From s to t at most n blocks were counted.
BlocksCount(s, n, t) ==
  t \in Converters /\ s.blockIndex <= t.blockIndex /\ t.blockIndex <= s.blockIndex + n

\* An operation after another one.
LEMMA CountsThen ==
  ASSUME NEW s \in Converters, NEW m \in Nat, NEW t, BlocksCount(s, m, t),
         NEW n \in Nat, NEW u, BlocksCount(t, n, u)
  PROVE  BlocksCount(s, m + n, u)
<1>1. s.blockIndex \in Int /\ t.blockIndex \in Int /\ u.blockIndex \in Int
  BY DEF BlocksCount, Converters
<1> QED
  BY <1>1 DEF BlocksCount

\* The message, its texts and what is closed count no block.
LEMMA CountsNone ==
  ASSUME NEW s \in Converters
  PROVE  /\ BlocksCount(s, 0, s) /\ BlocksCount(s, 0, Started(s)) /\ BlocksCount(s, 0, CloseText(s))
         /\ \A n \in Nat : BlocksCount(s, 0, OnText(s, n))
         /\ \A c \in CallIdx : BlocksCount(s, 0, LeaveTool(s, c))
<1>1. s.blockIndex \in Int
  BY DEF Converters
<1>2. Started(s) \in Converters /\ CloseText(s) \in Converters
  BY StartedIs, CloseTextIs DEF Tells
<1>3. /\ \A n \in Nat : OnText(s, n) \in Converters
      /\ \A c \in CallIdx : LeaveTool(s, c) \in Converters
  BY OnTextIs, LeaveToolIs DEF Tells
<1>4. Started(s).blockIndex = s.blockIndex /\ CloseText(s).blockIndex = s.blockIndex
  BY DEF Started, CloseText, Emit, Converters
<1>5. ASSUME NEW n \in Nat PROVE OnText(s, n).blockIndex = s.blockIndex
  <2> DEFINE st == Started(s)
             opened == IF st.blockStarted THEN st
                       ELSE [Emit(st, BlockStart(s.blockIndex, "text", NotSeen)) EXCEPT !.blockStarted = TRUE]
  <2>1. OnText(s, n) = Emit(opened, Delta(s.blockIndex, TextOf(n)))
    BY DEF OnText
  <2>2. st \in Converters /\ st.blockIndex = s.blockIndex
    BY <1>2, <1>4
  <2> HIDE DEF st
  <2>3. opened.blockIndex = s.blockIndex /\ "blockIndex" \in DOMAIN opened
    BY <2>2 DEF Emit, Converters
  <2> HIDE DEF opened
  <2> QED
    BY <2>1, <2>3 DEF Emit
<1>6. ASSUME NEW c \in CallIdx PROVE LeaveTool(s, c).blockIndex = s.blockIndex
  BY DEF LeaveTool, Emit, Converters
<1> QED
  BY <1>1, <1>2, <1>3, <1>4, <1>5, <1>6 DEF BlocksCount

\* A call counts its own block and the text's before it.
LEMMA CountsCall ==
  ASSUME NEW s \in Converters, NEW call \in CallParts
  PROVE  BlocksCount(s, 2, OnCall(s, call))
<1> DEFINE c == call.call
           s1 == LeaveText(s)
           s2 == LeaveTool(s1, c)
           s3 == OpenTool(s2, c)
           opened == IF call.named THEN s3 ELSE s
<1>1. c \in CallIdx
  BY DEF CallParts
<1>2. OnCall(s, call) =
         IF call.args = 0 THEN opened
         ELSE Emit(opened, Delta(IndexOf(opened, c), ArgsOf(c, call.args)))
  BY DEF OnCall
<1>3. BlocksCount(s, 1, s1)
  <2>1. s1 \in Converters /\ CloseText(s) \in Converters /\ BlocksCount(s, 0, CloseText(s))
    <3>1. Tells(s, <<>>, s1) /\ Tells(s, <<>>, CloseText(s))
      BY LeaveTextIs, CloseTextIs
    <3>2. BlocksCount(s, 0, CloseText(s))
      BY CountsNone
    <3> HIDE DEF s1
    <3> QED
      BY <3>1, <3>2 DEF Tells
  <2>2. s.blockIndex \in Int /\ CloseText(s).blockIndex \in Int
    BY <2>1 DEF Converters
  <2>3. CloseText(s).blockIndex = s.blockIndex
    BY <2>1, <2>2 DEF BlocksCount
  <2>4. s1.blockIndex = IF s.blockStarted THEN CloseText(s).blockIndex + 1 ELSE CloseText(s).blockIndex
    BY <2>1 DEF LeaveText, Converters
  <2> HIDE DEF s1
  <2> QED
    BY <2>1, <2>2, <2>3, <2>4 DEF BlocksCount
<1>4. s1 \in Converters
  BY <1>3 DEF BlocksCount
<1> HIDE DEF s1
<1>5. BlocksCount(s1, 0, s2)
  BY <1>1, <1>4, CountsNone
<1>6. s2 \in Converters
  BY <1>5 DEF BlocksCount
<1> HIDE DEF s2
<1>7. BlocksCount(s2, 1, s3)
  <2>1. s3 \in Converters /\ s2.blockIndex \in Int
    BY <1>1, <1>6, OpenToolIs DEF Tells, Converters
  <2>2. s3.blockIndex = s2.blockIndex + 1
    BY <1>6 DEF OpenTool, Emit, Converters
  <2> HIDE DEF s3
  <2> QED
    BY <2>1, <2>2 DEF BlocksCount
<1> HIDE DEF s3
<1>8. BlocksCount(s, 1, s2)
  BY <1>3, <1>4, <1>5, CountsThen
<1>9. BlocksCount(s, 2, s3)
  BY <1>6, <1>7, <1>8, CountsThen
<1>10. BlocksCount(s, 2, opened)
  <2>1. BlocksCount(s, 2, s)
    BY DEF BlocksCount, Converters
  <2> QED
    BY <1>9, <2>1
<1>11. opened \in Converters
  BY <1>10 DEF BlocksCount
<1> HIDE DEF opened
<1>12. OnCall(s, call) \in Converters
  BY OnCallIs DEF Tells
<1>13. OnCall(s, call).blockIndex = opened.blockIndex
  BY <1>2, <1>11 DEF Emit, Converters
<1> QED
  BY <1>10, <1>12, <1>13 DEF BlocksCount

\* The calls of a chunk count two blocks each at most.
LEMMA CountsCalls ==
  ASSUME NEW s \in Converters, NEW calls \in Seq(CallParts)
  PROVE  BlocksCount(s, 2 * Len(calls), OnCalls(s, calls))
<1> DEFINE F == CHOOSE f : IsRun(s, calls, f)
<1>1. Len(calls) \in Nat /\ \A i \in 1..Len(calls) : calls[i] \in CallParts
  OBVIOUS
<1>2. IsRun(s, calls, F)
  BY <1>1, RunExists
<1>3. OnCalls(s, calls) = F[Len(calls)]
  BY DEF OnCalls, IsRun
<1> HIDE DEF F
<1>4. F[0] = s /\ \A i \in 1..Len(calls) : F[i] = OnCall(F[i - 1], calls[i])
  <2> DEFINE G == F
  <2>1. F = [i \in 0..Len(calls) |-> IF i = 0 THEN s ELSE OnCall(G[i - 1], calls[i])]
    BY <1>2 DEF IsRun
  <2> HIDE DEF G
  <2>2. F[0] = s /\ \A i \in 1..Len(calls) : F[i] = OnCall(G[i - 1], calls[i])
    BY <1>1, <2>1
  <2> QED
    BY <2>2 DEF G
<1> DEFINE good == {i \in 0..Len(calls) : BlocksCount(s, 2 * i, F[i])}
<1>5. 0 \in good
  BY <1>1, <1>4, CountsNone
<1>6. ASSUME NEW n \in 0..Len(calls), n \in good, n < Len(calls) PROVE n + 1 \in good
  <2>1. n \in Nat /\ n + 1 \in 1..Len(calls) /\ n + 1 \in 0..Len(calls) /\ (n + 1) - 1 = n
        /\ 2 * n \in Nat /\ 2 * n + 2 = 2 * (n + 1)
    BY <1>1, <1>6
  <2>2. BlocksCount(s, 2 * n, F[n]) /\ F[n] \in Converters
    BY <1>6 DEF BlocksCount
  <2>3. F[n + 1] = OnCall(F[n], calls[n + 1]) /\ calls[n + 1] \in CallParts
    BY <1>1, <1>4, <2>1
  <2>4. BlocksCount(F[n], 2, F[n + 1])
    BY <2>2, <2>3, CountsCall
  <2>5. BlocksCount(s, 2 * n + 2, F[n + 1])
    BY <2>1, <2>2, <2>4, CountsThen
  <2> QED
    BY <2>1, <2>5
<1> HIDE DEF good
<1>7. Len(calls) \in good
  <2>1. 0..Len(calls) \subseteq good
    BY <1>1, <1>5, <1>6, InductionUpTo
  <2> QED
    BY <1>1, <2>1
<1> QED
  BY <1>3, <1>7 DEF good

\* The end of a message counts none.
LEMMA CountsFinish == ASSUME NEW s \in Converters PROVE BlocksCount(s, 0, OnFinish(s))
<1> DEFINE t == CloseText(s)
           last == IF t.blockIndex > 0 THEN t.blockIndex - 1 ELSE 0
           closed == IF t.toolOpen THEN [Emit(t, BlockStop(last)) EXCEPT !.toolOpen = FALSE] ELSE t
<1>1. OnFinish(s) = Emit(Emit(closed, MessageDelta), MessageStop)
  BY DEF OnFinish
<1>2. BlocksCount(s, 0, t)
  BY CountsNone
<1> HIDE DEF t
<1>3. t \in Converters /\ t.blockIndex = s.blockIndex /\ s.blockIndex \in Int
  <2>1. t \in Converters
    BY <1>2 DEF BlocksCount
  <2>2. t.blockIndex \in Int /\ s.blockIndex \in Int
    BY <2>1 DEF Converters
  <2> QED
    BY <1>2, <2>1, <2>2 DEF BlocksCount
<1>4. closed.blockIndex = s.blockIndex /\ "blockIndex" \in DOMAIN closed
  BY <1>3 DEF Emit, Converters
<1> HIDE DEF closed
<1>5. OnFinish(s).blockIndex = s.blockIndex
  BY <1>1, <1>4 DEF Emit
<1>6. OnFinish(s) \in Converters
  BY OnFinishIs DEF Tells
<1> QED
  BY <1>3, <1>5, <1>6 DEF BlocksCount

\* A chunk counts two blocks for each of its calls at most.
LEMMA CountsChunk ==
  ASSUME NEW s \in Converters, NEW role \in BOOLEAN, NEW n \in Nat, NEW calls \in Seq(CallParts),
         NEW finish \in BOOLEAN
  PROVE  BlocksCount(s, 2 * Len(calls), OpenAIToAnthropic(s, Chunk(role, n, calls, finish)))
<1> DEFINE r == IF role THEN Started(s) ELSE s
           t == IF n # 0 THEN OnText(r, n) ELSE r
           u == IF calls # <<>> THEN OnCalls(Started(t), calls) ELSE t
<1>1. OpenAIToAnthropic(s, Chunk(role, n, calls, finish)) = IF finish THEN OnFinish(u) ELSE u
  BY DEF OpenAIToAnthropic, Chunk
<1>2. 2 * Len(calls) \in Nat
  OBVIOUS
<1>3. BlocksCount(s, 0, r) /\ r \in Converters
  BY CountsNone DEF BlocksCount
<1> HIDE DEF r
<1>4. BlocksCount(r, 0, t) /\ t \in Converters
  BY <1>3, CountsNone DEF BlocksCount
<1> HIDE DEF t
<1>5. BlocksCount(s, 0, t)
  BY <1>3, <1>4, CountsThen
<1>6. BlocksCount(t, 2 * Len(calls), u)
  <2>1. CASE calls = <<>>
    <3>1. BlocksCount(t, 0, t) /\ 2 * Len(calls) = 0
      BY <1>4, <2>1, CountsNone
    <3> QED
      BY <2>1, <3>1
  <2>2. CASE calls # <<>>
    <3>1. BlocksCount(t, 0, Started(t)) /\ Started(t) \in Converters
      BY <1>4, CountsNone DEF BlocksCount
    <3>2. BlocksCount(Started(t), 2 * Len(calls), OnCalls(Started(t), calls))
      BY <3>1, CountsCalls
    <3>3. BlocksCount(t, 0 + 2 * Len(calls), u)
      BY <1>2, <1>4, <2>2, <3>1, <3>2, CountsThen
    <3> QED
      BY <1>2, <3>3
  <2> QED
    BY <2>1, <2>2
<1> HIDE DEF u
<1>7. BlocksCount(s, 0 + 2 * Len(calls), u)
  BY <1>2, <1>4, <1>5, <1>6, CountsThen
<1>8. BlocksCount(s, 2 * Len(calls), u) /\ u \in Converters
  BY <1>2, <1>7 DEF BlocksCount
<1>9. BlocksCount(s, 2 * Len(calls) + 0, OnFinish(u))
  BY <1>2, <1>8, CountsFinish, CountsThen
<1> QED
  BY <1>1, <1>2, <1>8, <1>9

\* A chunk has no more than two calls, and as many as there are but one.
LEMMA FewCalls ==
  ASSUME StreamInv, NEW calls \in ToolCalls
  PROVE  Cardinality(CallIdx) \in Nat /\ Len(calls) <= 1 + Cardinality(CallIdx)
<1>1. Cardinality(CallIdx) \in Nat /\ (CallIdx # {} => Cardinality(CallIdx) > 0)
  BY StreamAssumption, FS_CardinalityType, FS_EmptySet
<1>2. calls \in Seq(CallParts) /\ {calls[i].call : i \in DOMAIN calls} \subseteq CallIdx
  BY CallsAre
<1>3. Len(calls) \in 0..2
  <2>1. \E S : calls \in InOneChunk(S)
    BY DEF ToolCalls
  <2> QED
    BY <2>1 DEF InOneChunk
<1>4. Len(calls) # 0 => CallIdx # {}
  <2>1. DOMAIN calls = 1..Len(calls)
    BY <1>2
  <2>2. Len(calls) # 0 => 1 \in DOMAIN calls
    BY <1>3, <2>1
  <2> QED
    BY <1>2, <2>2
<1>5. PICK n, c : n = Len(calls) /\ c = Cardinality(CallIdx)
  OBVIOUS
<1>6. c \in Nat /\ n \in 0..2 /\ (n # 0 => c > 0)
  BY <1>1, <1>3, <1>4, <1>5
<1>7. n <= 1 + c
  BY <1>6
<1> QED
  BY <1>5, <1>6, <1>7

\* Blocks per chunk.
PerChunk == 2 * (1 + Cardinality(CallIdx))

\* Chunks and attempts are within their bounds, and blocks are as many as the chunks
\* can open; only an OpenAI upstream has its blocks counted.
Bounded ==
  /\ attempt <= MaxAttempts
  /\ upstream.chunks <= MaxChunks + MaxEvents
  /\ target = "openai" => upstream.chunks <= MaxChunks
  /\ 0 <= conv.blockIndex
  /\ conv.blockIndex <= (IF target = "openai" THEN PerChunk * upstream.chunks ELSE 0)

\* Blocks per chunk are a number, and products of it grow.
LEMMA PerChunkIs ==
  /\ PerChunk \in Nat
  /\ \A n \in Nat : PerChunk * n \in Nat /\ PerChunk * (n + 1) = PerChunk * n + PerChunk
<1>1. Cardinality(CallIdx) \in Nat
  BY StreamAssumption, FS_CardinalityType
<1>2. PerChunk \in Nat
  BY <1>1 DEF PerChunk
<1>3. \A k, n \in Nat : k * n \in Nat /\ k * (n + 1) = k * n + k
  OBVIOUS
<1> QED
  BY <1>2, <1>3

\* A converter that has taken its frames has counted what it had counted.
LEMMA TakenIs ==
  ASSUME NEW frame, NEW cs, NEW u, Hears(frame, cs, u), NEW s \in Converters,
         s = Convert(conv, frame)
  PROVE  conv'.blockIndex = s.blockIndex /\ upstream' = u /\ attempt' = attempt
         /\ target' = target /\ client' = client
<1>1. conv' = [s EXCEPT !.parts = <<>>]
  BY DEF Hears
<1>2. conv'.blockIndex = s.blockIndex
  BY <1>1 DEF Converters
<1> QED
  BY <1>2 DEF Hears

\* It has counted no block, from s to t.
CountsStill(s, t) == t.blockIndex = s.blockIndex /\ "blockIndex" \in DOMAIN t

\* No other conversion counts blocks.
LEMMA CountsElsewhere ==
  ASSUME NEW s \in Converters, NEW frame,
         frame.type = "done" \/ <<target, client>> # <<"openai", "anthropic">>
  PROVE  CountsStill(s, Convert(s, frame))
<1>1. ASSUME NEW t, CountsStill(s, t), NEW f PROVE CountsStill(s, Emit(t, f))
  BY <1>1 DEF Emit, CountsStill
<1>2. CountsStill(s, s) /\ \A f : CountsStill(s, Emit(s, f))
  <2>1. CountsStill(s, s)
    BY DEF CountsStill, Converters
  <2> QED
    BY <1>1, <2>1
<1>3. CountsStill(s, AnthropicToOpenAI(s, frame))
  <2>1. ASSUME NEW b, NEW f PROVE CountsStill(s, Emit(Meet(s, b), f))
    <3>1. CountsStill(s, Meet(s, b))
      BY <1>2 DEF Meet, CountsStill, Converters
    <3> QED
      BY <1>1, <3>1
  <2> QED
    BY <1>2, <2>1 DEF AnthropicToOpenAI
<1>4. CountsStill(s, GeminiToOpenAI(s, frame))
  <2> DEFINE t == [s EXCEPT !.geminiFirstSent = TRUE]
  <2>1. CountsStill(s, t)
    BY DEF CountsStill, Converters
  <2> HIDE DEF t
  <2>2. ASSUME NEW f, NEW g
        PROVE  CountsStill(s, Emit(t, f)) /\ CountsStill(s, Emit(Emit(t, f), g))
    BY <1>1, <2>1
  <2> QED
    BY <2>2 DEF GeminiToOpenAI, t
<1>5. CountsStill(s, OpenAIToGemini(s, frame))
  BY <1>2 DEF OpenAIToGemini
<1>6. Convert(s, frame) \in {s, Emit(s, frame), AnthropicToOpenAI(s, frame), GeminiToOpenAI(s, frame),
                             OpenAIToGemini(s, frame)}
  BY ConvertCases
<1> QED
  BY <1>2, <1>3, <1>4, <1>5, <1>6

\* A step that hears a frame that opens no block.
LEMMA HearsBounded ==
  ASSUME StreamInv, Bounded, NEW frame, NEW cs, NEW u, Hears(frame, cs, u),
         frame.type = "done" \/ <<target, client>> # <<"openai", "anthropic">>,
         u.chunks \in Nat, upstream.chunks <= u.chunks,
         u.chunks <= MaxChunks + MaxEvents, target = "openai" => u.chunks <= MaxChunks
  PROVE  Bounded'
<1>1. conv \in Converters /\ upstream.chunks \in Nat /\ attempt \in Nat
  BY DEF StreamInv, StreamTyped, Upstreams
<1>2. PICK s : s = Convert(conv, frame)
  OBVIOUS
<1>3. CountsStill(conv, s)
  BY <1>1, <1>2, CountsElsewhere
<1>4. conv'.blockIndex = conv.blockIndex /\ upstream' = u /\ attempt' = attempt /\ target' = target
  <2>1. conv' = [s EXCEPT !.parts = <<>>]
    BY <1>2 DEF Hears
  <2>2. conv'.blockIndex = conv.blockIndex
    BY <1>3, <2>1 DEF CountsStill
  <2> QED
    BY <2>2 DEF Hears
<1>5. conv.blockIndex \in Int
  BY <1>1 DEF Converters
<1>6. PerChunk * upstream.chunks <= PerChunk * u.chunks
  BY <1>1, PerChunkIs
<1>7. PerChunk * upstream.chunks \in Nat /\ PerChunk * u.chunks \in Nat
  BY <1>1, PerChunkIs
<1>8. PerChunk' = PerChunk
  BY DEF PerChunk
<1> QED
  BY <1>4, <1>5, <1>6, <1>7, <1>8 DEF Bounded

\* A chunk of an OpenAI upstream, in whatever format the client has it.
LEMMA OpenAISendsBounded == ASSUME StreamInv, Bounded, OpenAISends PROVE Bounded'
<1>1. PICK role \in Roles, finish \in BOOLEAN, text \in {0, Ordinal}, calls \in ToolCalls :
        Hears(Chunk(role, text, calls, finish), ContentsIn(text, calls),
              [upstream EXCEPT !.chunks = @ + 1,
                               !.stage = IF finish THEN "finished" ELSE "talk",
                               !.named = @ \cup {calls[i].call : i \in DOMAIN calls}])
  BY DEF OpenAISends
<1> DEFINE frame == Chunk(role, text, calls, finish)
           u == [upstream EXCEPT !.chunks = @ + 1,
                               !.stage = IF finish THEN "finished" ELSE "talk",
                               !.named = @ \cup {calls[i].call : i \in DOMAIN calls}]
<1>2. /\ conv \in Converters /\ upstream \in Upstreams /\ upstream.chunks \in Nat
      /\ text \in Nat /\ target = "openai" /\ upstream.chunks < MaxChunks
      /\ MaxChunks \in Nat /\ MaxEvents \in Nat
  BY OrdinalIs, StreamAssumption DEF StreamInv, StreamTyped, OpenAISends
<1>3. u.chunks = upstream.chunks + 1
  BY <1>2 DEF Upstreams
<1>4. Hears(frame, ContentsIn(text, calls), u)
  BY <1>1
<1> HIDE DEF u
<1>5. CASE client # "anthropic"
  BY <1>2, <1>3, <1>4, <1>5, HearsBounded
<1>6. CASE client = "anthropic"
  <2>1. role \in BOOLEAN /\ calls \in Seq(CallParts)
    BY <1>6, CallsAre DEF Roles
  <2>2. Convert(conv, frame) = OpenAIToAnthropic(conv, frame)
    BY <1>2, <1>6, ConvertCases DEF Chunk
  <2>3. PICK s : s = OpenAIToAnthropic(conv, frame)
    OBVIOUS
  <2>4. BlocksCount(conv, 2 * Len(calls), s)
    BY <1>2, <2>1, <2>3, CountsChunk
  <2> HIDE DEF frame
  <2>5. conv'.blockIndex = s.blockIndex /\ upstream' = u /\ attempt' = attempt /\ target' = target
    BY <1>4, <2>2, <2>3, <2>4, TakenIs DEF BlocksCount
  <2>6. s.blockIndex \in Int /\ conv.blockIndex \in Int
    BY <1>2, <2>4 DEF BlocksCount, Converters
  <2>7. 2 * Len(calls) \in Nat /\ 2 * Len(calls) <= PerChunk
    <3>1. Len(calls) \in Nat /\ Cardinality(CallIdx) \in Nat /\ Len(calls) <= 1 + Cardinality(CallIdx)
      BY <2>1, FewCalls
    <3> QED
      BY <3>1 DEF PerChunk
  <2>8. PerChunk * u.chunks = PerChunk * upstream.chunks + PerChunk
    BY <1>2, <1>3, PerChunkIs
  <2>9. PerChunk * upstream.chunks \in Nat /\ PerChunk \in Nat
    BY <1>2, PerChunkIs
  <2>10. conv.blockIndex <= PerChunk * upstream.chunks /\ 0 <= conv.blockIndex /\ attempt <= MaxAttempts
    BY <1>2 DEF Bounded
  <2>11. 0 <= s.blockIndex /\ s.blockIndex <= PerChunk * u.chunks
    <3>1. PICK b, c, n, k, q : /\ b = conv.blockIndex /\ c = s.blockIndex /\ n = 2 * Len(calls)
                               /\ k = PerChunk /\ q = PerChunk * upstream.chunks
      OBVIOUS
    <3>2. b \in Int /\ c \in Int /\ n \in Nat /\ k \in Nat /\ q \in Nat
      BY <2>6, <2>7, <2>9, <3>1
    <3>3. b <= c /\ c <= b + n /\ n <= k /\ b <= q /\ 0 <= b
      BY <2>4, <2>7, <2>10, <3>1 DEF BlocksCount
    <3>4. 0 <= c /\ c <= q + k
      BY <3>2, <3>3
    <3> QED
      BY <2>8, <3>1, <3>4
  <2>12. u.chunks <= MaxChunks /\ u.chunks <= MaxChunks + MaxEvents
    BY <1>2, <1>3
  <2>13. PerChunk' = PerChunk
    BY DEF PerChunk
  <2> QED
    BY <1>2, <2>5, <2>10, <2>11, <2>12, <2>13 DEF Bounded
<1> QED
  BY <1>5, <1>6

\* The other steps that hear something open no block, and count a chunk at most.
LEMMA OthersBounded ==
  ASSUME StreamInv, Bounded,
         OpenAIDone \/ AnthropicEnvelope \/ AnthropicOpens \/ AnthropicSends \/ GeminiSends
  PROVE  Bounded'
<1>1. upstream \in Upstreams /\ upstream.chunks \in Nat /\ MaxChunks \in Nat /\ MaxEvents \in Nat
  BY OrdinalIs, StreamAssumption
<1>2. \A x : [upstream EXCEPT !.stage = x].chunks = upstream.chunks
  BY <1>1 DEF Upstreams
<1>3. CASE OpenAIDone
  <2>1. Hears(DoneFrame, <<>>, [upstream EXCEPT !.stage = "through"])
    BY <1>3 DEF OpenAIDone
  <2>2. PICK u : u = [upstream EXCEPT !.stage = "through"]
    OBVIOUS
  <2>3. u.chunks = upstream.chunks /\ DoneFrame.type = "done"
    BY <1>2, <2>2 DEF DoneFrame
  <2>4. upstream.chunks <= MaxChunks + MaxEvents /\ (target = "openai" => upstream.chunks <= MaxChunks)
    BY DEF Bounded
  <2>5. u.chunks \in Nat /\ upstream.chunks <= u.chunks
    BY <1>1, <2>3
  <2>6. Hears(DoneFrame, <<>>, u)
    BY <2>1, <2>2
  <2> QED
    BY <2>3, <2>4, <2>5, <2>6, HearsBounded
<1>4. CASE AnthropicEnvelope \/ AnthropicOpens \/ AnthropicSends
  <2>1. PICK frame, cs, u : /\ Hears(frame, cs, u)
                            /\ \/ u.chunks = upstream.chunks
                               \/ u.chunks = upstream.chunks + 1 /\ upstream.chunks < MaxEvents
    <3>1. CASE AnthropicEnvelope
      BY <1>2, <3>1 DEF AnthropicEnvelope
    <3>2. CASE AnthropicOpens
      <4>1. /\ \A x, y, z : [upstream EXCEPT !.chunks = @ + 1, !.kind = x, !.open = y, !.next = z].chunks
                              = upstream.chunks + 1
            /\ [upstream EXCEPT !.chunks = @ + 1].chunks = upstream.chunks + 1
        BY <1>1 DEF Upstreams
      <4>2. upstream.chunks < MaxEvents
        BY <3>2 DEF AnthropicOpens
      <4>3. CASE \E kind \in {"text", "tool"} :
                   Hears(BlockStart(upstream.next, kind, upstream.next), <<>>,
                         [upstream EXCEPT !.chunks = @ + 1, !.kind = kind,
                                          !.open = upstream.next, !.next = @ + 1])
        <5>1. PICK kind, z :
                Hears(BlockStart(upstream.next, kind, upstream.next), <<>>,
                      [upstream EXCEPT !.chunks = @ + 1, !.kind = kind, !.open = upstream.next, !.next = z])
          BY <4>3
        <5>2. PICK u : u = [upstream EXCEPT !.chunks = @ + 1, !.kind = kind, !.open = upstream.next,
                                            !.next = z]
          OBVIOUS
        <5>3. u.chunks = upstream.chunks + 1
          BY <4>1, <5>2
        <5> QED
          BY <4>2, <5>1, <5>2, <5>3
      <4>4. CASE Hears(BlockStart(upstream.open, "tool", upstream.open), <<>>,
                       [upstream EXCEPT !.chunks = @ + 1])
        BY <4>1, <4>2, <4>4
      <4> QED
        BY <3>2, <4>3, <4>4 DEF AnthropicOpens
    <3>3. CASE AnthropicSends
      <4>1. /\ [upstream EXCEPT !.chunks = @ + 1].chunks = upstream.chunks + 1
            /\ [upstream EXCEPT !.open = NoContent].chunks = upstream.chunks
        BY <1>1 DEF Upstreams
      <4> DEFINE content == IF upstream.kind = "text" THEN TextOf(Ordinal)
                            ELSE ArgsOf(upstream.open, Ordinal)
      <4>2. CASE /\ upstream.chunks < MaxEvents
                 /\ Hears(Delta(upstream.open, content), <<content>>, [upstream EXCEPT !.chunks = @ + 1])
        BY <4>1, <4>2
      <4>3. CASE Hears(BlockStop(upstream.open), <<>>, [upstream EXCEPT !.open = NoContent])
        BY <4>1, <4>3
      <4> QED
        BY <3>3, <4>2, <4>3 DEF AnthropicSends
    <3> QED
      BY <1>4, <3>1, <3>2, <3>3
  <2>2. target = "anthropic"
    BY <1>4 DEF AnthropicEnvelope, AnthropicOpens, AnthropicSends
  <2>3. /\ u.chunks \in Nat /\ upstream.chunks <= u.chunks /\ u.chunks <= MaxChunks + MaxEvents
        /\ target # "openai" /\ <<target, client>> # <<"openai", "anthropic">>
    BY <1>1, <2>1, <2>2 DEF Bounded
  <2> QED
    BY <2>1, <2>3, HearsBounded
<1>5. CASE GeminiSends
  <2>1. PICK text \in {0, Ordinal}, calls \in FunctionCalls, finish \in BOOLEAN :
          Hears(Candidate(text, calls, finish), ContentsIn(text, calls),
                [upstream EXCEPT !.chunks = @ + 1,
                                 !.named = @ \cup {calls[i].call : i \in DOMAIN calls},
                                 !.stage = IF finish THEN "through" ELSE "talk"])
    BY <1>5 DEF GeminiSends
  <2>2. PICK u : u = [upstream EXCEPT !.chunks = @ + 1,
                                 !.named = @ \cup {calls[i].call : i \in DOMAIN calls},
                                 !.stage = IF finish THEN "through" ELSE "talk"]
    OBVIOUS
  <2>3. u.chunks = upstream.chunks + 1
    BY <1>1, <2>2 DEF Upstreams
  <2>4. target = "gemini" /\ upstream.chunks < MaxChunks
    BY <1>5 DEF GeminiSends
  <2>5. /\ u.chunks \in Nat /\ upstream.chunks <= u.chunks /\ u.chunks <= MaxChunks + MaxEvents
        /\ target # "openai" /\ <<target, client>> # <<"openai", "anthropic">>
    BY <1>1, <2>3, <2>4
  <2> QED
    BY <2>1, <2>2, <2>5, HearsBounded
<1> QED
  BY <1>3, <1>4, <1>5

\* A new attempt starts from nothing.
LEMMA EndsBounded == ASSUME StreamInv, Bounded, StreamEnds PROVE Bounded'
<1>1. PerChunk' = PerChunk /\ attempt \in Nat /\ MaxAttempts \in Nat \ {0}
      /\ MaxChunks \in Nat /\ MaxEvents \in Nat
  BY StreamAssumption DEF PerChunk, StreamInv, StreamTyped
<1>2. CASE upstream' = NewUpstream /\ conv' = NewConverter /\ attempt' <= MaxAttempts
  <2>1. upstream'.chunks = 0 /\ conv'.blockIndex = 0
    BY <1>2 DEF NewUpstream, NewConverter
  <2>2. PerChunk * 0 = 0
    BY PerChunkIs
  <2> QED
    BY <1>1, <1>2, <2>1, <2>2 DEF Bounded
<1>3. CASE attempt' = 0 /\ UNCHANGED <<target, upstream, conv>>
  BY <1>1, <1>3 DEF Bounded
<1>4. \/ upstream' = NewUpstream /\ conv' = NewConverter /\ attempt' <= MaxAttempts
      \/ attempt' = 0 /\ UNCHANGED <<target, upstream, conv>>
  BY <1>1 DEF StreamEnds
<1> QED
  BY <1>2, <1>3, <1>4

\* At first nothing is counted, and every step keeps the bounds.
LEMMA BoundedStep ==
  /\ StreamInit => Bounded
  /\ StreamInv /\ Bounded /\ [StreamNext]_streamVars => Bounded'
<1>1. ASSUME StreamInit PROVE Bounded
  <2>1. attempt = 1 /\ upstream.chunks = 0 /\ conv.blockIndex = 0
    BY <1>1 DEF StreamInit, NewUpstream, NewConverter
  <2>2. PerChunk * 0 = 0
    BY PerChunkIs
  <2> QED
    BY <2>1, <2>2, StreamAssumption DEF Bounded
<1>2. ASSUME StreamInv, Bounded, StreamNext PROVE Bounded'
  BY <1>2, OpenAISendsBounded, OthersBounded, EndsBounded DEF StreamNext
<1>3. ASSUME Bounded, UNCHANGED streamVars PROVE Bounded'
  BY <1>3 DEF streamVars, Bounded, PerChunk
<1> QED
  BY <1>1, <1>2, <1>3

\* The types of the stream: what an upstream and the gateway count is bounded, and
\* the blocks of a message are as many as its chunks can open.
THEOREM StreamTypeCorrect == StreamSpec => []StreamTypeOK
<1>1. StreamInv /\ OfFormats /\ Bounded => StreamTypeOK
  <2> SUFFICES ASSUME StreamInv, OfFormats, Bounded PROVE StreamTypeOK
    OBVIOUS
  <2>1. /\ attempt \in Nat /\ upstream \in Upstreams /\ upstream.chunks \in Nat
        /\ conv \in Converters /\ conv.parts = <<>> /\ conv.blockIndex \in Int
        /\ OwnAttempt
    BY DEF StreamInv, StreamTyped, Upstreams, Converters
  <2>2. attempt \in 0..MaxAttempts /\ upstream.chunks \in 0..(MaxChunks + MaxEvents)
    BY <2>1, StreamAssumption DEF Bounded
  <2>3. upstream.named \subseteq CallIdx /\ upstream.stage \in {"begin", "talk", "finished", "through"}
        /\ conv.toolIdx \in [CallIdx -> Int]
    BY <2>1 DEF Upstreams, Converters
  <2>4. \A i \in DOMAIN out : out[i].by \in 0..MaxAttempts
    BY <2>1, <2>2 DEF OwnAttempt
  <2>5. conv.blockIndex \in 0..(PerChunk * MaxChunks)
    <3>1. MaxChunks \in Nat /\ PerChunk \in Nat /\ PerChunk * MaxChunks \in Nat
      BY PerChunkIs, StreamAssumption
    <3>2. CASE target = "openai"
      <4>1. PerChunk * upstream.chunks <= PerChunk * MaxChunks
        BY <2>1, <3>1, <3>2 DEF Bounded
      <4>2. PerChunk * upstream.chunks \in Nat
        BY <2>1, PerChunkIs
      <4> QED
        BY <2>1, <3>1, <3>2, <4>1, <4>2 DEF Bounded
    <3>3. CASE target # "openai"
      BY <2>1, <3>1, <3>3 DEF Bounded
    <3> QED
      BY <3>2, <3>3
  <2>6. PerChunk * MaxChunks = 2 * MaxChunks * (1 + Cardinality(CallIdx))
    <3>1. \A m, c \in Nat : (2 * (1 + c)) * m = 2 * m * (1 + c)
      OBVIOUS
    <3> QED
      BY <3>1, StreamAssumption, FS_CardinalityType DEF PerChunk
  <2> QED
    BY <2>1, <2>2, <2>3, <2>4, <2>5, <2>6 DEF StreamTypeOK, OfFormats
<1> QED
  BY <1>1, StreamInvariant, FormatsInvariant, BoundedStep, StreamInitially, StreamStep, PTL DEF StreamSpec
=============================================================================
