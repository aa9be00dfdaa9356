----------------------------- MODULE Definitions -----------------------------
(***************************************************************************)
(* What operators define: platforms, their credentials, the models (RAPIs) *)
(* they serve, the credentials each model is bound to, and the routes      *)
(* (LAPIs) with their chains of models.  The dashboard's handlers keep     *)
(* them in one of two stores with the same methods: the local SQLite, where*)
(* a method is a transaction, and the center's PostgREST, where it is one  *)
(* statement after another.                                                *)
(*                                                                         *)
(* A handler is a plan: a sequence of batches, each a sequence of          *)
(* statements that are executed together or not at all.                    *)
(***************************************************************************)
EXTENDS Integers, Sequences, FiniteSets, SequencesExt

CONSTANTS
  Backends,              \* of {"local", "center"}: the stores to consider
  Platforms, Creds, Models,
  Route,                 \* the one route there is
  Nil,
  Operators,
  FormKeys,              \* bound: a form names at most as many keys
  FirstRows              \* what the tables may hold when the operators come

ASSUME DefinitionsAssumption ==
  /\ Backends \subseteq {"local", "center"}
  /\ Nil \notin Platforms /\ IsFiniteSet(Creds) /\ IsFiniteSet(Models)
  /\ Operators \subseteq Nat /\ FormKeys \in Nat

VARIABLES
  backend,   \* store.A()
  tables,    \* the rows of the store
  plan,      \* what is left of each operator's handler
  asked,     \* what the operator has asked for
  alone,     \* history: operators nobody has come in between
  swallowed  \* history: operators whose handler has met an error and answers success

definitionVars == <<backend, tables, plan, asked, alone, swallowed>>

Places == 0..(Cardinality(Models) - 1)

\* platform.id; credential.platform_id; rapi.platform_id; endpoint_credential;
\* rapi.key_ids, in the local store only; lapi_rapi_order; what is enabled; and
\* the ids that were ever given out.
Tables == [platforms : SUBSET Platforms,
           home : [Creds -> Platforms \cup {Nil}],
           at : [Models -> Platforms \cup {Nil}],
           bound : SUBSET (Models \X Creds),
           column : [Models -> SUBSET Creds],
           route : BOOLEAN,
           order : SUBSET (Places \X Models),
           enabled : SUBSET (Platforms \cup Models \cup {Route}),
           used : SUBSET (Platforms \cup Creds \cup Models)]

KeysAt(t, p) == {k \in Creds : t.home[k] = p}
ModelsAt(t, p) == {m \in Models : t.at[m] = p}
Bound(t, m) == {k \in Creds : <<m, k>> \in t.bound}
Rows(t) == {m \in Models : t.at[m] # Nil}

\* RAPIWithPlatform.KeyIDs: the column, or the bindings as listRAPIs finds them.
KeyIDs(t, m) == IF backend = "local" THEN t.column[m] ELSE Bound(t, m)

\* filterKeysByKeyIDs: no ids are all keys of the platform.
PoolOf(t, m) ==
  LET keys == KeysAt(t, t.at[m])
  IN  IF KeyIDs(t, m) = {} THEN keys ELSE keys \cap KeyIDs(t, m)

\* What the local store keeps of rapi.key_ids and the bindings.
Derived(t) ==
  \A m \in Models : /\ t.column[m] = Bound(t, m)
                    /\ Bound(t, m) \subseteq KeysAt(t, t.at[m])

\* GetLAPIRAPIMapping.
Chain(t) ==
  LET ms == {pair[2] : pair \in t.order}
      place(m) == CHOOSE i \in Places : <<i, m>> \in t.order
      before(m) == {n \in ms : place(n) < place(m)}
  IN  [i \in 1..Cardinality(ms) |-> CHOOSE m \in ms : Cardinality(before(m)) = i - 1]

\* The rows there are at first refer to rows there are, and a chain has a place for
\* each model and a model in each place: UNIQUE(lapi_id, order_index).
ASSUME FirstRowsAssumption ==
  \A t \in FirstRows :
    /\ t \in Tables
    /\ \A k \in Creds : t.home[k] # Nil => k \in t.used
    /\ \A m \in Models : t.at[m] # Nil => m \in t.used
    /\ \A b \in t.bound : t.at[b[1]] # Nil /\ t.home[b[2]] # Nil
    /\ \A x \in t.order : t.at[x[2]] # Nil
    /\ \A x, y \in t.order : x[1] = y[1] <=> x[2] = y[2]

----------------------------------------------------------------------------
(* Statements.  One that violates a constraint gives Violated.              *)

Violated == [violated |-> TRUE]

\* refreshKeyIDsTx and refreshKeyIDsForPlatformTx.
Refreshed(t, ms) ==
  [t EXCEPT !.column = [m \in Models |-> IF m \in ms THEN Bound(t, m) ELSE t.column[m]]]

\* The rows of some models go, and with them their bindings and places.
WithoutModels(t, ms) ==
  [t EXCEPT !.at = [m \in Models |-> IF m \in ms THEN Nil ELSE t.at[m]],
            !.bound = {b \in t.bound : b[1] \notin ms},
            !.column = [m \in Models |-> IF m \in ms THEN {} ELSE t.column[m]],
            !.order = {pair \in t.order : pair[2] \notin ms},
            !.enabled = @ \ ms]

WithoutKeys(t, ks) ==
  [t EXCEPT !.home = [k \in Creds |-> IF k \in ks THEN Nil ELSE t.home[k]],
            !.bound = {b \in t.bound : b[2] \notin ks}]

\* Bound: a statement that finds no id left fails.
Exhausted(t, n) == Cardinality(Creds \ t.used) < n

NewIds(t, n) == {SetToSeq(Creds \ t.used)[i] : i \in 1..n}

\* A mutant: every key of the form is bound, not only the new ones.
WithKeysRebound(t, p, kept, new) ==
  LET exist == KeysAt(t, p)
      fresh == NewIds(t, Cardinality(kept \ exist) + new)
      with == [t EXCEPT !.home = [k \in Creds |-> IF k \in fresh THEN p ELSE @[k]],
                        !.used = @ \cup fresh,
                        !.bound = @ \cup (ModelsAt(t, p) \X (fresh \cup (exist \cap kept)))]
  IN  Refreshed(WithoutKeys(with, exist \ kept), ModelsAt(t, p))

\* SetPlatformKeys of the local store: ids that exist are kept, all others are
\* new; the new ones are bound to every model of the platform.
WithKeys(t, p, kept, new) ==
  LET exist == KeysAt(t, p)
      fresh == NewIds(t, Cardinality(kept \ exist) + new)
      with == [t EXCEPT !.home = [k \in Creds |-> IF k \in fresh THEN p ELSE @[k]],
                        !.used = @ \cup fresh,
                        !.bound = @ \cup (ModelsAt(t, p) \X fresh)]
  IN  Refreshed(WithoutKeys(with, exist \ kept), ModelsAt(t, p))

\* A mutant: a model that changes its platform keeps the ids it had.
WithBindingsUnchecked(t, m, p, keys) ==
  LET want == IF keys = {} THEN KeysAt(t, p) ELSE {k \in keys : t.home[k] # Nil}
      with == [t EXCEPT !.bound = {b \in t.bound : b[1] # m} \cup ({m} \X want)]
  IN  IF want # {} /\ t.at[m] = Nil THEN Violated ELSE Refreshed(with, {m})

\* syncBindingsTx: none are all keys of the platform; ids of other platforms
\* are dropped.
WithBindings(t, m, p, keys) ==
  LET want == IF keys = {} THEN KeysAt(t, p) ELSE keys \cap KeysAt(t, p)
      with == [t EXCEPT !.bound = {b \in t.bound : b[1] # m} \cup ({m} \X want)]
  IN  IF want # {} /\ t.at[m] = Nil THEN Violated ELSE Refreshed(with, {m})

Unless(condition, t) == IF condition THEN Violated ELSE t

\* CreatePlatform, CreateRAPI, UpdateRAPI: the row alone.
InsertPlatform(t, p) ==
  Unless(p \in t.used,
         [t EXCEPT !.platforms = @ \cup {p}, !.used = @ \cup {p}, !.enabled = @ \cup {p}])

InsertRAPI(t, m, p) ==
  Unless(p \notin t.platforms \/ m \in t.used,
         [t EXCEPT !.at[m] = p, !.used = @ \cup {m}, !.enabled = @ \cup {m}])

PatchRAPI(t, m, p, on) ==
  Unless(t.at[m] # Nil /\ p \notin t.platforms,
         IF t.at[m] = Nil THEN t
         ELSE [t EXCEPT !.at[m] = p, !.enabled = IF on THEN @ \cup {m} ELSE @ \ {m}])

\* replaceBindings posts the bindings one by one.
Bind(t, m, k) ==
  Unless(t.at[m] = Nil \/ t.home[k] = Nil \/ <<m, k>> \in t.bound,
         [t EXCEPT !.bound = @ \cup {<<m, k>>}])

ReplaceKeys(t, p, kept, new) ==
  Unless(p \notin t.platforms \/ Exhausted(t, Cardinality(kept) + new), WithKeys(t, p, kept, new))

\* AddPlatformKey of the local store binds the key to every model.
AddKey(t, p) ==
  Unless(p \notin t.platforms \/ Exhausted(t, 1), WithKeys(t, p, KeysAt(t, p), 1))

\* The center's does not.
InsertKey(t, p) ==
  Unless(p \notin t.platforms \/ Exhausted(t, 1),
         [t EXCEPT !.home = [k \in Creds |-> IF k \in NewIds(t, 1) THEN p ELSE @[k]],
                   !.used = @ \cup NewIds(t, 1)])

\* DeletePlatformKey.
DeleteKeyRow(t, k) ==
  IF backend = "center" THEN WithoutKeys(t, {k})
  ELSE Unless(t.home[k] = Nil, Refreshed(WithoutKeys(t, {k}), ModelsAt(t, t.home[k])))

\* DetachKeyFromRAPIs.
Detach(t, k) ==
  LET with == [t EXCEPT !.bound = {b \in @ : b[2] # k}]
  IN  IF backend = "local" THEN Refreshed(with, {m \in Models : <<m, k>> \in t.bound}) ELSE with

\* kept: not if anything refers to the row.
DeleteRAPIRow(t, m, kept) ==
  Unless(kept /\ \E i \in Places : <<i, m>> \in t.order, WithoutModels(t, {m}))

DeletePlatformRow(t, p, kept) ==
  Unless(kept /\ ModelsAt(t, p) # {},
         [WithoutKeys(WithoutModels(t, ModelsAt(t, p)), KeysAt(t, p)) EXCEPT
            !.platforms = @ \ {p}, !.enabled = @ \ {p}])

Link(t, i, m) ==
  Unless(\/ ~t.route \/ m \notin Rows(t)
         \/ \E pair \in t.order : pair[1] = i \/ pair[2] = m,
         [t EXCEPT !.order = @ \cup {<<i, m>>}])

SetEnabled(t, x, on) == [t EXCEPT !.enabled = IF on THEN @ \cup {x} ELSE @ \ {x}]

CreateLAPI(t) == [t EXCEPT !.route = TRUE, !.enabled = @ \cup {Route}]
DeleteLAPI(t) == [t EXCEPT !.route = FALSE, !.order = {}, !.enabled = @ \ {Route}]

Apply(t, s) ==
  CASE s.op = "insert platform" -> InsertPlatform(t, s.p)
    [] s.op = "insert rapi" -> InsertRAPI(t, s.m, s.p)
    [] s.op = "update rapi" -> PatchRAPI(t, s.m, s.p, s.on)
    [] s.op = "sync bindings" -> WithBindings(t, s.m, s.p, s.keys)
    [] s.op = "unbind rapi" -> [t EXCEPT !.bound = {b \in @ : b[1] # s.m}]
    [] s.op = "bind" -> Bind(t, s.m, s.k)
    [] s.op = "set keys" -> ReplaceKeys(t, s.p, s.keys, s.n)
    [] s.op = "add key" -> AddKey(t, s.p)
    [] s.op = "insert key" -> InsertKey(t, s.p)
    [] s.op = "delete keys" -> WithoutKeys(t, KeysAt(t, s.p))
    [] s.op = "delete key" -> DeleteKeyRow(t, s.k)
    [] s.op = "detach" -> Detach(t, s.k)
    [] s.op = "delete rapi" -> DeleteRAPIRow(t, s.m, s.kept)
    [] s.op = "delete platform" -> DeletePlatformRow(t, s.p, s.kept)
    [] s.op = "clear chain" -> [t EXCEPT !.order = {}]
    [] s.op = "link" -> Link(t, s.i, s.m)
    [] s.op = "enable" -> SetEnabled(t, s.x, s.on)
    [] s.op = "insert route" -> CreateLAPI(t)
    [] s.op = "delete route" -> DeleteLAPI(t)

\* A batch.
Applied(t, batch) ==
  LET after[i \in 0..Len(batch)] ==
        IF i = 0 THEN t
        ELSE IF after[i - 1] = Violated THEN Violated ELSE Apply(after[i - 1], batch[i])
  IN  after[Len(batch)]

----------------------------------------------------------------------------
(* Methods of the stores.                                                   *)

\* A transaction, or a call of PostgREST for each statement.
Tx(statements) ==
  IF backend = "local" THEN <<statements>>
  ELSE [i \in DOMAIN statements |-> <<statements[i]>>]

\* A mutant: what is there stays.
BindingsAdded(m, p, keys) ==
  IF backend = "local" THEN <<[op |-> "sync bindings", m |-> m, p |-> p, keys |-> keys]>>
  ELSE [i \in 1..Cardinality(keys) |-> [op |-> "bind", m |-> m, k |-> SetToSeq(keys)[i]]]

\* syncBindingsTx; replaceBindings.
Bindings(m, p, keys) ==
  IF backend = "local" THEN <<[op |-> "sync bindings", m |-> m, p |-> p, keys |-> keys]>>
  ELSE <<[op |-> "unbind rapi", m |-> m]>>
         \o [i \in 1..Cardinality(keys) |-> [op |-> "bind", m |-> m, k |-> SetToSeq(keys)[i]]]

CreateRAPI(m, p, keys) == Tx(<<[op |-> "insert rapi", m |-> m, p |-> p]>> \o Bindings(m, p, keys))
UpdateRAPI(m, p, keys, on) ==
  Tx(<<[op |-> "update rapi", m |-> m, p |-> p, on |-> on]>> \o Bindings(m, p, keys))

SetLAPIRAPIOrder(ms) ==
  Tx(<<[op |-> "clear chain"]>> \o [i \in DOMAIN ms |-> [op |-> "link", i |-> i - 1, m |-> ms[i]]])

SetPlatformKeys(p, kept, new) ==
  IF backend = "local"
  THEN <<<<[op |-> "set keys", p |-> p, keys |-> kept, n |-> new]>>>>
  ELSE Tx(<<[op |-> "delete keys", p |-> p]>>
            \o [i \in 1..(Cardinality(kept) + new) |-> [op |-> "insert key", p |-> p]])

\* AddPlatformKey: in the center nothing is bound.
AddPlatformKey(p) ==
  IF backend = "local"
  THEN <<<<[op |-> "add key", p |-> p]>>>>
  ELSE <<<<[op |-> "insert key", p |-> p]>>>>

\* The local store alone looks for children before it deletes; in the center
\* the foreign keys take them along.
DeleteRAPI(m, force) ==
  <<<<[op |-> "delete rapi", m |-> m, kept |-> ~force /\ backend = "local"]>>>>
DeletePlatform(p, force) ==
  <<<<[op |-> "delete platform", p |-> p, kept |-> ~force /\ backend = "local"]>>>>

----------------------------------------------------------------------------
(* Handlers.                                                                *)

Known(S) == S \cap tables.used

\* The forms operators may send, however old the page they were filled in on:
\* ids that were deleted since are among them, ids of rows yet to come are not.
Requests ==
  LET Listed == {ks \in SUBSET Known(Creds) : Cardinality(ks) <= FormKeys} IN
  [op : {"create platform"}, p : Platforms \ tables.used]
  \cup [op : {"create rapi"}, m : Models \ tables.used, p : Known(Platforms),
       keys : Listed]
  \cup [op : {"save rapi"}, m : Known(Models), p : Known(Platforms),
       keys : Listed, on : BOOLEAN]
  \cup [op : {"delete rapi"}, m : Known(Models), force : BOOLEAN]
  \cup [op : {"delete platform"}, p : Known(Platforms), force : BOOLEAN]
  \cup [op : {"save keys"}, p : Known(Platforms), kept : Listed, new : 0..1]
  \cup [op : {"add key"}, p : Known(Platforms)]
  \cup [op : {"delete key"}, k : Known(Creds)]
  \cup [op : {"toggle platform"}, p : Known(Platforms), on : BOOLEAN]
  \cup [op : {"toggle"}, x : Known(Models) \cup {Route}, on : BOOLEAN]
  \cup [op : {"create route", "delete route"}]
  \cup [op : {"save chain"}, ms : SeqOf(Known(Models), Cardinality(Models))]

\* Before the first request.
Nothing == [op |-> "nothing"]

Enable(x, on) == <<<<[op |-> "enable", x |-> x, on |-> on]>>>>

\* What is active is not deleted; what fails (available) the local store may
\* delete all the same.
Inactive(x) == x \in tables.enabled => backend = "local"

\* What the handlers do, a batch at a time.  "map" and "toggle models" stand for
\* what they do once they have read the tables again.
PostRAPI(r) == Append(CreateRAPI(r.m, r.p, r.keys), <<[op |-> "map", m |-> r.m]>>)

PutRAPI(r) == UpdateRAPI(r.m, r.p, r.keys, r.on)

DropKey(r) == <<<<[op |-> "detach", k |-> r.k]>>, <<[op |-> "delete key", k |-> r.k]>>>>

TogglePlatform(r) ==
  Append(Enable(r.p, r.on), <<[op |-> "toggle models", p |-> r.p, on |-> r.on]>>)

Handler(r) ==
  CASE r.op = "create platform" -> <<<<[op |-> "insert platform", p |-> r.p]>>>>
    [] r.op = "create rapi" -> PostRAPI(r)
    [] r.op = "save rapi" -> PutRAPI(r)
    [] r.op = "delete rapi" -> DeleteRAPI(r.m, r.force)
    [] r.op = "delete platform" -> DeletePlatform(r.p, r.force)
    [] r.op = "save keys" -> SetPlatformKeys(r.p, r.kept, r.new)
    [] r.op = "add key" -> AddPlatformKey(r.p)
    [] r.op = "delete key" -> DropKey(r)
    [] r.op = "toggle platform" -> TogglePlatform(r)
    [] r.op = "toggle" -> Enable(r.x, r.on)
    [] r.op = "create route" -> <<<<[op |-> "insert route"]>>>>
    [] r.op = "delete route" -> <<<<[op |-> "delete route"]>>>>
    [] r.op = "save chain" -> SetLAPIRAPIOrder(r.ms)

MayDeleteRAPI(m) == tables.at[m] # Nil /\ Inactive(m)
MayDeletePlatform(p) == p \in tables.platforms /\ Inactive(p)
MayDeleteRoute == tables.route /\ Route \notin tables.enabled

MayBegin(r) ==
  CASE r.op = "delete rapi" -> MayDeleteRAPI(r.m)
    [] r.op = "delete platform" -> MayDeletePlatform(r.p)
    [] r.op = "delete route" -> MayDeleteRoute
    [] r.op = "create route" -> ~tables.route
    [] OTHER -> TRUE

DefinitionsInit ==
  /\ backend \in Backends
  /\ tables \in FirstRows
  /\ backend = "local" => Derived(tables)
  /\ plan = [o \in Operators |-> <<>>]
  /\ asked = [o \in Operators |-> Nothing]
  /\ alone = [o \in Operators |-> FALSE]
  /\ swallowed = {}

\* One request of each operator.  They are alike, so they come by number.
Request(o) ==
  /\ asked[o] = Nothing
  /\ \A q \in Operators : q < o => asked[q] # Nothing
  /\ \E r \in Requests :
       /\ MayBegin(r)
       /\ asked' = [asked EXCEPT ![o] = r]
       /\ plan' = [plan EXCEPT ![o] = Handler(r)]
  /\ alone' = [alone EXCEPT ![o] = TRUE]
  /\ swallowed' = swallowed \ {o}
  /\ UNCHANGED <<backend, tables>>

\* autoMapRAPItoLAPI: the chain as it is now, and the model behind it.
MapToRoute(t, m) ==
  IF ~t.route \/ m \in Range(Chain(t)) THEN <<>> ELSE SetLAPIRAPIOrder(Append(Chain(t), m))

\* /api/platforms/toggle goes on with the models it finds now.
ToggleModels(t, p, on) ==
  [i \in 1..Cardinality(ModelsAt(t, p)) |->
     <<[op |-> "enable", x |-> SetToSeq(ModelsAt(t, p))[i], on |-> on]>>]

\* What a handler goes on with once it has read the tables t.
ReadOn(t, s) == IF s.op = "map" THEN MapToRoute(t, s.m) ELSE ToggleModels(t, s.p, s.on)

ReadsNext(o) == plan[o] # <<>> /\ Head(Head(plan[o])).op \in {"map", "toggle models"}

Read(o) ==
  /\ ReadsNext(o)
  /\ plan' = [plan EXCEPT ![o] = ReadOn(tables, Head(Head(@))) \o Tail(@)]
  /\ UNCHANGED <<backend, tables, asked, alone, swallowed>>

\* It cannot read them: autoMapRAPItoLAPI returns, /api/platforms/toggle goes on
\* with no models.  Either way the answer is success.
Misread(o) ==
  /\ ReadsNext(o)
  /\ plan' = [plan EXCEPT ![o] = Tail(@)]
  /\ swallowed' = swallowed \cup {o}
  /\ UNCHANGED <<backend, tables, asked, alone>>

Pending(o) == plan[o] # <<>> /\ ~ReadsNext(o)

Result(o) == Applied(tables, Head(plan[o]))

Runs(o) ==
  /\ Pending(o)
  /\ Result(o) # Violated
  /\ tables' = Result(o)
  /\ alone' = [q \in Operators |-> alone[q] /\ (q = o \/ tables' = tables)]
  /\ plan' = [plan EXCEPT ![o] = Tail(@)]
  /\ UNCHANGED <<backend, asked, swallowed>>

\* What autoMapRAPItoLAPI has left once it has read the chain: its errors are
\* logged, and the handler answers with success.
Mapping(o) ==
  asked[o].op = "create rapi" /\ \A i \in DOMAIN plan[o] : Head(plan[o][i]).op # "map"

\* A constraint, the disk or the network; the handler answers with the error,
\* unless it swallows it.
GivesUp(o) ==
  /\ Pending(o)
  /\ plan' = [plan EXCEPT ![o] = <<>>]
  /\ alone' = [alone EXCEPT ![o] = @ /\ Mapping(o)]
  /\ swallowed' = swallowed \cup {q \in {o} : Mapping(q)}
  /\ UNCHANGED <<backend, tables, asked>>

\* The center has done it, its answer is lost.
AnswerLost(o) ==
  /\ backend = "center"
  /\ Pending(o)
  /\ Result(o) # Violated
  /\ tables' = Result(o)
  /\ alone' = [q \in Operators |-> alone[q] /\ (IF q = o THEN Mapping(o) ELSE tables' = tables)]
  /\ plan' = [plan EXCEPT ![o] = <<>>]
  /\ swallowed' = swallowed \cup {q \in {o} : Mapping(q)}
  /\ UNCHANGED <<backend, asked>>

DefinitionsNext ==
  \E o \in Operators :
    Request(o) \/ Read(o) \/ Misread(o) \/ Runs(o) \/ GivesUp(o) \/ AnswerLost(o)

DefinitionsSpec == DefinitionsInit /\ [][DefinitionsNext]_definitionVars

----------------------------------------------------------------------------
(* Properties                                                               *)

DefinitionsTypeOK ==
  /\ backend \in Backends
  /\ tables \in Tables
  /\ DOMAIN plan = Operators /\ DOMAIN asked = Operators
  /\ alone \in [Operators -> BOOLEAN]
  /\ swallowed \subseteq Operators

\* In the local store rapi.key_ids is derived (credential.go): whatever the
\* operators do, it names the model's bindings, and a model is bound to keys of
\* its own platform only ("Phase 1: a binding does not cross platforms").
PoolsDerived == backend = "local" => Derived(tables)

\* The keys operator o's request gives model m.
Given(o, m) ==
  IF asked[o].op = "save rapi" /\ asked[o].m = m /\ plan'[o] # plan[o]
  THEN (IF asked[o].keys = {} THEN Creds ELSE asked[o].keys)
  ELSE {}

Gains(m) ==
  (PoolOf(tables', m) \ PoolOf(tables, m))
    \ ((tables'.used \ tables.used) \cup UNION {Given(o, m) : o \in Operators})

\* A key is never handed to a model that was not meant to use it: a model's pool
\* grows by keys that are new, or that its own form names, or because the last
\* key of its whitelist went: an empty whitelist is all keys, where the dashboard
\* warns that the model will have none.
PoolGrowsByConsent ==
  [][backend = "local" =>
       \A m \in Rows(tables) \cap Rows(tables') : Gains(m) # {} => tables'.column[m] = {}]_definitionVars

\* The tables t are as the request r asks for; and as what the handler of r does
\* on its own account leaves them: a model joins the route of its name, the models
\* of a platform are switched with it.
Granted(t, r) ==
  CASE r.op = "save rapi" ->
         t.at[r.m] # Nil =>
           /\ t.at[r.m] = r.p
           /\ r.m \in t.enabled <=> r.on
           /\ LET keys == KeysAt(t, r.p)
              IN  PoolOf(t, r.m) =
                    IF r.keys \cap keys = {} /\ (backend = "local" \/ r.keys = {})
                    THEN keys ELSE r.keys \cap keys
    [] r.op = "create rapi" -> t.at[r.m] = r.p
    [] r.op = "save keys" -> Cardinality(KeysAt(t, r.p)) = Cardinality(r.kept) + r.new
    [] r.op = "delete key" -> t.home[r.k] = Nil
    [] r.op = "toggle platform" -> (r.p \in t.enabled <=> r.on)
    [] r.op = "save chain" -> Chain(t) = r.ms
    [] OTHER -> TRUE

Followed(t, r) ==
  CASE r.op = "create rapi" -> (t.route => r.m = Last(Chain(t)))
    [] r.op = "toggle platform" -> \A m \in ModelsAt(t, r.p) : m \in t.enabled <=> r.on
    [] OTHER -> TRUE

\* An operation that answers with success, and that nobody came in between of,
\* has left what was asked, in either store and whatever the operations before
\* it left half done ("rerunning is idempotent", store.go).  What follows from it
\* is done too, unless the handler has swallowed an error: then the model that was
\* created is at its platform and may be on no route (autoMapRAPItoLAPI), where in
\* the center the others may be missing too, and the platform is switched, its
\* models are not (/api/platforms/toggle).
SavedAsAsked ==
  \A o \in Operators : alone[o] /\ plan[o] = <<>> =>
    /\ Granted(tables, asked[o])
    /\ o \notin swallowed => Followed(tables, asked[o])
=============================================================================
