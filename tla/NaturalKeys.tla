----------------------------- MODULE NaturalKeys -----------------------------
(***************************************************************************)
(* The start of the gateway on a database that an earlier version left:    *)
(* the migrations that change rows, the last of them to natural keys (a    *)
(* key is its token, a model its platform and name, a platform its         *)
(* normalised URL).  Every statement outside a transaction is a step; the  *)
(* natural-key migration is one transaction, whose steps see tx, and a     *)
(* crash undoes it.  Tables are functions from ids to rows.  There is one  *)
(* route; columns no step looks at, token_cache among them, are left out,  *)
(* and so are the migrations that only add or drop columns.                *)
(*                                                                         *)
(* An earlier version that runs on a migrated database, as the comments    *)
(* and the tests tell of it, is external.                                  *)
(***************************************************************************)
EXTENDS Integers, FiniteSets, FiniteSetsExt, Functions

CONSTANTS
  OldDatabases,              \* what an earlier version may leave
  NoDb,
  Secrets, Names, URLs,      \* tokens; models and aliases; normalised base_urls
  NoToken, NoModel, NoURL,   \* the empty token, model and base_url
  AddedTokens,               \* of keys made with an earlier version
  Faults                     \* bounds crashes, restarts, deletions, downgrades

ASSUME FaultsAssumption == Faults \in Nat /\ AddedTokens \subseteq Secrets

VARIABLES
  db,       \* what is committed
  tx,       \* what the open transaction sees, else db
  phase,    \* where the start has got to
  todo,     \* rows the current loop has still to visit
  idOf,     \* idMap: the credential of every row of platform_keys so far
  report,   \* NaturalKeyReport
  before,   \* history: the database as the transaction began
  deleted,  \* history: tokens an operator deleted
  faults

upgradeVars == <<db, tx, phase, todo, idOf, report, before, deleted, faults>>

NoReport ==
  [created |-> 0, keys |-> {}, rapis |-> {}, platforms |-> {}, renormalised |-> {}]

UpgradeInit ==
  /\ db \in OldDatabases /\ tx = db
  /\ phase = "off" /\ todo = {} /\ idOf = <<>>
  /\ report = NoReport /\ before = NoDb /\ deleted = {}
  /\ faults = Faults

Commit(d) == db' = d /\ tx' = d

----------------------------------------------------------------------------
(* Tables.                                                                  *)

IsTable(rows, S) ==
  rows \in [DOMAIN rows -> S] /\ DOMAIN rows \subseteq Nat /\ IsFiniteSet(DOMAIN rows)

PlatformRows == [url : URLs \cup {NoURL}, raw : BOOLEAN, token : Secrets \cup {NoToken}]
RAPIRows ==
  [platform : Nat, alias : Names, model : Names \cup {NoModel}, keyIDs : SUBSET Nat]
KeyRows == [platform : Nat, token : Secrets \cup {NoToken}, kind : {"named", "default", "more"}]
CredentialRows == [platform : Nat, token : Secrets \cup {NoToken}]

\* A table with one more row, or one row changed; and without a row.
With(rows, id, row) == [k \in DOMAIN rows \cup {id} |-> IF k = id THEN row ELSE rows[k]]
Without(rows, id) == Restrict(rows, DOMAIN rows \ {id})

----------------------------------------------------------------------------
(* What the rows say.                                                       *)

Token(d, c) == d.creds[c].token
Tokens(rows) == {rows[k].token : k \in DOMAIN rows} \ {NoToken}

\* A model as its natural key names it.  Without a name it is its row, and a
\* platform without a URL, or that is gone, is its row.
Endpoint(d, r) ==
  LET row == d.rapis[r]
      addressed == row.platform \in DOMAIN d.platforms /\ d.platforms[row.platform].url # NoURL
  IN  <<IF addressed THEN d.platforms[row.platform].url ELSE row.platform,
        IF row.model = NoModel THEN r ELSE row.model>>

\* UNIQUE(platform_id, alias) until the migration, idx_rapi_platform_model after.
Allowed(d) ==
  \A q, r \in DOMAIN d.rapis :
    q # r /\ d.rapis[q].platform = d.rapis[r].platform =>
      IF d.unique = "none"
      THEN d.rapis[q].model = NoModel \/ d.rapis[q].model # d.rapis[r].model
      ELSE d.rapis[q].alias # d.rapis[r].alias

Duplicates(d) ==
  {r \in DOMAIN d.rapis :
     /\ d.rapis[r].model # NoModel
     /\ \E q \in DOMAIN d.rapis :
          /\ q < r
          /\ d.rapis[q].platform = d.rapis[r].platform
          /\ d.rapis[q].model = d.rapis[r].model}

SamePlatform(d, p) ==
  {p} \cup {q \in DOMAIN d.platforms :
              d.platforms[q].url = d.platforms[p].url /\ d.platforms[q].url # NoURL}

Canonical(d, p) ==
  IF p \in DOMAIN d.platforms THEN Min(SamePlatform(d, p)) ELSE p

\* Rows of an earlier version are taken for keys like any other.
ResidueNever(d) == FALSE

\* Every row was made from platform.token by an earlier version, on a database
\* that has its credentials already.
Residue(d) ==
  /\ d.keyTable /\ d.creds # <<>> /\ d.keys # <<>>
  /\ \A k \in DOMAIN d.keys :
       /\ d.keys[k].kind = "default"
       /\ d.keys[k].platform \in DOMAIN d.platforms
       /\ d.keys[k].token = d.platforms[d.keys[k].platform].token

\* Rows are re-pointed from old to new, and go where the new one exists already.
RePointed(pairs, i, old, new) ==
  {IF b[i] = old THEN [b EXCEPT ![i] = new] ELSE b : b \in pairs}

\* What an earlier version leaves is a database of its own schema, with its
\* constraint on aliases, and no credentials, at most the table for them.
ASSUME OldDatabasesAssumption ==
  \A d \in OldDatabases :
    /\ d = [platforms |-> d.platforms, rapis |-> d.rapis, keys |-> d.keys, keyTable |-> d.keyTable,
            creds |-> <<>>, credTable |-> d.credTable, seq |-> 0, bound |-> {}, chain |-> d.chain,
            traffic |-> d.traffic, blocks |-> d.blocks, unique |-> d.unique]
    /\ IsTable(d.platforms, PlatformRows) /\ IsTable(d.rapis, RAPIRows) /\ IsTable(d.keys, KeyRows)
    /\ {d.keyTable, d.credTable} \subseteq BOOLEAN /\ (d.keys # <<>> => d.keyTable)
    /\ d.chain \subseteq DOMAIN d.rapis
    /\ IsTable(d.traffic, Nat) /\ DOMAIN d.traffic \subseteq DOMAIN d.rapis
    /\ d.blocks \subseteq Nat \X Nat
    /\ d.unique \in {"platform", "global"} /\ (d.credTable => d.unique = "platform")
    /\ Allowed(d)

----------------------------------------------------------------------------
(* The steps before the natural keys.                                       *)

Start ==
  /\ phase \in {"off", "failed"} /\ phase' = "keys"
  /\ todo' = {} /\ idOf' = <<>> /\ report' = NoReport /\ before' = NoDb
  /\ UNCHANGED <<db, tx, deleted, faults>>

\* A credential table without rows may be what a migration that failed left.
CreateKeyTable ==
  /\ phase = "keys"
  /\ IF db.credTable /\ db.creds # <<>>
     THEN phase' = "alias" /\ UNCHANGED <<db, tx>>
     ELSE phase' = "backfill" /\ Commit([db EXCEPT !.keyTable = TRUE])
  /\ UNCHANGED <<todo, idOf, report, before, deleted, faults>>

\* One row for every platform that has a token of its own and no row with
\* key_index 0.
WithDefaults(d) ==
  LET wanting == {p \in DOMAIN d.platforms :
                    /\ d.platforms[p].token # NoToken
                    /\ \A k \in DOMAIN d.keys :
                         d.keys[k].platform = p => d.keys[k].kind = "more"}
      id(p) == Max({0} \cup DOMAIN d.keys) + Cardinality({q \in wanting : q <= p})
      of(k) == CHOOSE p \in wanting : id(p) = k
  IN  [k \in DOMAIN d.keys \cup {id(p) : p \in wanting} |->
         IF k \in DOMAIN d.keys THEN d.keys[k]
         ELSE [platform |-> of(k), token |-> d.platforms[of(k)].token, kind |-> "default"]]

Backfill ==
  /\ phase = "backfill" /\ phase' = "alias"
  /\ Commit([db EXCEPT !.keys = WithDefaults(db)])
  /\ UNCHANGED <<todo, idOf, report, before, deleted, faults>>

\* The table is copied and dropped with foreign keys enforced: the rows that
\* refer to it, of the route and the statistics, go with it.
PerPlatformAlias ==
  /\ phase = "alias" /\ phase' = "inspect"
  /\ IF db.credTable \/ db.unique # "global"
     THEN UNCHANGED <<db, tx>>
     ELSE Commit([db EXCEPT !.unique = "platform", !.chain = {}, !.traffic = <<>>])
  /\ UNCHANGED <<todo, idOf, report, before, deleted, faults>>

----------------------------------------------------------------------------
(* MigrateNaturalKeysConn.                                                  *)

Natural(d) == d.credTable /\ ~d.keyTable /\ d.unique = "none"

Inspect ==
  /\ phase = "inspect"
  /\ IF Natural(db)
     THEN phase' = "clean" /\ UNCHANGED <<tx, todo, before>>
     ELSE /\ before' = db
          /\ IF db.keyTable /\ ~Residue(db)
             THEN /\ phase' = "move" /\ todo' = DOMAIN db.keys
                  /\ tx' = [db EXCEPT !.credTable = TRUE]
             ELSE /\ phase' = "dedupe" /\ UNCHANGED todo
                  /\ tx' = [db EXCEPT !.credTable = TRUE, !.keyTable = FALSE, !.keys = <<>>]
  /\ UNCHANGED <<db, idOf, report, deleted, faults>>

\* Trusts that the credentials are as many as there were rows: none yet.
NewIdKept(d, k) == k

\* A row keeps its id unless a credential has it.
NewId(d, k) == IF k \in DOMAIN d.creds THEN d.seq + 1 ELSE k

\* A token that is known, by a credential there was or by an earlier row, makes
\* no second one.  INSERT with an id that is taken fails.
MoveKey ==
  /\ phase = "move" /\ todo # {}
  /\ LET k == Min(todo)
         row == tx.keys[k]
         known == {c \in DOMAIN tx.creds : row.token # NoToken /\ Token(tx, c) = row.token}
         id == NewId(tx, k)
     IN  \/ /\ known # {}
            /\ idOf' = With(idOf, k, Min(known))
            /\ report' = [report EXCEPT !.keys = @ \cup
                            IF k \in known THEN {} ELSE {<<Min(known), k>>}]
            /\ todo' = todo \ {k} /\ UNCHANGED <<tx, phase>>
         \/ /\ known = {} /\ id \notin DOMAIN tx.creds
            /\ tx' = [tx EXCEPT
                        !.creds = With(@, id, [platform |-> row.platform, token |-> row.token]),
                        !.seq = Max({@, id})]
            /\ idOf' = With(idOf, k, id)
            /\ report' = [report EXCEPT !.created = @ + 1]
            /\ todo' = todo \ {k} /\ UNCHANGED phase
         \/ /\ known = {} /\ id \in DOMAIN tx.creds
            /\ phase' = "failed" /\ tx' = db
            /\ UNCHANGED <<todo, idOf, report>>
  /\ UNCHANGED <<db, before, deleted, faults>>

KeysMoved ==
  /\ phase = "move" /\ todo = {} /\ phase' = "remap"
  /\ todo' = {k \in DOMAIN idOf : idOf[k] # k}
  /\ UNCHANGED <<db, tx, idOf, report, before, deleted, faults>>

\* In the order of a Go map.
Remap(k) ==
  /\ phase = "remap" /\ k \in todo
  /\ todo' = todo \ {k}
  /\ tx' = [tx EXCEPT !.blocks = RePointed(@, 1, k, idOf[k])]
  /\ UNCHANGED <<db, phase, idOf, report, before, deleted, faults>>

\* The list of a model names its keys; an empty one means those of the platform.
Bindings(d, r) ==
  IF d.rapis[r].keyIDs = {}
  THEN {c \in DOMAIN d.creds : d.creds[c].platform = d.rapis[r].platform}
  ELSE {IF k \in DOMAIN idOf THEN idOf[k] ELSE k : k \in d.rapis[r].keyIDs}

Bind ==
  /\ phase = "remap" /\ todo = {} /\ phase' = "dedupe"
  /\ tx' = [tx EXCEPT
              !.bound = @ \cup UNION {{r} \X Bindings(tx, r) : r \in DOMAIN tx.rapis},
              !.keys = <<>>, !.keyTable = FALSE]
  /\ UNCHANGED <<db, todo, idOf, report, before, deleted, faults>>

\* Forgets the route: rows are deleted where they were to be re-pointed.
MergedRAPIUnrouted(d, keep, dup) ==
  [d EXCEPT
     !.chain = @ \ {dup},
     !.traffic = Without(@, dup),
     !.blocks = RePointed(@, 2, dup, keep),
     !.bound = RePointed(@, 1, dup, keep),
     !.rapis = Without(@, dup)]

\* What refers to dup refers to keep; its traffic is added.
MergedRAPI(d, keep, dup) ==
  LET total == MapThenSumSet(LAMBDA r : d.traffic[r], {keep, dup} \cap DOMAIN d.traffic)
      moved == IF dup \in DOMAIN d.traffic
               THEN With(Without(d.traffic, dup), keep, total)
               ELSE d.traffic
  IN  [d EXCEPT
         !.chain = {IF r = dup THEN keep ELSE r : r \in @},
         !.traffic = moved,
         !.blocks = RePointed(@, 2, dup, keep),
         !.bound = RePointed(@, 1, dup, keep),
         !.rapis = Without(@, dup)]

MergeRAPI ==
  /\ phase \in {"dedupe", "dedupe again"} /\ Duplicates(tx) # {}
  /\ LET dup == Min(Duplicates(tx))
         keep == Min({r \in DOMAIN tx.rapis :
                        /\ tx.rapis[r].platform = tx.rapis[dup].platform
                        /\ tx.rapis[r].model = tx.rapis[dup].model})
     IN  /\ tx' = MergedRAPI(tx, keep, dup)
         /\ report' = [report EXCEPT !.rapis = @ \cup {dup}]
  /\ UNCHANGED <<db, phase, todo, idOf, before, deleted, faults>>

RAPIsMerged ==
  /\ phase \in {"dedupe", "dedupe again"} /\ Duplicates(tx) = {}
  /\ phase' = IF phase = "dedupe" THEN "platforms" ELSE "finish"
  /\ UNCHANGED <<db, tx, todo, idOf, report, before, deleted, faults>>

Normalise ==
  /\ phase = "platforms" /\ phase' = "merge"
  /\ tx' = [tx EXCEPT !.platforms = [p \in DOMAIN @ |-> [tx.platforms[p] EXCEPT !.raw = FALSE]]]
  /\ report' = [report EXCEPT !.renormalised = {p \in DOMAIN tx.platforms : tx.platforms[p].raw}]
  /\ UNCHANGED <<db, todo, idOf, before, deleted, faults>>

\* Moves the models and keys of p to the first platform of its URL.  The old
\* constraints still hold, so that two models of one alias cannot meet.
MergePlatform(p) ==
  LET keep == Canonical(tx, p)
      to(rows) == [k \in DOMAIN rows |->
                     IF rows[k].platform = p THEN [rows[k] EXCEPT !.platform = keep] ELSE rows[k]]
      merged == [tx EXCEPT !.rapis = to(@), !.creds = to(@),
                           !.platforms = Without(@, p)]
  IN  /\ phase = "merge" /\ keep # p
      /\ IF Allowed(merged)
         THEN /\ tx' = merged /\ UNCHANGED phase
              /\ report' = [report EXCEPT !.platforms = @ \cup {<<keep, p>>}]
         ELSE phase' = "failed" /\ tx' = db /\ UNCHANGED report
      /\ UNCHANGED <<db, todo, idOf, before, deleted, faults>>

PlatformsMerged ==
  /\ phase = "merge" /\ phase' = "dedupe again"
  /\ \A p \in DOMAIN tx.platforms : Canonical(tx, p) = p
  /\ UNCHANGED <<db, tx, todo, idOf, report, before, deleted, faults>>

\* A table is copied, without its old constraints.
Rebuilt(d) == [d EXCEPT !.unique = "none"]

\* key_ids becomes what the bindings say.
Projected(d) ==
  [d EXCEPT !.rapis = [r \in DOMAIN @ |->
     [d.rapis[r] EXCEPT !.keyIDs = {b[2] : b \in {x \in d.bound : x[1] = r}}]]]

\* The tables are rebuilt, the indexes on natural keys are made.
Rebuild ==
  /\ phase = "finish"
  /\ IF Allowed(Rebuilt(tx))
     THEN Commit(Projected(Rebuilt(tx))) /\ phase' = "clean"
     ELSE phase' = "failed" /\ tx' = db /\ UNCHANGED db
  /\ UNCHANGED <<todo, idOf, report, before, deleted, faults>>

----------------------------------------------------------------------------
(* After it, and around it.                                                 *)

\* Models whose platform is gone go, with all that refers to them.
WithoutOrphans(d) ==
  LET here == {r \in DOMAIN d.rapis : d.rapis[r].platform \in DOMAIN d.platforms} IN
    [d EXCEPT
       !.rapis = Restrict(@, here),
       !.chain = @ \cap here,
       !.traffic = Restrict(@, DOMAIN @ \cap here),
       !.blocks = {b \in @ : b[2] \in here},
       !.bound = {b \in @ : b[1] \in here}]

CleanUp ==
  /\ phase = "clean" /\ phase' = "up"
  /\ Commit(WithoutOrphans(db))
  /\ UNCHANGED <<todo, idOf, report, before, deleted, faults>>

Disturbed == faults > 0 /\ faults' = faults - 1

Crash ==
  /\ phase \notin {"off", "failed"} /\ phase' = "off"
  /\ Disturbed /\ tx' = db
  /\ UNCHANGED <<db, todo, idOf, report, before, deleted>>

\* Bindings and blocks go with the key.  When the last key goes, the next start
\* takes the database for one that is not migrated: no token is deleted for good.
DeleteKey(c) ==
  /\ phase = "up" /\ c \in DOMAIN db.creds /\ Disturbed
  /\ LET rest == Without(db.creds, c) IN
       /\ Commit(Projected([db EXCEPT !.creds = rest,
                                      !.bound = {b \in @ : b[2] # c},
                                      !.blocks = {b \in @ : b[1] # c}]))
       /\ deleted' = IF rest = <<>> THEN {} ELSE deleted \cup ({Token(db, c)} \ {NoToken})
  /\ UNCHANGED <<phase, todo, idOf, report, before>>

\* An earlier version starts on the migrated database: it makes a platform_keys
\* of its own; a key may be made with it, which makes its rows count.  (It may
\* make platforms too, whose URLs it does not normalise: left out.  The platforms
\* of OldDatabases have such URLs, and every start merges them anew.)
Downgrade(added) ==
  /\ phase = "up" /\ phase' = "off" /\ Disturbed
  /\ added # NoToken => DOMAIN db.platforms # {}
  /\ LET rows == WithDefaults([db EXCEPT !.keys = <<>>])
         new == Max(DOMAIN rows \cup {0}) + 1
         row == [platform |-> Min(DOMAIN db.platforms), token |-> added, kind |-> "more"]
     IN  Commit([db EXCEPT !.keyTable = TRUE,
                           !.keys = IF added = NoToken THEN rows ELSE With(rows, new, row)])
  /\ deleted' = IF added = NoToken THEN deleted ELSE {}
  /\ UNCHANGED <<todo, idOf, report, before>>

UpgradeNext ==
  \/ Start \/ CreateKeyTable \/ Backfill \/ PerPlatformAlias
  \/ Inspect \/ MoveKey \/ KeysMoved \/ (\E k \in todo : Remap(k)) \/ Bind
  \/ MergeRAPI \/ RAPIsMerged
  \/ Normalise \/ (\E p \in DOMAIN tx.platforms : MergePlatform(p)) \/ PlatformsMerged
  \/ Rebuild \/ CleanUp
  \/ Crash
  \/ \E c \in DOMAIN db.creds : DeleteKey(c)
  \/ \E t \in AddedTokens \cup {NoToken} : Downgrade(t)

UpgradeSpec == UpgradeInit /\ [][UpgradeNext]_upgradeVars

----------------------------------------------------------------------------
(* PreviewNaturalKeyMigration.                                              *)

FirstWith(rows, k) == Min({j \in DOMAIN rows : rows[j].token = rows[k].token})

\* As if platforms did not merge.
CollidingPerRow(d) == Duplicates(d)

\* Models that meet an earlier one of their name when platforms have merged.
Colliding(d) ==
  {r \in DOMAIN d.rapis :
     /\ d.rapis[r].model # NoModel
     /\ \E q \in DOMAIN d.rapis :
          /\ q < r
          /\ d.rapis[q].model = d.rapis[r].model
          /\ Canonical(d, d.rapis[q].platform) = Canonical(d, d.rapis[r].platform)}

Preview(d) ==
  LET again == {k \in DOMAIN d.keys : d.keys[k].token # NoToken /\ FirstWith(d.keys, k) # k}
      merging == {p \in DOMAIN d.platforms : Canonical(d, p) # p}
  IN  [created |-> Cardinality(DOMAIN d.keys \ again),
       keys |-> {<<FirstWith(d.keys, k), k>> : k \in again},
       rapis |-> Colliding(d),
       platforms |-> {<<Canonical(d, p), p>> : p \in merging},
       renormalised |-> {p \in DOMAIN d.platforms : d.platforms[p].raw}]

----------------------------------------------------------------------------
(* Properties.                                                              *)

Phases == {"off", "keys", "backfill", "alias", "inspect", "move", "remap", "dedupe", "platforms",
           "merge", "dedupe again", "finish", "clean", "up", "failed"}

WellTyped(d) ==
  /\ DOMAIN d.keys # {} => d.keyTable
  /\ DOMAIN d.creds # {} => d.credTable
  /\ \A c \in DOMAIN d.creds : c <= d.seq
  /\ d.chain \subseteq DOMAIN d.rapis /\ DOMAIN d.traffic \subseteq DOMAIN d.rapis
  /\ d.unique \in {"global", "platform", "none"}
  /\ \A b \in d.bound : b[1] \in DOMAIN d.rapis

\* The tables are well formed, inside the transaction too: no id is above its
\* sequence, the route, the statistics and the bindings are those of models.
UpgradeTypeOK ==
  /\ phase \in Phases /\ faults \in 0..Faults
  /\ WellTyped(db) /\ WellTyped(tx)

Migrated == phase = "clean" /\ before # NoDb

\* The first migration, of a database that has no credentials yet.
First == before.creds = <<>>

TokensKept ==
  /\ Tokens(before.creds) \subseteq Tokens(db.creds)
  /\ ~Residue(before) => Tokens(before.keys) \subseteq Tokens(db.creds)
  /\ \A b, c \in DOMAIN db.creds : Token(db, b) = Token(db, c) /\ Token(db, b) # NoToken => b = c

RoutesKept ==
  {Endpoint(db, r) : r \in db.chain} = {Endpoint(before, r) : r \in before.chain}

TrafficOf(d, e) ==
  MapThenSumSet(LAMBDA r : d.traffic[r], {r \in DOMAIN d.traffic : Endpoint(d, r) = e})

TrafficKept ==
  \A r \in DOMAIN before.rapis :
    TrafficOf(db, Endpoint(before, r)) = TrafficOf(before, Endpoint(before, r))

Blocked(rows, d) ==
  {<<rows[b[1]].token, Endpoint(d, b[2])>> :
     b \in {x \in d.blocks : x[1] \in DOMAIN rows /\ x[2] \in DOMAIN d.rapis}}

BlocksKept == First => Blocked(db.creds, db) = Blocked(before.keys, before)

BoundTokens(e) ==
  {Token(db, b[2]) : b \in {x \in db.bound : x[2] \in DOMAIN db.creds /\ Endpoint(db, x[1]) = e}}

OldTokens(r) ==
  LET row == before.rapis[r] IN
    {before.keys[k].token :
       k \in {j \in DOMAIN before.keys :
                IF row.keyIDs = {} THEN before.keys[j].platform = row.platform
                ELSE j \in row.keyIDs}}

\* A list keeps what it named; nothing is bound that no model merged here used.
ListsKept ==
  First =>
    \A r \in DOMAIN before.rapis :
      /\ before.rapis[r].keyIDs # {} => OldTokens(r) \subseteq BoundTokens(Endpoint(before, r))
      /\ BoundTokens(Endpoint(before, r)) \subseteq
           UNION {OldTokens(q) :
                    q \in {x \in DOMAIN before.rapis : Endpoint(before, x) = Endpoint(before, r)}}

\* Duplicates merge, and what refers to them, the route, the statistics, the
\* blocks and the lists, follows the one that is kept; every token has one row.
\* Blocks and lists are compared for a first migration only: with credentials
\* present the ids of the two tables mean different keys.
NothingLost ==
  Migrated => TokensKept /\ RoutesKept /\ TrafficKept /\ BlocksKept /\ ListsKept

\* The gateway starts from whatever was left, residues and colliding ids
\* included; except that two platforms of one URL may each have a model of one
\* alias, which the merge cannot hold before the tables are rebuilt.
StartFailsOnlyOnClash ==
  phase = "failed" =>
    /\ db.unique = "platform"
    /\ \E q, r \in DOMAIN db.rapis :
         /\ q # r /\ db.rapis[q].alias = db.rapis[r].alias
         /\ db.rapis[q].platform # db.rapis[r].platform
         /\ Canonical(db, db.rapis[q].platform) = Canonical(db, db.rapis[r].platform)

\* "The same rules as MigrateNaturalKeysConn" (PreviewNaturalKeyMigration): what
\* the dry run tells of a first migration is what the migration then does.
PreviewTruthful == Migrated /\ First => report = Preview(before)

\* A key that was deleted does not come back out of platform.token when an
\* earlier version has run in between; unless it was the last key, or a key made
\* with that version makes its rows count (DeleteKey, Downgrade).
DeletedStaysDeleted == phase = "up" => deleted \cap Tokens(db.creds) = {}
=============================================================================
