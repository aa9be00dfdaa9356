# Verification of apiGateway

The gateway accepts requests for a *logical* model (LAPI) in one of three
protocols and serves each from a chain of *real* models (RAPIs) of several
platforms, each with a pool of credentials (keys). Operators define these
through a dashboard, in the local SQLite store or in a center that several
gateways (edges) share.

What is hard about it is state that lives in two places and is changed by many:
health in the scheduler's memory and in rows, definitions at the edge and in the
center, an answer at the upstream and at the client, a database written by one
version and opened by another. This directory models those parts in TLA+,
checks them with TLC and proves the central ones with TLAPS.

Paths below are relative to `src/internal/` of the repository.

1. [The system](#1-the-system) 2. [Modules](#2-modules) 3. [Runs](#3-runs)
4. [Bounds and fairness](#4-bounds-and-fairness) 5. [Proofs](#5-proofs)
6. [Divergences](#6-divergences) 7. [Not modelled](#7-not-modelled-and-why)
8. [Plan](#8-plan)

## 1. The system

| Component | State | Operations | Module |
|---|---|---|---|
| `fsm` | state and `wakeAt` of one entity | `Fire`, `Advance`, `SetTimer` | `EntityFSM` |
| `entity` Key, RAPI | machine, failure count | `On...` events, `Sync`, `Pickable`, `AlignCooldownTo` | `EntityFSM`, effects in `KeyHealth`, `Failover` |
| `scheduler` credentials | `keys` | `PickAvailableKey`, `MarkKey...`, `RemoveKey`, recovery loop | `KeyHealth` |
| `scheduler` cursors, `logger/session.go` | `keyCursors`, open connections | rotation, eviction, session ids | `KeyCursor` |
| `scheduler` RAPIs | `rapis` | `PickAvailable`, `Mark...`, `InvalidateRAPI`, `RevalidateRAPI` | `Failover` |
| `scheduler` wait queue | length and generation per LAPI, one condition variable | `Wait`, `clearQueueLocked`, broadcasts | `WaitQueue` |
| `gateway` requests | a request's copies of RAPIs and keys | both handlers, `tryKeyForRAPI`, `markPoolExhausted`, `handleAllKeysUnavailable` | `Failover`, `KeyHealth` |
| `gateway` capability blocks | `blocks`, table `key_model_blocks` | look, purge, block, unblock, clear, reload | `CapabilityBlocks` |
| `gateway` recovery, `service/catalog_sync.go` | `rapi.available`, streaks, `key_model_probe` | rounds, judgements, probes | `CatalogSync` |
| `apiformat/convert_stream.go` and the streaming half of the gateway | the converter's fields, bytes written | events of three protocols, failover of a stream | `StreamConvert` |
| `service` endpoints, `db`, `supabase/store.go` | platforms, keys, models, bindings, routes | create, save, toggle, delete, in either store | `Definitions` |
| `service/sync*.go`, `bundle`, `supabase`, `db/bundle_*.go` | rows of both sides, versions, dirty flag, generation, lock | poll, pull, merge, push back, push, management mode | `EdgeSync`, `VersionedCopy` |
| `db/migrate_natural_keys.go`, migrations of `db/db.go` | the whole database | the start, its migrations, dry run | `NaturalKeys` |
| Platform machine, cost order, requests and responses, observation, commands | | | section 7 |

### How they interact

```
 requests (one goroutine each)        operators, catalog, probes        center
   | load rows once (snapshot)           | 1. write rows                  | bundle replaces
   v                                     v 2. tell the scheduler          v the edge's rows
 gateway --- methods under ONE mutex --> scheduler <-- recovery loop    rows <-> dirty flag
   | blocks: memory, then table          |  Key / RAPI machines --effects write--> rows
   v                                     |  one cond, a queue per LAPI
 stream converter -> client
```

* A method of `scheduler.Manager` runs under one mutex, the row writes of the
  machines' effects included (`persist` callbacks run inside `Fire`). It is one
  atomic step; what the gateway does *between* two methods is not.
* A request loads its RAPIs and key rows once and decides from that copy until
  it ends. Copies of different age coexist, and `PickAvailableKey` pulls the
  shared machine toward the copy of whoever calls it (`Key.Sync`).
* Operators, the catalog and probes change the row first and tell the scheduler
  in a second step. A capability block changes in memory first and in the table
  second.
* `Wait` sleeps on one condition variable shared by all models; watchers of
  contexts broadcast on it without the mutex.
* The synchronisation's rounds hold `syncOpMu`; operators' writes do not. The
  dirty flag, its generation and `last_good_version` tell a round what it missed.
* SQLite runs a handler's statements in transactions, the center runs each as
  an HTTP request of its own.
* Many statements to the local SQLite drop their error (`_ =`, `x, _ :=`, a line
  in the log): writes of health and blocks, reads of a push, the dirty flag, the
  cascade of a switch. What the caller then does is part of the models.

### What is hard, and what makes each part correct

* **Credentials.** Rows of different age, an answer that arrives after a
  decision, a probe in two steps. *What is handed out may serve; the dead come
  back only on evidence; memory agrees with the row; a cooldown ends.*
* **Wait queue.** Lost wake-ups, counts on every way out, clears that hit the
  wrong requests. *Counts are exact, nobody goes on early, a queue is cleared
  only by a deadline, everybody returns.*
* **Failover.** Snapshots against operators, pools judged from old rows. *A
  request is refused only if nothing will recover; a frozen RAPI has a cause a
  probe can see; a late answer thaws nothing.*
* **Key cursors.** Eviction inside the call that adds. *No key starves.*
* **Capability blocks.** Expiry seen under one lock and purged under another,
  memory and table written apart. *A denied key is not asked again; a restart
  finds what the memory held, where the writes have come through.*
* **Catalog.** Judgements over several rounds, statements interleaved with
  probes and requests. *Out only on proof of absence, back only after the
  confirmations, and back in the end.*
* **Streams.** Fields an upstream packs as it likes; a second upstream after
  half an answer. *Everything arrives once, in order, in its own block, from one
  upstream.*
* **Definitions.** Handlers of several statements in a store without
  transactions, forms that are old. *Saved is what was asked; a key is never
  handed to a model that was not meant to use it.*
* **Edge and center.** A push that fails half way, an edit during a round, a
  crash between two steps. *In sync means the same; a marked edit survives
  what is not an ignored error; a failed push is retried; undisturbed, the edge ends up with the center's rows.*
* **Start and migrations.** A crash between any two statements, an earlier
  version in between. *Nothing is lost; the gateway starts again; what was deleted
  stays deleted; the dry run tells the truth.*

`PROJECT.json` lists every hazard at its line with the properties that cover it.

## 2. Modules

| Module | Role |
|---|---|
| `EntityFSM` | operators on Key and RAPI machines; used by `KeyHealth`, `Failover` |
| `KeyHealth`, `Failover`, `WaitQueue`, `KeyCursor`, `CapabilityBlocks`, `CatalogSync`, `StreamConvert`, `Definitions`, `EdgeSync`, `NaturalKeys` | one component each |
| `VersionedCopy` | what `EdgeSync` promises; refined by it |
| `Upstreams` | the constants `Keys`, `Rapis`, `NoKey` that modules of one run share |
| `Services` | six components that share no state, explored one at a time |
| `Store` | the upgrade of a database and its synchronisation, one at a time |
| `MCKeyHealth`, `MCFailover`, `MCServices`, `MCEdgeSync` | instances for TLC; the last two of `Services` and `Store` |
| `NaturalFacts` | the least number and induction up to a number, for the proofs below |
| `KeyHealthProofs`, `FailoverProofs`, `VersionedCopyProofs` | theorems about the module of that name |
| `GatewayProofs` | theorems about `CapabilityBlocks` and `StreamConvert` |
| `ServiceProofs` | theorems about `WaitQueue`, `KeyCursor`, `CatalogSync` and `Services` |
| `DefinitionsProofs` | theorems about `Definitions` |
| `StoreProofs` | theorems about `EdgeSync`, `NaturalKeys` and `Store` |

**Why one at a time.** In `Services` and `Store` the constant variable
`part` says which component moves. The components of `Services` have no
variable in common, and each property speaks of one of them, so no behaviour of
the product says more than one of the component. The upgrade ends before the
gateway starts its first round of synchronisation. A component that is not
explored is parked in one of its first states, its fairness is guarded by `part`,
and its liveness is stated where it is explored (`EveryWaitReturns` is `WaitReturns`
of `WaitQueue`, `EverythingOfferedComesBack` is `OfferedComesBack` of `CatalogSync`).

**Mutants.** A definition called `...Unchecked`, `...Not`, and so on, with the
comment "A mutant", is the definition after it with a plausible mistake. Nothing
uses it; substituted, it breaks the property that `PROJECT.json` names.

### EntityFSM

A machine is a record of its state and its timer; an event is an operator from
machine to machine. Every event of `Key.register` and `RAPI.register` has one
destination, so a table is a set of source states per event and the
destination. Time is counted **down**: a timer is the number of units until
`wakeAt`, `0` a `wakeAt` that has been reached, `NoTimer` Go's zero time. Only
absolute time is lost, which the code uses in differences alone.

### KeyHealth

| Model | Code |
|---|---|
| `key[k]`, `row[k]` | `Manager.keys[k]`; the row's `enabled`, `failure_type`, `expires_at` |
| `req[r].snap` | the rows the request loaded (`loadKeysForRAPIs`) |
| `Load`, `PickKey`, `PickNone`, `Escalate` | load, `PickAvailableKey` (found, none), key half of `MarkPoolExhausted` |
| `Success`, `NetworkFailure`, `TemporaryFailure`, `PlatformFailure` | the branches of `tryKeyForRAPI` on the answer |
| `RecoveryLoop`, `Tick`, `ExpiryPasses` | the loop's `Advance`; time |
| `EditKey`, `DeleteRow`+`RemoveKey`, `ProbeClearsRow`+`ProbeMarksSuccess`, `ApplyBundle` | endpoints of `service/service.go`; `db/bundle_apply.go` |

The scan of `PickAvailableKey` stops at the first key that serves, and its start
is `KeyCursor`'s subject: `PickKey` chooses which keys were synced on the way.
The synthetic key (ID -1) of a platform without credentials has a machine and
no row. `pending` holds second steps to come; `"rebuild"` is what the comment of
`ApplyBundle` asks of its caller and no caller does. A machine's effect writes the
row and drops the error (`entity/key.go:276`, `289`, `308`): `Effect` writes it or
does not, and `unwritten`, a history, has the keys whose permanent failure was not
written.

### WaitQueue

A waiter goes `out -> checking -> committed -> asleep -> awake -> checking`; in
`checking` and `committed` it holds the mutex. The two are apart because the
watcher of the context broadcasts without the mutex, so it can come after the
look at `ctx.Err()` and before `cond.Wait`. The generation of a queue is only
compared with the value read on entry; the model keeps the set of waiters whose
queue has moved on since.

### Failover

| Model | Code |
|---|---|
| `rapi[m]`, `rrow[m]`; `key[k]`, `krow[k]` | `Manager.rapis[m]` and its row; the key's machine and whether its row is usable |
| `Load`, `PickRapi`, `PickRapiNone`, `Waited`, `GiveUp` | the loops of both handlers around `PickAvailable` and `Wait` |
| `Unusable` | no URL for the format, or a conversion that failed |
| `PickKey`, `PickKeyNone`, `AlignPool`, `JudgePool` | `tryKeyForRAPI`, `markPoolExhausted`, `handleAllKeysUnavailable` |
| `AllBlocked`, `KeyBlocked` | a pool that capability blocks have emptied, and the denial of a key for one model |
| `KeySuccess`, `KeyCools`, `KeyDies`, `Completed`, `EmptyStream` | the answers, and what follows a good one |
| `Toggle`, `Restore`, `CatalogInvalidates`; `InvalidateRAPI`, `RevalidateRAPI` | first and second steps of operators, probes, the catalog |
| `SaveModel`, `DeleteFails`, `ApplyBundle` | PUT `/api/rapis`, which writes the flags and tells nobody; a platform whose models are frozen and which is not deleted after all; a bundle |

The cost order depends on counters and clock: any RAPI that serves may come
first. Of a credential's row only its usability is kept, of `Wait` its outcome, of
the capability blocks that any key may be left out of the pool. `Restore` may end
after its first write (`service/service.go:1173`), and `PersistDead` may fail to
write what it has frozen. `parted`, a history, has the RAPIs that one of these
five has left with a serving row and a machine nobody will tell: the saved form,
the bundle, the restore half way, the failed deletion, the failed write.

### KeyCursor

`conns`, `fresh`, `request` are the session tracker: a request has a session of
its own only while its connection is tracked, else it uses the platform's cursor.
`cursors` is `keyCursors`, ordered by use. `Pick` is the whole of
`PickAvailableKey`: sweep, scan from the cursor, advance. `Age` lets
`sessionCursorTTL` pass.

### CapabilityBlocks

A block is the time it has left: `blocks` in memory, `table` in SQLite. A
request looks at each key of its pool under the read lock (`Look`), takes out
what has expired under the write lock (`Purge`, which looks again), asks a key
(`Call`), and on a denial blocks it in memory (`Denied`) and then in the table
(`Store`). A success and an operator unblock in the same two steps; a deleted key
is cleared; a bundle empties the table; `RestartBlocks` loads it. Any of the
writes may fail (`Writes`), and so may the load; both are logged and no more.
`denied` and `loose`, the pairs on which memory and table may disagree, are
history.

### CatalogSync

One platform's round: `Start` loads the keys, `List` asks one key, `Judge` is
`applyJudgment` up to its first write, then `ReadWas`, `Write`, `Tell`, and any
statement may fail: a streak that cannot be read counts as zero (`JudgeUnread`),
one that cannot be written ends the judgement with the old streak in the table
(`JudgeUnwritten`), whatever the judgement was; `unreset`, a history, has the
RAPIs where that streak should have been reset. Beside it, `PoolDies` is a request that finds the pool dead,
`ProbesBegin` ... `ProbeRevalidates` are the collectors and `recoverRAPIs`.
Streaks are rows and survive `RestartCatalog`; machines do not.

### StreamConvert

`conv` has the converter's fields; `OpenAISends`, `AnthropicOpens`,
`AnthropicSends`, `GeminiSends` let an upstream send anything its protocol
allows, with the liberties the code's tests name (a role in every chunk, several
fields in one, a tool announced again). `StreamEnds` is the end of one attempt:
nothing written yet means that the next RAPI is asked. Contents are numbered by
chunk, so that loss, doubling and order are visible.

### Definitions

A handler is a *plan*, a sequence of batches of statements. In the local store a
transaction is one batch, in the center each statement is. `Runs` executes the
next batch, `GivesUp` and `AnswerLost` are the two ways in which it fails,
`Read` is a look at the tables in mid-handler, `Misread` one that fails and is
taken for an empty answer. Where the handler answers with success all the same
(`Mapping`: all that `autoMapRAPItoLAPI` does; `Misread`) the operation counts as
done and the operator is in `swallowed`. Forms name ids that were seen at
some time, so rows may have been deleted since. Constraints and cascades of both
schemas are part of `Apply`.

### EdgeSync and VersionedCopy

A goroutine's `op.pc` is the next statement of `syncOnce`, `applyMerge`,
`pushBackMerged`, `doSyncPushCore` or `edgeStore`; `lock` is `syncOpMu`. Rows are
a function from natural keys to values; the one constraint kept is
`UNIQUE(lapi_id, order_index)`. Each statement to the center is a step and may
fail (`RoundFails`, `PushFails`, `Rejected`), others change the center at any
time, and `Restart` may come anywhere. Statements to the local SQLite whose
errors are ignored may fail without a trace: the flag and the mode that a round
looks at (`GoOn`), the reads of a push, whose gaps are pushed as they are
(`Read`), the writes of the flag (`Mark`, `Clear`). `hidden`, a history, has the
marked edits that such an error has kept from a round. `SetPullMode` and `Activate` switch the
modes.

`VersionedCopy` is what this is for: a copy with a stamp, which may be touched,
and which is the same as the source when the stamp is current and the copy is
not touched. `EdgeSync!Copy` maps center to source, rows in the hands of a round
to snapshots on their way, and to *touched* the dirty flag or an edit that is on
its way to it. `IsVersionedCopy` is the refinement.

### NaturalKeys

`db` is what is committed, `tx` what the open transaction sees. `phase` follows
the start: `platform_keys`, backfill of default keys, alias per platform, then
`MigrateNaturalKeysConn` (move, remap, dedupe, platforms, dedupe again, rebuild,
commit), then cleaning. `Crash` undoes the transaction; `DeleteKey` is an
operator in between; `Downgrade` is an earlier version that runs on the migrated
database and makes its own `platform_keys` (external: the comments and tests of
`migrate_natural_keys.go` tell what it does; that it may add platforms, with
URLs not yet normalised, is left out). `Preview` is the dry run.

## 3. Runs

| Run | Instance | Result | States, time |
|---|---|---|---|
| `KeyHealth` | 1 key + synthetic, 2 requests, all operators, fair | pass | 729 000, 2.5 min |
| `Failover` | a discovered and a manual RAPI sharing 1 key, 1 request, all operators | pass | 3 620 000, 2.5 min |
| `Services` | six components, see below; the catalog with 1 RAPI, 2 keys, 2 confirmations, 3 disturbances; fair | pass | 492 000, 3 min |
| `EdgeSync` | edge, center, 2 goroutines, 2 keys, 3 disturbances; 3 faults in the upgrade of every old database | pass | 788 000, 1.5 min |
| `KeyHealthStuck` | 1 key + synthetic, 1 request, fair | violation of `PlatformFailedRecovers` | |
| `KeyHealthDemoted` | as `KeyHealth` | violation of `PermanentNeedsUser` | |
| `FailoverDisabled` | 1 RAPI, all operators | violation of `DisabledNeverPicked` | |
| `FailoverPool` | 2 RAPIs, long Retry-After, no operators | violation of `PoolCooldownKept` | |
| `WaitQueueLost` | as `Services` | violation of `EndedContextWakes` | |
| `StreamTools` | as `Services` | violation of `EveryBlockStops` | |
| `EdgeSyncPush` | as `EdgeSync` | violation of `NoSelfLock` | |
| `EdgeSyncClash` | as `EdgeSync` | violation of `UnionApplies` | |

### What the passing runs say

**KeyHealth.** `OnlyServableKeysHandedOut`: whatever other requests did to the
machine, `PickAvailableKey` never returns a key whose row, as the caller knows it,
is disabled, dead or expired, or which still cools. `RevivedOnEvidence`: no timer
and no alignment revives a dead key. `PlatformFailedPersisted`: a platform
failure in memory is on disk, except during a probe, after a bundle, and where
the write of that failure has itself failed. `TimerDiscipline`, `CoolingEnds`: a cooling key has a timer and leaves the
cooldown while requests come, even if the recovery loop misses it.

**Failover.** `HonestRefusal`: "all RAPIs are disabled or unavailable" is said
only when every RAPI of the snapshot is `Invalidated`, never while one has a
cooldown to sit out. `InvalidatedHasCause`: a frozen machine has a row that does
not serve, so probes see it, unless a second step is outstanding or one of the
five operations of `parted` has left the two apart; whatever requests, probes, the
catalog and toggles do adds no such RAPI. With *two* outstanding second steps (a disable and an enable whose scheduler
calls swap) it fails, so `MaxPending = 1` is part of the claim.
`RevivedByOperator`: a late success thaws nothing. `TypeOK` includes the bound
of the backoff.

**Services, the queue.** `QueueCountExact`, `NilOnlyWhenDue`,
`ClearedByDeadline`, `EveryWaitReturns`. The last holds although a watcher's broadcast
may be lost, because the timer of `until` is armed before each sleep.

**Services, the cursors.** `CursorsBounded`: no sweep leaves more than the limit,
and none takes the platform's cursor. `PoolCovered`: while a cursor is retained,
a key that serves waits at most one round of the pool for its turn. (That two
rounds give a session two keys, as the comment there claims, it does not say, and
the code does not do: section 6.)

**Services, the blocks.** `DeniedOnce`: however blocks expire, are purged and
renewed by others, a request asks no key again whose denial stands, so the loop
over the pool ends. `TableFollowsMemory`: once nobody is about to write a pair,
row and memory say the same, except after two crossed writes, a failed write, a
bundle, or a start that could not read the table, until the next restart.

**Services, the catalog.** `RecoveryConfirmed` counts over restarts and failing statements; the
exception is a judgement that should have ended the count and could not write
it (`unreset`, section 6). `AbsenceProven`: nothing goes out of service that a key might serve
whose listing failed. `FrozenHasCause`, as in `Failover`, now with every
statement of a judgement apart, and the one exception the code leaves open.
`EverythingOfferedComesBack`: what is out of service and offered comes back while
it stays offered. `ServicesTypeOK` bounds the streak.

**Services, the streams.** `OneUpstream`: a client never sees frames of two
upstreams, nor an error behind part of an answer. `ContentInOrder`,
`ArgsReachTheirCall`: every text and fragment arrives once, in order, in the
block or index of its own call (a Gemini client gets no calls, calls of a Gemini
upstream share index 0). `WellFramed`: starts, stops and ends as the protocol
says, the blocks balanced for answers with one tool.

**Services, the definitions.** `PoolsDerived`: `rapi.key_ids` names the bindings,
within the model's platform. `SavedAsAsked`: a handler that answers with success
and that nobody came in between of has left what was asked, whatever half-done
operations it started from. What follows from the request (the route of a new
model, the models of a switched platform) is there too, unless the handler has
swallowed an error. `PoolGrowsByConsent`: a pool grows only by new keys,
by the model's own form, or because the last key of its whitelist went.

**EdgeSync, the synchronisation.** `InSyncIsHonest`, `MarkedEditsSurvive`
(through pulls, merges, failed pushes and restarts, but not where an ignored error
has hidden the edit: section 6), `FailedPushIsRetried` (without a restart in between), `IsVersionedCopy`, and
`Converges`: every version of the center is taken over in the end if the edge
pulls by itself, unless the center is empty, a push waits for its own lock, or
the two sides have no union.

**EdgeSync, the upgrade.** `NothingLost`: tokens, routes, traffic, blocks and
lists follow the rows that are kept. `StartFailsOnlyOnClash`: the gateway starts
from whatever was left, except where two platforms of one URL have a model of
one alias. `PreviewTruthful`: what the dry run tells of a first migration is what
happens. `DeletedStaysDeleted`: a key deleted after the migration does not come
back out of the residue of an earlier version.

`TypeOK`, `ServicesTypeOK`, `StoreTypeOK` bound what the code computes: timers
and backoff, indices of cursors and blocks, ids and sequences inside the
transaction.

## 4. Bounds and fairness

* *Actors.* The conflicts in this code are between two parties: two copies of a
  row, a copy and an operator, a round and an edit, two RAPIs of one pool. Two
  requests (three waiters, for a full queue with one outside) have copies of
  different age; two goroutines are the poll loop and the dashboard; two
  operators act on the definitions, numbered because they are alike.
  The two-RAPI instance of `Failover` has one request, since a second makes it
  too large (over 16 million states); what a second request adds, machines changed
  between its steps, the operators' moves do too.
* *Cooldowns* of 1 to 4 units order the kinds of cooldown as the configuration
  does; the code compares timers only with now and with each other. The run
  `Failover`, the largest, has 1 for all of them: a machine cools or does not;
  `FailoverDisabled` and `FailoverPool` have a backoff that grows.
  `MaxRetryAfter = 4` in `FailoverPool` lets an upstream ask for more than the
  maximum backoff. `FailureCap` stops counting where the backoff has reached the
  maximum; the assumption `BackoffSaturates` says so. `TTL = 2` lets a block
  be renewed while it counts down.
* *Disturbances* and *Faults* bound edits, faults, changes by others and
  restarts in one behaviour: three are enough for an edit during a round that
  then fails and restarts, or for delete, downgrade and crash. Ignored errors
  of the synchronisation and failing streaks of the catalog take from the same
  budget; ignored errors of `KeyHealth`, `Failover`, `CapabilityBlocks` and
  `Definitions` are not bounded. The violation
  runs have the same or smaller budgets.
* *Streams*: `MaxChunks = 2`, `MaxEvents = 4`, two calls, two attempts, which
  gives texts around a call, a call in two fragments, and a second upstream.
* *Cursors*: two sessions with both limits at 2, so that one more cursor is one
  too many.
* *Old databases*: two platforms of one URL, of two, or without one; named,
  default and repeated tokens; models that meet at once or only when their
  platforms do; each of the three old shapes of the tables.
* *Definitions*: `FormKeys = 1`, one route, two models, four key ids.
* `OperatorMoves` selects the environment; a run that leaves moves out says so.
* `CHECK_DEADLOCK FALSE` stands in runs that really may stop: when the budget is
  used up and every goroutine is idle, when an operator's one request is done,
  when a stream has ended, and when a push waits for its own lock.

**Fairness.** `KeyHealth`: time passes, a running request keeps running, clients
keep sending requests (the premise of `CoolingEnds`); nothing is assumed of
upstreams (a stream may hang without a deadline), of the recovery loop (which
skips timers that elapse between two looks), of operators or sync.
`WaitQueue`: the holder of the mutex goes on (weak fairness), a goroutine that
repeatedly finds the mutex free gets it (strong fairness: Go's `sync.Mutex`
hands itself to a waiter that has starved for a millisecond), `until` is reached;
nothing of watchers, deadlines or clients. `CatalogSync`: the ticker starts
rounds, a round goes on; nothing of probes. `EdgeSync`: the ticker starts rounds
and a goroutine goes on (weak fairness of its own steps; faults are bounded by
the budget and not owed).

## 5. Proofs

For every set of keys, models, requests, goroutines and rows, every cooldown and
every number of faults, from the named assumptions of the modules (ids are
distinct, cooldowns positive, finite sets of waiters and keys, and the tables
that the definitions begin with refer to rows they have, with one model at each
place of the chain: the foreign keys and `UNIQUE(lapi_id, order_index)`).

**NaturalFacts.** A set of naturals has a least element: the earliest of a set of
timers, the first key that serves. And `InductionUpTo`, induction stated of a
*set* that contains 0 and with each number the next, since the provers cannot be
given the library's theorems about predicates. Functions defined by recursion
along a sequence (`Without`, `OnCalls`, `FlattenSeq`) are reasoned about with
it: first that the function exists, then what its last value is.

**KeyHealthProofs.** `Inv`: types, and every machine well formed (a timer in
cooldowns only, and always when `Cooling`). Neither half is inductive alone;
together they are, since each *operation on a machine* maps well-formed machines
to well-formed ones whoever calls it. `PlatformFailedPersisted` adds that a
machine turns `PlatformFailed` only in the step whose effect writes the row, or
puts the key among the `unwritten`. Those are the lemmas; step lemmas only say
which operation an action applies. Proved: `TypeOK`, `TimerDiscipline`,
`OnlyServableKeysHandedOut`, `RevivedOnEvidence`, `PlatformFailedPersisted`.

**ServiceProofs, the wait queue.** `QueueInv` adds to the types mutual
exclusion, the exact count, and that whoever has passed the test of the
generation has not missed a clear. The last is why `nil` reaches no cleared
request, and is inductive only with mutual exclusion. Proved: `QueueCountExact`,
`NilOnlyWhenDue`, `ClearedByDeadline`.

**ServiceProofs, the cursors.** `PoolCovered` bounds how often a key is passed
over, and is not inductive: a cursor moves by one, so what matters is how far it
is from the key. `Passed` says that: key number p has been passed over at most
as often as the cursor has moved since the scan that began one past p. A pick
either begins nearer to p, or at p, and then p has its turn if it serves. The
rest is about `Without` and the sweep: what is left is some of what there was,
in that order, and at least as many are dropped as exceed the limit, the
platform's never. Proved: `PoolCovered`, `CursorsBounded`.

**FailoverProofs.** `Inv` adds to the types that whatever cools has a timer, that
no RAPI machine is ever `PlatformFailed`, and that a request has chosen what its
place works on. `HonestRefusal` follows: a pick that finds none and no moment to
wait for has seen no machine that cools, so all are frozen. `RevivedByOperator`:
every operation on a machine but the revalidation leaves a frozen one frozen.
`InvalidatedHasCause` needs `MaxPending = 1`, the theorem's own assumption, and
one more conjunct: an outstanding invalidation still finds a row that does not
serve, or one that is `parted`. The backoff's bound (`TypeOK`) uses `Factor`, the seven values of the
code's clamped shift.

**GatewayProofs, the blocks.** `BlocksInv`, with two parts. `Stands`: each denial of a request is held by a block
that has time left, and the filter either has not passed the key or has thrown
it out; every step that ends a block forgives its denials. With it, `DeniedOnce`.
`Agreement`: of each pair that is not `loose` at most one write is on its way, and
it carries what the memory holds; without one the row says it already. With it,
`TableFollowsMemory`.

**ServiceProofs, the catalogs.** `CatalogInv`: what a verdict rests on
(`Judged`: the confirmations, the answers) is not touched between the judgement
and its last step, whatever probes, operators and restarts do meanwhile;
`Counted` ties the streak, which lives in the database, to the judgements that
were made, unless the RAPI is `unreset`, and `Paced` bounds it; `Caused` adds to `FrozenHasCause` the two steps
at which a row is already seen and the machine not yet told. Proved:
`RecoveryConfirmed`, `AbsenceProven`, `FrozenHasCause`.

**GatewayProofs, the streams.** Three layers. `FlattenSeq`, by which contents are
gathered from frames, is the last of a chain of sums, hence takes concatenations
to concatenations. Each operation on the converter `Tells` a sequence of
contents: it keeps the fields in their types and adds frames that carry just
these, so that openings, closings and indices (the wrong index of `LeaveTool`
included) tell nothing, `OnCalls` tells the arguments of its calls in order, and
each conversion what the chunk holds. Last the invariant `StreamInv`: frames and
contents agree, and all the client has is of the RAPI being read (`OwnAttempt`),
which makes a stream that is given up an empty one. Proved: `OneUpstream`,
`ContentInOrder`.

**GatewayProofs, the frames.** Where a content arrives is a fact about the frames
before it, so the invariants relate these to the converter's fields. A block
`Lives` in a sequence of frames from its start until a frame stops it or starts
another of its index. For an Anthropic client: every delta goes into a block
that lives, the converter knows one for the open text and one for each call it
has an index for, and no index is used twice; `LeaveText`, `LeaveTool` and
`OpenTool` keep that, hence `OnCalls` does, call by call. With one call at most,
the block that is closed is the one that is open, which `LeaveTool` does not
guarantee otherwise (the run `StreamTools`). For an OpenAI client: an index is
announced before it is used, stands for one call, and is below the number of
calls seen, so that the next is new. The formats are the three of the code,
which `StreamAssumption` says. Each invariant was an invariant of a run before
it was proved. Proved: `ArgsReachTheirCall`, `WellFramed`. And `StreamTypeOK`, whose
bound of the indices is a count: a chunk has two calls at most, each opens one
block and leaves one, so no chunk adds more than `PerChunk`.

**DefinitionsProofs, the local store.** There a method is a transaction.
`PoolsDerived` is not inductive: a model could be made with an id that was in
use, and inherit its bindings. `Sound` adds that what is referred to exists and
that ids in use are not given out again. Each statement keeps it, but the
transaction that saves a model is not sound between its two statements: a model
that has moved is still bound to keys of the old platform. `SoundBut` says it of
all others, and the second statement puts right whatever the first has left.
`PoolGrowsByConsent` has two halves. That a statement gives no model keys that
were there, but the one it binds, is a fact of two tables (`Modest`). That this
is the model of the operator's own form is a fact of handlers: `PlanOf`, in
`DefinitionsInv`, says that what is left of a handler is transactions of its
request, from the first to the last and through what it reads on the way. Chains
and the models of a platform are found by enumerating sets, so the proof needs
these finite. Proved: `PoolsDerived`, `PoolGrowsByConsent`.

**DefinitionsProofs, either store.** `SavedAsAsked` speaks of a handler that is
done, after reads and writes that in the center are a batch each. `SavedInv` says
the same of a handler on its way: if nobody came in between, what is left of it,
carried out on the tables as they are, `Leads` to what was asked. A step of the
handler itself shortens what is left, a read replaces it by what the read tables
ask for (`ReadOn`), and a step of anybody else, or a failure that is answered
with an error, ends `alone`. A failure that is swallowed drops the rest of the
plan, and with it what would have followed from the request, but not what was
asked: that is there already when the rest begins (`Granted` apart from
`Followed`). What remains is that each request, from the first, leads there: a lemma
for each kind of request. They start from any tables operators can define
(`Whole`), not from sound ones, since in the center an earlier handler may have
been left half done. The longest are those that rewrite a chain. A chain is
enumerated from a set of rows by `SetToSortSeq`, so what is stated of it is that
each model is there once and at the place of its row; rewriting it numbers the
places anew, and that the new rows are read back in the same order is counted:
the place of a row is the number of rows before it. Proved: `SavedAsAsked` and
the types, `DefinitionsTypeOK`.

**VersionedCopyProofs.** Honesty is not inductive; "the version names the
contents" is: whoever holds the current version, as a stamp or a snapshot, holds
the current contents, since each change takes a version of its own.

**StoreProofs, the protocol.** `Inv`: types, mutual exclusion under
`syncOpMu`, and what a goroutine knows that nobody takes from it: the version it
read is not ahead, a merge's stamp is behind until it is rewound, and before the
flag is cleared the edge is `Settled` or the generation has moved. From it each
step maps to a step of `VersionedCopy` or a stutter (`EdgeIsVersionedCopy`), and
`InSyncIsHonest` is then not proved again but taken over from
`VersionedCopyProofs` through the refinement.

**StoreProofs, the edits.** `FailedPushIsRetried`: a union that is owed is in the hands
of the round that carries it, or the stamp is behind. `MarkedEditsSurvive`: a
marked edit is in SQLite, and whoever holds rows to put there holds it too,
which is what the flag, read under the lock, is for, unless the edit is `hidden`
from whoever failed to read it or its flag.

**StoreProofs, the upgrade.** For any old databases that fit the schema
(`OldDatabasesAssumption`) and any number of faults. The invariant has five
parts, one for each property and one that all need. `Sane`: committed tables and
those of the transaction are well formed, and `phase` tells what the earlier
statements have done: keys moved, platforms merged, the constraint rebuilt. It
is what a step may assume of rows that others wrote. `Deleted`: no deleted token
is in either database nor in a residue that a later start would read.
`OnlyClash`: up to the merge of platforms whatever was allowed in the old
database still is, so the one statement that can fail is the one that
re-points models. `Foretold`: the report of the dry run is what it tells of the
rows that have been seen, and the rows not yet seen are those of the first
database. `Kept`: where a row has gone, its name, place, traffic, blocks and list
have gone with it, in the shape the tables have at that phase; a crash goes back
to the database for which nothing has been done. Numbers (traffic, what the
report counts) are sums over finite sets, for which the module proves that a sum
does not depend on the order, and is additive. Proved: `NothingLost`,
`StartFailsOnlyOnClash`, `PreviewTruthful`, `DeletedStaysDeleted`, and the types.

**The compositions.** Theorems are stated of the specification of one component;
runs explore `Services` and `Store`. `PartsOfTheServices` and `PartsOfTheStore`
prove that a behaviour of the composition is a behaviour of each component, so
that all that is proved of these holds of what is explored. `ServicesTypeOK` and
`StoreTypeOK`, which speak of all components at once, are proved from that.

**Only model-checked.** The liveness properties (`CoolingEnds`, `EveryWaitReturns`,
`EverythingOfferedComesBack`, `Converges`): fairness and ENABLED are beyond the prover.
Every other property of a passing run is stated by a theorem.

## 6. Divergences

Each of the first list is a run that finds the code doing something else than it
says.

* **KeyHealthStuck.** `entity/key.go:18`: PlatformFailed is "pinned at
  MaxCooldown; auto-recovers". `onPlatformFailure` sets no timer; for a synthetic
  key nothing ends the state.
* **KeyHealthDemoted.** `db/credential.go:604`: a permanent failure "needs user
  action". A request with older rows revives the machine in `Sync`, gets a 429,
  and overwrites `failure_type = 2` with 1.
* **WaitQueueLost.** `scheduler/scheduler.go:641`: "Wait blocks until ... the
  context is cancelled". The watcher's only broadcast can come between the
  waiter's look at the context and its sleep.
* **FailoverDisabled.** `scheduler/scheduler.go:257`: a disable "takes effect" in
  running requests. The flags looked at are the request's own copy, and a good
  probe of a disabled RAPI thaws its machine.
* **FailoverPool.** `MarkPoolExhausted` aligns the RAPI's cooldown to the pool's
  recovery; `handleAllKeysUnavailable`, called next, replaces it by the backoff.
* **EdgeSyncPush.** `service/sync.go:887` knows that `syncOnce` under `syncOpMu`
  deadlocks; in management mode `ReplaceAll` ends with `onChanged`, which is
  `syncOnce(true)`, under the lock of its caller.
* **EdgeSyncClash.** `service/sync_merge.go:9`: rows of either side are kept, the
  center converges. Two sides that put a model of their own at one place of a
  chain have no union the tables take, in any later round.
* **StreamTools.** `apiformat/convert_stream.go:544`: "Close a previously open tool block".
  The block is looked up under the index of the call about to open; the first of
  two calls is never closed.

Met while modelling, without a run of their own. The first six are steps of the
models, and the passing property named is stated up to exactly these steps, by
its history variable where one is named:

* `service/sync_merge.go:11`: "the center converges in the end, no data is lost".
  `doSyncPushCore` (`service/sync.go:796`) drops the errors of its five reads and
  pushes what is left as if it were all, and `edgeDirtyState`
  (`service/sync_dirty.go:87`) takes a flag it cannot read for a clean edge: an
  edit that was made and marked goes with the next pull (`hidden` in
  `MarkedEditsSurvive`).
* `scheduler/scheduler.go:321`: `RevalidateRAPI` is to be called "whenever enabled
  or available is set to true in the DB (the service layer owns that write)". The
  form of a model (PUT `/api/rapis`, `service/service.go:807`) sets both and calls
  nobody: disabled with the toggle and enabled with the form, a model has a row
  that serves and a machine that stays frozen. A restore that ends half way
  (`service/service.go:1173`) leaves the same (`parted` in `InvalidatedHasCause`).
* `scheduler/scheduler.go:384`: two consecutive rounds of one session "necessarily
  land on different keys". The cursor moves by one and not behind the key it has
  chosen (423), so the key after one that does not serve comes twice
  (`Advanced` in `KeyCursor`; `PoolCovered` claims less).
* `gateway/gateway.go:615`, `927`: "The synthetic platform-token key (ID -1) is
  never blocked". `blockKeyForModel` (535) blocks it like any key, a success does
  not unblock it, and until the block expires the platform has no key for the
  model (`Denied` in `CapabilityBlocks`; `DeniedOnce` holds because it is blocked).
* `service/catalog_sync.go:478`: a recovery takes that many confirmations in a row.
  A hold (532) or an invalidation (484) whose reset of the streak fails leaves the
  old one, and the next round that finds the model completes it (`unreset` in
  `RecoveryConfirmed`).
* `service/service.go:1081`: a cascade that fails half way is an error, "not half of
  it changed and success reported". The line before it in the same handler (1078)
  drops the error of reading the platform's models: none is switched, the answer
  is success. `autoMapRAPItoLAPI` (2720, 2732) loses the route of a new model in
  the same silence (`swallowed` in `SavedAsAsked`).
* `db/db.go:2516` drops `rapi` with foreign keys enforced, which empties
  `lapi_rapi_order` and `rapi_metrics`, although the comment at 2455 says
  "preserving all existing data" (`PerPlatformAlias`).
* Two platforms of one URL with a model of one alias: the merge at
  `db/migrate_natural_keys.go:711` precedes the rebuild of the constraint, so every
  start fails (the exception of `StartFailsOnlyOnClash`).
* The same token on two platforms of different URLs becomes one credential, and
  a model of the second with an empty list gets no binding. Blocks of merged
  keys are moved in the order of a Go map and can move twice.
* When the last key is deleted and `platform.token` is not empty, the next start
  makes a key of it again. Tokens encrypted anew make a residue unrecognisable.
* In the center `DeletePlatform` and `DeleteRAPI` cascade without *force*;
  `SetPlatformKeys` gives keys new ids, which loses bindings; `AddPlatformKey`
  binds nothing; some writes (`supabase/store.go:270-281`) do not report a change.
* A whitelist whose last key is deleted means all keys of the platform, where the
  dashboard warns of none.
* Streams between Anthropic and Gemini are passed on raw; calls on their way to
  a Gemini client are dropped.
* `recoveryRunning` makes a collector return at once while another runs: what it
  was asked to recover is dropped.
* Beyond the sweep threshold a new session's cursor does not outlive the call
  that makes it; models bound to different numbers of keys move one cursor.

## 7. Not modelled, and why

* Conversion of requests and responses, detection of formats, URLs
  (`apiformat/convert_request.go`, `convert_response.go`, `detect.go`, ...):
  stateless mapping of JSON fields; a failed conversion is `Unusable`.
* `computeCostLocked`, `thresholdExceeded`: they order candidates; `Failover`
  holds for any order.
* The Platform machine: no request consults it. `RAPI.OnPlatformFailure`: no
  caller in the gateway.
* Classification of upstream errors: the class is chosen freely, which covers
  every classification.
* The errors dropped elsewhere: a save of a platform's keys that cannot read the
  stored ones (`service/service.go:1849`) stores every key of the form as good.
* Cancellation of the client counted against the key (`gateway/gateway.go:959`):
  a network failure has no cause in the models.
* Batch creation, sorting, prices, names, logs, statistics, dashboard, insights,
  notification, metrics: nothing there is read back by a decision.
* `bundle/merge.go`: a merge the synchronisation does not call. The center's
  backup before a push, and diagnostics.
* Migrations that only add or drop columns, encryption of tokens, `token_cache`,
  the seeded platform.
* Parsing of settings, commands, scripts: I/O.

## 8. Plan

Done: the modules of section 2 and the proofs of section 5.

1. A cost order as an operator, checked against "the least cost among those that
   serve and are below their thresholds".
2. Composition of `KeyHealth` and `CapabilityBlocks` over one pool, to state that
   a request tries every key that may serve before it escalates.
