----------------------------- MODULE KeyHealth -----------------------------
(***************************************************************************)
(* The health of the credentials of one platform: the Key machines the     *)
(* scheduler keeps in memory (entity/key.go), the credential rows, and     *)
(* everyone who touches them:                                              *)
(*                                                                         *)
(*   requests    load the rows once, pick keys with PickAvailableKey from  *)
(*               that copy, send upstream and report what came back        *)
(*               (tryKeyForRAPI); many run at once, each with its own,     *)
(*               possibly old, copy of the rows;                           *)
(*   recovery    the scheduler's loop, which advances due timers;          *)
(*   operators   edit, delete and probe keys; the last two write the row   *)
(*               and tell the scheduler in a second step;                  *)
(*   sync        a bundle from the center resets every failure column      *)
(*               behind the scheduler's back.                              *)
(*                                                                         *)
(* Every method of scheduler.Manager runs under one mutex, its row writes  *)
(* included, so each is one step here.  A platform without credentials is  *)
(* served by a synthetic key (ID -1) that has a machine and no row.        *)
(***************************************************************************)
EXTENDS EntityFSM

CONSTANTS
  Keys,             \* stored credentials (ID > 0)
  Synthetic,        \* the platform-token key (ID -1)
  Reqs,             \* requests that may be in flight together
  NoKey,            \* the value of req[r].key when nothing is held
  DefaultCooldown, TimeoutCooldown, BillingCooldown,
  MaxRetryAfter,    \* the longest Retry-After an upstream sends
  OperatorMoves     \* what operators and sync do: bounds the environment

ASSUME KeysAssumption ==
  /\ Synthetic \notin Keys
  /\ NoKey \notin Keys \cup {Synthetic}

\* NewManager and ConfigFromAppConfig leave no cooldown at zero.
ASSUME CooldownAssumption ==
  /\ DefaultCooldown \in Nat \ {0}
  /\ TimeoutCooldown \in Nat \ {0}
  /\ BillingCooldown \in Nat \ {0}
  /\ MaxRetryAfter \in Nat

ASSUME MovesAssumption == OperatorMoves \subseteq {"edit", "delete", "probe", "bundle"}

VARIABLES
  key,      \* machine of each key
  row,      \* the credential row of each stored key
  req,      \* the requests
  pending,  \* second halves still to come of operations already visible in row
  unwritten \* history: keys whose last platform failure could not be written

vars == <<key, row, req, pending, unwritten>>

Machines == Keys \cup {Synthetic}

Cooldowns == {DefaultCooldown, TimeoutCooldown, BillingCooldown} \cup 1..MaxRetryAfter

Timers == {t \in Nat \cup {NoTimer} : t > 0 => \E c \in Cooldowns : t <= c}

KeyMachines == [state : KeyStates, timer : Timers]

Rows == [present : BOOLEAN, enabled : BOOLEAN, ft : {0, 1, 2},
         exp : {"none", "ahead", "past"}]

NoRow == [present |-> FALSE, enabled |-> FALSE, ft |-> 0, exp |-> "none"]

FreshRow == [present |-> TRUE, enabled |-> TRUE, ft |-> 0, exp |-> "none"]

Idle == [pc |-> "idle", snap |-> [k \in Keys |-> NoRow], key |-> NoKey, until |-> NoTimer]

Requests == [pc    : {"idle", "ready", "sent", "exhausted"},
             snap  : [Keys -> Rows],
             key   : Machines \cup {NoKey},
             until : Timers]

TypeOK ==
  /\ key \in [Machines -> KeyMachines]
  /\ row \in [Keys -> Rows]
  /\ req \in [Reqs -> Requests]
  /\ pending \subseteq {"clear", "drop", "rebuild"} \X Keys
  /\ unwritten \subseteq Keys

Init ==
  /\ key = [k \in Machines |-> Fresh]
  /\ row \in [Keys -> {FreshRow, [FreshRow EXCEPT !.exp = "ahead"], NoRow}]
  /\ req = [r \in Reqs |-> Idle]
  /\ pending = {}
  /\ unwritten = {}

----------------------------------------------------------------------------
(* Persistence: an effect writes the row of a stored key; the UPDATE of a   *)
(* row that is gone changes nothing.  An effect ignores that its write has  *)
(* failed (`_ =`), a handler answers with the error before anything else.   *)

Persist(k, ft) ==
  row' = [j \in Keys |-> IF j = k /\ row[j].present THEN [row[j] EXCEPT !.ft = ft]
                         ELSE row[j]]

Effect(k, ft) ==
  \/ Persist(k, ft) /\ unwritten' = unwritten \ {k}
  \/ /\ unwritten' = IF ft = 2 THEN unwritten \cup ({k} \cap Keys) ELSE unwritten \ {k}
     /\ UNCHANGED row

\* History: what was not written is of interest as long as the machine says it.
StillUnwritten == unwritten' = {k \in unwritten : key'[k].state = "PlatformFailed"}

(* The request loop.                                                        *)

\* GetPlatformKeys for the RAPIs of the model: once per request.
Load(r) ==
  /\ req[r].pc = "idle"
  /\ req' = [req EXCEPT ![r] = [Idle EXCEPT !.pc = "ready", !.snap = row]]
  /\ UNCHANGED <<key, row, pending, unwritten>>

\* The keys a request chooses from, and the row it believes each to have.
Pool(r) ==
  LET loaded == {k \in Keys : req[r].snap[k].present}
  IN  IF loaded = {} THEN {Synthetic} ELSE loaded

SnapRow(r, k) == IF k \in Keys THEN req[r].snap[k] ELSE FreshRow

\* The machine once this request has synced and examined it.
Synced(r, k) == KeySync(key[k], SnapRow(r, k))

\* PickAvailableKey finds a key.  The scan order is the cursor's, so any set
\* of keys that cannot serve may have been examined before the one that can.
PickKey(r) ==
  /\ req[r].pc = "ready"
  /\ \E k \in Pool(r) :
       /\ KeyServes(Synced(r, k))
       /\ \E skipped \in SUBSET {j \in Pool(r) : ~KeyServes(Synced(r, j))} :
            key' = [j \in Machines |->
                      IF j \in skipped \cup {k} THEN KeyTouched(Synced(r, j)) ELSE key[j]]
       /\ req' = [req EXCEPT ![r].pc = "sent", ![r].key = k]
  /\ StillUnwritten
  /\ UNCHANGED <<row, pending>>

\* PickAvailableKey finds none: every key has been examined, and the earliest
\* recovery among them is returned.
PickNone(r) ==
  /\ req[r].pc = "ready"
  /\ \A k \in Pool(r) : ~KeyServes(Synced(r, k))
  /\ key' = [j \in Machines |-> IF j \in Pool(r) THEN KeyTouched(Synced(r, j)) ELSE key[j]]
  /\ req' = [req EXCEPT ![r].pc = "exhausted",
                        ![r].until = Earliest({KeyRecoverAt(Synced(r, k)) : k \in Pool(r)}
                                                \ {NoTimer})]
  /\ StillUnwritten
  /\ UNCHANGED <<row, pending>>

\* markPoolExhausted: the cooling keys of the pool (the synthetic key is left
\* out) are moved to the earliest recovery.  The request goes on to the next
\* model of the chain; it comes back to this platform with the rows it has,
\* or ends.
Escalate(r) ==
  /\ req[r].pc = "exhausted"
  /\ key' = [k \in Machines |->
               IF k \in Pool(r) \cap Keys /\ req[r].until # NoTimer
               THEN KeyAlign(key[k], req[r].until) ELSE key[k]]
  /\ \/ req' = [req EXCEPT ![r].pc = "ready", ![r].until = NoTimer]
     \/ req' = [req EXCEPT ![r] = Idle]
  /\ UNCHANGED <<row, pending, unwritten>>

(* The answers of the upstream.                                             *)

Retry(r) == req' = [req EXCEPT ![r].pc = "ready", ![r].key = NoKey]

Held(r) == req[r].key

\* MarkKeySuccess
Success(r) ==
  /\ req[r].pc = "sent"
  /\ key' = [key EXCEPT ![Held(r)] = KeyOnSuccess(@)]
  /\ IF KeyAccepts(key[Held(r)], "Success") THEN Effect(Held(r), 0)
                                            ELSE UNCHANGED <<row, unwritten>>
  /\ req' = [req EXCEPT ![r] = Idle]
  /\ UNCHANGED pending

\* MarkKeyFailure: a network error or a timeout, nothing is persisted.
NetworkFailure(r) ==
  /\ req[r].pc = "sent"
  /\ \E c \in {DefaultCooldown, TimeoutCooldown} :
       key' = [key EXCEPT ![Held(r)] = KeyOnSessionFailure(@, c)]
  /\ Retry(r)
  /\ UNCHANGED <<row, pending, unwritten>>

\* A mutant: the row is written before the machine is asked.
TemporaryFailureWritesFirst(r) ==
  /\ req[r].pc = "sent"
  /\ \E c \in {DefaultCooldown, BillingCooldown} \cup 1..MaxRetryAfter :
       key' = [key EXCEPT ![Held(r)] = KeyOnSessionFailure(@, c)]
  /\ Persist(Held(r), 1)
  /\ Retry(r)
  /\ UNCHANGED <<pending, unwritten>>

\* MarkKeyTemporaryFailure (429, 5xx, ...) and MarkKeyBillingFailure: the
\* cooldown is the upstream's Retry-After, the default or the billing one.
TemporaryFailure(r) ==
  /\ req[r].pc = "sent"
  /\ \E c \in {DefaultCooldown, BillingCooldown} \cup 1..MaxRetryAfter :
       key' = [key EXCEPT ![Held(r)] = KeyOnSessionFailure(@, c)]
  /\ IF KeyAccepts(key[Held(r)], "SessionFailure") THEN Effect(Held(r), 1)
                                                   ELSE UNCHANGED <<row, unwritten>>
  /\ Retry(r)
  /\ UNCHANGED pending

\* MarkKeyPlatformFailure (401, 402, 403, 409, 423, 451).
PlatformFailure(r) ==
  /\ req[r].pc = "sent"
  /\ key' = [key EXCEPT ![Held(r)] = KeyOnPlatformFailure(@)]
  /\ IF KeyAccepts(key[Held(r)], "PlatformFailure") THEN Effect(Held(r), 2)
                                                    ELSE UNCHANGED <<row, unwritten>>
  /\ Retry(r)
  /\ UNCHANGED pending

----------------------------------------------------------------------------
(* The scheduler's recovery loop and the passing of time.                   *)

RecoveryLoop ==
  /\ key' = [k \in Machines |-> KeyAdvance(key[k])]
  /\ StillUnwritten
  /\ UNCHANGED <<row, req, pending>>

CountDown(t) == IF t > 0 THEN t - 1 ELSE t

Tick ==
  /\ key' = [k \in Machines |-> Machine(key[k].state, CountDown(key[k].timer))]
  /\ req' = [r \in Reqs |-> [req[r] EXCEPT !.until = CountDown(@)]]
  /\ UNCHANGED <<row, pending, unwritten>>

\* expires_at passes: every copy of the row sees it.
Lapse(w) == IF w.exp = "ahead" THEN [w EXCEPT !.exp = "past"] ELSE w

ExpiryPasses(k) ==
  /\ row' = [row EXCEPT ![k] = Lapse(@)]
  /\ req' = [r \in Reqs |-> [req[r] EXCEPT !.snap[k] = Lapse(@)]]
  /\ UNCHANGED <<key, pending, unwritten>>

----------------------------------------------------------------------------
(* Operators and sync.                                                      *)

\* PUT .../keys?key_id: UpdatePlatformKey writes enabled and expires_at; the
\* scheduler is not told.
EditKey(k) ==
  /\ "edit" \in OperatorMoves
  /\ row[k].present
  /\ \E e \in BOOLEAN, x \in {row[k].exp, "none"} :
       row' = [row EXCEPT ![k].enabled = e, ![k].exp = x]
  /\ UNCHANGED <<key, req, pending, unwritten>>

\* DELETE .../keys: the row goes first, the machine in a second step.
DeleteRow(k) ==
  /\ "delete" \in OperatorMoves
  /\ row[k].present
  /\ row' = [row EXCEPT ![k] = NoRow]
  /\ pending' = pending \cup {<<"drop", k>>}
  /\ UNCHANGED <<key, req, unwritten>>

RemoveKey(k) ==
  /\ <<"drop", k>> \in pending
  /\ key' = [key EXCEPT ![k] = Fresh]
  /\ pending' = pending \ {<<"drop", k>>}
  /\ StillUnwritten
  /\ UNCHANGED <<row, req>>

\* clearKeyFailureState after a good probe: the row first, then MarkKeySuccess.
ProbeClearsRow(k) ==
  /\ "probe" \in OperatorMoves
  /\ row[k].present
  /\ Persist(k, 0)
  /\ pending' = pending \cup {<<"clear", k>>}
  /\ UNCHANGED <<key, req, unwritten>>

ProbeMarksSuccess(k) ==
  /\ <<"clear", k>> \in pending
  /\ key' = [key EXCEPT ![k] = KeyOnSuccess(@)]
  /\ IF KeyAccepts(key[k], "Success") THEN Effect(k, 0) ELSE UNCHANGED <<row, unwritten>>
  /\ pending' = pending \ {<<"clear", k>>}
  /\ UNCHANGED req

\* ApplyBundle resets the failure columns of every credential.  "rebuild" is
\* what its comment asks of the caller next; nothing in the code does it.
ApplyBundle ==
  /\ "bundle" \in OperatorMoves
  /\ row' = [k \in Keys |-> [row[k] EXCEPT !.ft = 0]]
  /\ pending' = pending \cup {<<"rebuild", k>> : k \in Keys}
  /\ UNCHANGED <<key, req, unwritten>>

----------------------------------------------------------------------------
Answer(r) == \/ Success(r)
             \/ NetworkFailure(r)
             \/ TemporaryFailure(r)
             \/ PlatformFailure(r)

Next ==
  \/ \E r \in Reqs : \/ Load(r)
                     \/ PickKey(r)
                     \/ PickNone(r)
                     \/ Escalate(r)
                     \/ Answer(r)
  \/ RecoveryLoop
  \/ Tick
  \/ \E k \in Keys : \/ ExpiryPasses(k)
                     \/ EditKey(k)
                     \/ DeleteRow(k)
                     \/ RemoveKey(k)
                     \/ ProbeClearsRow(k)
                     \/ ProbeMarksSuccess(k)
  \/ ApplyBundle

Spec == Init /\ [][Next]_vars

\* Time passes, a request that runs keeps running, and clients keep sending
\* requests.  Nothing is assumed of upstreams (a stream has no deadline), of
\* the recovery loop (it looks only at timers that were still running when it
\* last looked), of operators or of sync.
FairSpec ==
  /\ Spec
  /\ WF_vars(Tick)
  /\ \A r \in Reqs : /\ WF_vars(Load(r))
                     /\ WF_vars(PickKey(r) \/ PickNone(r))
                     /\ WF_vars(Escalate(r))

----------------------------------------------------------------------------
(* Properties.                                                              *)

\* A cooling key always has a timer to leave by, and no other state than the
\* two cooldowns ever holds one: no event, alignment or row fact leaves a key
\* cooling for good or a timer that would revive a dead key.
TimerDiscipline ==
  \A k \in Machines :
    /\ key[k].state = "Cooling" => key[k].timer # NoTimer
    /\ key[k].timer # NoTimer => key[k].state \in {"Cooling", "PlatformFailed"}

\* The machine of a stored key says PlatformFailed only while the row says
\* failure_type=2, so that a restart or another request finds the same fact;
\* the exceptions are a probe between its two steps, a key whose row a bundle
\* has reset, and a failure whose write has failed itself.
PlatformFailedPersisted ==
  \A k \in Keys :
    /\ key[k].state = "PlatformFailed" /\ row[k].present
    /\ <<"clear", k>> \notin pending /\ <<"rebuild", k>> \notin pending
    /\ k \notin unwritten
    => row[k].ft = 2

\* PickAvailableKey hands out only a key whose row, as the request knows it at
\* that moment, is usable and whose cooldown is not running, whatever the
\* other requests have done to the machine.
OnlyServableKeysHandedOut ==
  [][\A r \in Reqs :
       req[r].pc # "sent" /\ req'[r].pc = "sent" =>
         LET k == req'[r].key
         IN  /\ RowUsable(SnapRow(r, k))
             /\ ~Running(key[k])
             /\ key'[k] = Fresh]_vars

\* A key that is permanently failed, disabled or expired comes back only on
\* evidence: a request that believes its row usable, an upstream success, the
\* end of a probe, or its deletion.  No timer and no alignment revives it.
RevivedOnEvidence ==
  [][\A k \in Machines :
       key[k].state \in KeyDead /\ key'[k].state \notin KeyDead =>
         \/ \E r \in Reqs : req[r].pc = "ready" /\ k \in Pool(r) /\ RowUsable(SnapRow(r, k))
         \/ \E r \in Reqs : req[r].pc = "sent" /\ Held(r) = k /\ req'[r].pc = "idle"
         \/ pending' # pending]_vars

\* The credential of a platform that has one does not stay cooling for ever
\* while requests keep coming, whatever operators, sync and the other requests
\* do.  (With more credentials it also takes the rotation of the scan, which
\* is not modelled here.)
CoolingEnds ==
  \A k \in Keys :
    key[k].state = "Cooling" /\ row[k].present
      ~> key[k].state # "Cooling" \/ ~row[k].present

\* "PlatformFailed -- ... Pinned at MaxCooldown; auto-recovers."  (key.go, the
\* comment of Key.)  Expected to fail: the effect sets no timer, so once no
\* row says failure_type=2 nothing takes the machine out of PlatformFailed.
PlatformFailedRecovers ==
  \A k \in Machines : key[k].state = "PlatformFailed" ~> key[k].state # "PlatformFailed"

\* "credential permanently failed, needs user action" (db/credential.go, the
\* comment of MarkKeyPermanentFailure): traffic never turns a permanent
\* failure into a temporary one.  Expected to fail.
PermanentNeedsUser ==
  [][\A k \in Keys : row[k].ft = 2 => row'[k].ft # 1]_vars
=============================================================================
