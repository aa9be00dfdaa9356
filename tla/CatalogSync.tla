----------------------------- MODULE CatalogSync -----------------------------
(***************************************************************************)
(* The catalog synchronisation of one platform: every so often the models  *)
(* its keys are offered are listed, and a discovered RAPI is taken out of  *)
(* service when no key is offered it, or brought back after several rounds *)
(* in a row that found it.  The gateway does the same to a RAPI for        *)
(* reasons of its own: a request finds its pool dead, a probe of what is   *)
(* out of service gets an answer.                                          *)
(*                                                                         *)
(* Every statement to the database and every call of the scheduler is a    *)
(* step.  Operators' toggles are in Failover; manual RAPIs are not judged  *)
(* and are left out.                                                       *)
(***************************************************************************)
EXTENDS Integers, Upstreams

CONSTANTS
  Credentials,     \* of the platform
  Binding,         \* the keys each RAPI may use (rapi.key_ids)
  NoRapi,
  Confirmations,   \* catalog_recover_confirmations
  Disturbances     \* bounds changes of keys and upstreams, faults, restarts

ASSUME CatalogAssumption ==
  /\ Binding \in [Rapis -> SUBSET Credentials]
  /\ NoRapi \notin Rapis
  /\ Confirmations \in Nat \ {0}
  /\ Disturbances \in Nat

VARIABLES
  available,   \* rapi.available
  streak,      \* rapi_catalog_state
  frozen,      \* the RAPI's machine is Invalidated
  probed,      \* platformProbed: some key has a row in key_model_probe
  key,         \* the credential: good, off (disabled), dead (failure_type 2)
  offer,       \* what the upstream lists for a key, or that it fails
  round,       \* runCatalogSync
  probe,       \* recoverRAPIs, for each RAPI
  confirmed,   \* history: judgements in a row that found the RAPI
  unreset,     \* history: RAPIs whose streak outlived a judgement that ends it
  overtaken,   \* history: others changed the RAPI inside a judgement
  budget

catalogVars == <<available, streak, frozen, probed, key, offer, round, probe,
          confirmed, unreset, overtaken, budget>>

\* What a listing brings: it fails, or names models.  A catalog without names
\* says nothing.
Offers == [up : {TRUE}, models : SUBSET Rapis] \cup [up : {FALSE}, models : {{}}]
Silent == [up |-> FALSE, models |-> {}]
Informative(offered) == offered.models # {}

Resting == [pc |-> "idle", todo |-> {}, state |-> [k \in Credentials |-> "off"],
            answer |-> [k \in Credentials |-> Silent],
            rapis |-> {}, rapi |-> NoRapi, verdict |-> "hold", was |-> FALSE]

CatalogTypeOK ==
  /\ available \in [Rapis -> BOOLEAN] /\ frozen \in [Rapis -> BOOLEAN]
  /\ streak \in [Rapis -> 0..(Confirmations + Disturbances)]
  /\ probed \in BOOLEAN
  /\ key \in [Credentials -> {"good", "off", "dead"}]
  /\ offer \in [Credentials -> Offers]
  /\ round \in [pc : {"idle", "probe", "judge", "was", "write", "tell"},
                todo : SUBSET Credentials, state : [Credentials -> {"good", "off", "dead"}],
                answer : [Credentials -> Offers], rapis : SUBSET Rapis, rapi : Rapis \cup {NoRapi},
                verdict : {"invalidate", "recover", "hold"}, was : BOOLEAN]
  /\ probe \in [Rapis -> {"none", "running", "written"}]
  /\ confirmed \in [Rapis -> Nat] /\ unreset \subseteq Rapis /\ overtaken \in [Rapis -> BOOLEAN]
  /\ budget \in 0..Disturbances

\* The process begins with rows that may be out of service.
CatalogInit ==
  /\ available \in [Rapis -> BOOLEAN] /\ frozen = [m \in Rapis |-> FALSE]
  /\ streak = [m \in Rapis |-> 0]
  /\ probed = FALSE
  /\ key = [k \in Credentials |-> "good"]
  /\ offer \in [Credentials -> Offers]
  /\ round = Resting /\ probe = [m \in Rapis |-> "none"]
  /\ confirmed = [m \in Rapis |-> 0] /\ unreset = {} /\ overtaken = [m \in Rapis |-> FALSE]
  /\ budget = Disturbances

Disturb == budget > 0 /\ budget' = budget - 1

----------------------------------------------------------------------------
(* A round.                                                                 *)

\* A mutant: a platform that has been probed is left alone.
NeededOnce == ~probed

\* catalogSyncNeeded: never probed, or something is out of service.
Needed == ~probed \/ \E m \in Rapis : ~available[m]

\* Any other judgement begins the count of confirmations again.
Counts(m, verdict) ==
  confirmed' = [confirmed EXCEPT ![m] = IF verdict = "recover"
                                        THEN IF @ < Confirmations THEN @ + 1 ELSE @
                                        ELSE 0]

\* runCatalogSync loads the keys of a platform that needs it.
Start ==
  /\ round.pc = "idle" /\ Needed
  /\ round' = [Resting EXCEPT !.pc = "probe", !.todo = Credentials, !.rapis = Rapis,
                              !.state = key]
  /\ UNCHANGED <<available, streak, frozen, probed, key, offer, probe, confirmed,
                 unreset, overtaken, budget>>

\* syncPlatformCatalog lists the models of one key after another, dead ones
\* too; one that was disabled when the round began is not asked.
List(k) ==
  /\ round.pc = "probe" /\ k \in round.todo
  /\ LET asked == round.state[k] # "off"
     IN  /\ probed' = (probed \/ (asked /\ offer[k].up))
         /\ round' = [round EXCEPT
              !.answer[k] = IF asked THEN offer[k] ELSE @,
              !.todo = @ \ {k},
              !.pc = IF round.todo = {k} THEN "judge" ELSE @]
  /\ UNCHANGED <<available, streak, frozen, key, offer, probe, confirmed, unreset, overtaken, budget>>

\* The keys that serve the model and are not known to be dead.
Alive(m) == {k \in Binding[m] : round.state[k] = "good"}
Found(m) == \E k \in Alive(m) : m \in round.answer[k].models

\* A mutant: a key whose listing failed has no say.
VerdictOfAnswers(m) == IF Found(m) THEN "recover" ELSE "invalidate"

\* judgeRAPI.
Verdict(m) ==
  CASE Found(m) -> "recover"
    [] ~Found(m) /\ \E k \in Alive(m) : ~Informative(round.answer[k]) -> "hold"
    [] OTHER -> "invalidate"

AfterRapi(m) == [round EXCEPT !.rapis = @ \ {m}, !.rapi = NoRapi, !.was = FALSE,
                          !.verdict = "hold", !.pc = "judge"]

\* A mutant: the streak is counted by nextRecoverStreak and by its caller.
JudgesTwice(m, from) ==
  LET v == Verdict(m)
      ready == v = "recover" /\ from + 2 >= Confirmations
  IN  /\ streak' = [streak EXCEPT ![m] = IF v = "recover" THEN from + 2 ELSE 0]
      /\ unreset' = IF v = "recover" /\ from > 0 THEN unreset ELSE unreset \ {m}
      /\ round' = IF v = "invalidate" \/ ready
                  THEN [round EXCEPT !.pc = "was", !.rapi = m, !.verdict = v]
                  ELSE AfterRapi(m)
      /\ Counts(m, v)

\* What follows from a verdict, with the streak that was read.  A streak that
\* begins at zero has outlived nothing.
Judges(m, from) ==
  LET v == Verdict(m)
      ready == v = "recover" /\ from + 1 >= Confirmations
  IN  /\ streak' = [streak EXCEPT ![m] = IF v = "recover" THEN from + 1 ELSE 0]
      /\ unreset' = IF v = "recover" /\ from > 0 THEN unreset ELSE unreset \ {m}
      /\ round' = IF v = "invalidate" \/ ready
                  THEN [round EXCEPT !.pc = "was", !.rapi = m, !.verdict = v]
                  ELSE AfterRapi(m)
      /\ Counts(m, v)

\* A mutant: a round that could not tell leaves the count alone.
JudgeKeepsOnHold ==
  /\ round.pc = "judge"
  /\ \E m \in round.rapis :
       \/ Verdict(m) # "hold" /\ Judges(m, streak[m])
       \/ /\ Verdict(m) = "hold" /\ round' = AfterRapi(m) /\ Counts(m, "hold")
          /\ UNCHANGED <<streak, unreset>>
  /\ UNCHANGED <<available, frozen, probed, key, offer, probe, overtaken, budget>>

\* applyJudgment up to its first write of the streak, which nobody else writes.
Judge ==
  /\ round.pc = "judge"
  /\ \E m \in round.rapis : Judges(m, streak[m])
  /\ UNCHANGED <<available, frozen, probed, key, offer, probe, overtaken, budget>>

\* The streak cannot be read, and counts as zero.
JudgeUnread ==
  /\ round.pc = "judge" /\ Disturb
  /\ \E m \in round.rapis : Verdict(m) = "recover" /\ Judges(m, 0)
  /\ UNCHANGED <<available, frozen, probed, key, offer, probe, overtaken>>

\* The streak cannot be written: the judgement of this RAPI is given up, and what
\* the rounds before have counted stays, whatever this one has found.
JudgeUnwritten ==
  /\ round.pc = "judge" /\ Disturb
  /\ \E m \in round.rapis :
       /\ round' = AfterRapi(m)
       /\ Counts(m, Verdict(m))
       /\ unreset' = IF Verdict(m) = "recover" THEN unreset ELSE unreset \cup {m}
  /\ UNCHANGED <<available, streak, frozen, probed, key, offer, probe, overtaken>>

\* It ends the count, reads what the row is ...
ReadWas ==
  /\ round.pc = "was"
  /\ streak' = [streak EXCEPT ![round.rapi] = 0]
  /\ round' = [round EXCEPT !.was = available[round.rapi], !.pc = "write"]
  /\ UNCHANGED <<available, frozen, probed, key, offer, probe, confirmed,
                 unreset, overtaken, budget>>

\* A mutant: the scheduler is told of what goes out of service only.
WriteTellsInvalidation ==
  /\ round.pc = "write"
  /\ available' = [available EXCEPT ![round.rapi] = (round.verdict = "recover")]
  /\ round' = IF round.was /\ round.verdict = "invalidate"
              THEN [round EXCEPT !.pc = "tell"] ELSE AfterRapi(round.rapi)
  /\ UNCHANGED <<streak, frozen, probed, key, offer, probe, confirmed, unreset, overtaken, budget>>

\* ... writes what it is to be ...
Write ==
  /\ round.pc = "write"
  /\ available' = [available EXCEPT ![round.rapi] = (round.verdict = "recover")]
  /\ round' = IF round.was # (round.verdict = "recover")
              THEN [round EXCEPT !.pc = "tell"] ELSE AfterRapi(round.rapi)
  /\ UNCHANGED <<streak, frozen, probed, key, offer, probe, confirmed, unreset, overtaken, budget>>

\* ... and tells the scheduler if that was a change: InvalidateRAPI or
\* RevalidateRAPI.
Tell ==
  /\ round.pc = "tell"
  /\ frozen' = [frozen EXCEPT ![round.rapi] = (round.verdict = "invalidate")]
  /\ overtaken' = [overtaken EXCEPT ![round.rapi] = @ /\ round.verdict = "invalidate"]
  /\ round' = AfterRapi(round.rapi)
  /\ UNCHANGED <<available, streak, probed, key, offer, probe, confirmed, unreset, budget>>

\* A statement fails: the judgement of this RAPI is given up.
StatementFails ==
  /\ round.pc \in {"was", "write"} /\ Disturb
  /\ round' = AfterRapi(round.rapi)
  /\ UNCHANGED <<available, streak, frozen, probed, key, offer, probe, confirmed, unreset, overtaken>>

Finish ==
  /\ round.pc = "judge" /\ round.rapis = {}
  /\ round' = Resting
  /\ UNCHANGED <<available, streak, frozen, probed, key, offer, probe, confirmed,
                 unreset, overtaken, budget>>

----------------------------------------------------------------------------
(* The gateway, at the same time.                                           *)

\* History: the RAPI changes between the look at its row and the last step
\* that rests on it.
Overtakes(m) ==
  overtaken' = [overtaken EXCEPT ![m] = @ \/ (round.rapi = m /\ round.pc \in {"write", "tell"})]

\* A request finds every key of the pool dead: row and machine in one call.
PoolDies(m) ==
  /\ Disturb
  /\ ~frozen[m]
  /\ available' = [available EXCEPT ![m] = FALSE]
  /\ frozen' = [frozen EXCEPT ![m] = TRUE]
  /\ Overtakes(m)
  /\ UNCHANGED <<streak, probed, key, offer, round, probe, confirmed, unreset>>

\* RecoverUnhealthyRAPIs and its two relatives collect what is out of service.
\* While one runs, the others return at once without doing anything.
ProbesBegin ==
  /\ \A m \in Rapis : probe[m] = "none"
  /\ \E ms \in SUBSET {m \in Rapis : ~available[m]} \ {{}} :
       probe' = [m \in Rapis |-> IF m \in ms THEN "running" ELSE "none"]
  /\ UNCHANGED <<available, streak, frozen, probed, key, offer, round, confirmed,
                 unreset, overtaken, budget>>

\* recoverRAPIs: no format is answered, or one is and the row is written ...
ProbeFails(m) ==
  /\ probe[m] = "running"
  /\ probe' = [probe EXCEPT ![m] = "none"]
  /\ UNCHANGED <<available, streak, frozen, probed, key, offer, round, confirmed,
                 unreset, overtaken, budget>>

ProbeRestores(m) ==
  /\ probe[m] = "running"
  /\ available' = [available EXCEPT ![m] = TRUE]
  /\ probe' = [probe EXCEPT ![m] = "written"]
  /\ Overtakes(m)
  /\ UNCHANGED <<streak, frozen, probed, key, offer, round, confirmed, unreset, budget>>

\* ... and the scheduler told, whatever has become of the row.
ProbeRevalidates(m) ==
  /\ probe[m] = "written"
  /\ frozen' = [frozen EXCEPT ![m] = FALSE]
  /\ probe' = [probe EXCEPT ![m] = "none"]
  /\ overtaken' = [overtaken EXCEPT ![m] = round.rapi = m /\ round.pc \in {"write", "tell"}]
  /\ UNCHANGED <<available, streak, probed, key, offer, round, confirmed, unreset, budget>>

CredentialChanges(k) ==
  /\ Disturb
  /\ \E s \in {"good", "off", "dead"} \ {key[k]} : key' = [key EXCEPT ![k] = s]
  /\ UNCHANGED <<available, streak, frozen, probed, offer, round, probe, confirmed, unreset, overtaken>>

UpstreamChanges(k) ==
  /\ Disturb
  /\ \E o \in Offers \ {offer[k]} : offer' = [offer EXCEPT ![k] = o]
  /\ UNCHANGED <<available, streak, frozen, probed, key, round, probe, confirmed, unreset, overtaken>>

\* The process ends anywhere.  Rows and streaks stay, machines are made anew.
RestartCatalog ==
  /\ Disturb
  /\ round' = Resting /\ probe' = [m \in Rapis |-> "none"]
  /\ frozen' = [m \in Rapis |-> FALSE] /\ overtaken' = [m \in Rapis |-> FALSE]
  /\ UNCHANGED <<available, streak, probed, key, offer, confirmed, unreset>>

RoundStep ==
  \/ \E k \in Credentials : List(k)
  \/ Judge
  \/ ReadWas
  \/ Write
  \/ Tell
  \/ Finish

CatalogNext ==
  \/ Start
  \/ RoundStep
  \/ JudgeUnread \/ JudgeUnwritten
  \/ StatementFails
  \/ \E m \in Rapis : \/ PoolDies(m)
                      \/ ProbeFails(m)
                      \/ ProbeRestores(m)
                      \/ ProbeRevalidates(m)
  \/ ProbesBegin
  \/ \E k \in Credentials : CredentialChanges(k) \/ UpstreamChanges(k)
  \/ RestartCatalog

CatalogSpec == CatalogInit /\ [][CatalogNext]_catalogVars

\* The ticker starts one round after another, and a round goes on.
CatalogFairSpec == CatalogSpec /\ WF_catalogVars(Start) /\ WF_catalogVars(RoundStep)

----------------------------------------------------------------------------
(* Properties.                                                              *)

\* "A recovery needs `confirmations` confirmations in a row" (applyJudgment):
\* counted over restarts and rounds that fail half way, with no judgement in
\* between that found otherwise.  The exception is a judgement that should have
\* ended the count and could not write it.
RecoveryConfirmed ==
  round.pc \in {"was", "write", "tell"} /\ round.verdict = "recover" =>
    confirmed[round.rapi] >= Confirmations \/ round.rapi \in unreset

\* The catalog takes nothing out of service that a key it asked might serve: an
\* answer that failed, or a catalog without names, is no evidence.
AbsenceProven ==
  round.pc \in {"was", "write", "tell"} /\ round.verdict = "invalidate" =>
    \A k \in Binding[round.rapi] :
      round.state[k] = "good" => /\ Informative(round.answer[k])
                                 /\ round.rapi \notin round.answer[k].models

\* A machine is frozen only while its row is out of service, where the probes
\* and the rounds can see it: else nothing would thaw it before a restart.  In
\* between are the two halves of a recovery; and the exception the code leaves
\* open, a pool found dead, or a probe that succeeds, between a judgement's
\* look at the row and its last step.
FrozenHasCause ==
  \A m \in Rapis :
    frozen[m] => \/ ~available[m]
                 \/ probe[m] = "written"
                 \/ round.pc = "tell" /\ round.rapi = m /\ round.verdict = "recover"
                 \/ overtaken[m]

Offered(m) == \E k \in Binding[m] : key[k] = "good" /\ m \in offer[k].models

\* What is out of service and offered again comes back, as long as it stays
\* offered: the rounds go on until then, however many confirmations it takes.
OfferedComesBack == \A m \in Rapis : Offered(m) ~> available[m] \/ ~Offered(m)
=============================================================================
