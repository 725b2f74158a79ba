---------------------------- MODULE MCDeployments -----------------------------
(***************************************************************************)
(* Three ways to deploy the effect gateway, explored side by side; the     *)
(* variable deployment says which one a behaviour is about.                *)
(*                                                                         *)
(*   journal   two processes over one database, guarded by the journal     *)
(*   guard     two processes and no journal, guarded by the replay guard;  *)
(*             two permits under one nonce, clocks that disagree           *)
(*   single    one process whose replay guard is in memory, and a journal  *)
(*                                                                         *)
(* The instances are those of the theorems, so that what these assume is   *)
(* evaluated of each deployment.                                           *)
(***************************************************************************)
EXTENDS Naturals, FiniteSets

CONSTANTS
    NoPermit,       \* a model value
    Deployments     \* those this run is about

VARIABLES deployment, clock, gw, slot, nonces, guard, evidence, journal, cause, ran,
          answered, receipts, crashes, outages

gatewayVars == <<clock, gw, slot, nonces, guard, evidence, journal, cause, ran, answered,
             receipts, crashes, outages>>
deploymentVars == <<deployment, gatewayVars>>

(* Every permit is issued at 0 and lives one tick. *)
J == INSTANCE EffectGateway_proofs WITH
        call <- slot,
        Permits <- {"p1"}, Gateways <- {"g1", "g2"}, Slots <- {"s1", "s2"},
        HomeOf <- [s1 |-> "g1", s2 |-> "g2"], Nonces <- {"n1"}, NonceOf <- [p1 |-> "n1"],
        Issued <- [p1 |-> 0], Expires <- [p1 |-> 1],
        DurableReplay <- TRUE, Journaling <- TRUE, Retention <- 0, Skew <- 1, MaxStall <- 4,
        ExecutorMayThrow <- TRUE, MaxClock <- 2, MaxCrashes <- 1, MaxOutages <- 1

G == INSTANCE EffectGateway_proofs WITH
        call <- slot,
        Permits <- {"p1", "p2"}, Gateways <- {"g1", "g2"},
        Slots <- {"s1", "s2"}, HomeOf <- [s1 |-> "g1", s2 |-> "g2"],
        Nonces <- {"n1"}, NonceOf <- [p1 |-> "n1", p2 |-> "n1"],
        Issued <- [p1 |-> 0, p2 |-> 0], Expires <- [p1 |-> 1, p2 |-> 1],
        DurableReplay <- TRUE, Journaling <- FALSE, Retention <- 2, Skew <- 1, MaxStall <- 1,
        ExecutorMayThrow <- TRUE, MaxClock <- 6, MaxCrashes <- 1, MaxOutages <- 1

O == INSTANCE EffectGateway_proofs WITH
        call <- slot,
        Permits <- {"p1", "p2"}, Gateways <- {"g1"}, Slots <- {"s1", "s2"},
        HomeOf <- [s1 |-> "g1", s2 |-> "g1"],
        Nonces <- {"n1", "n2"}, NonceOf <- [p1 |-> "n1", p2 |-> "n2"],
        Issued <- [p1 |-> 0, p2 |-> 0], Expires <- [p1 |-> 1, p2 |-> 1],
        DurableReplay <- FALSE, Journaling <- TRUE, Retention <- 0, Skew <- 0, MaxStall <- 1,
        ExecutorMayThrow <- TRUE, MaxClock <- 1, MaxCrashes <- 2, MaxOutages <- 0

(* What the theorems assume: of every deployment, of those that bar a       *)
(* second effect, and of the one that recovers before it serves.           *)
ASSUME DeploymentsWellFormed ==
    /\ J!ConstantsAssumption /\ G!ConstantsAssumption /\ O!ConstantsAssumption
    /\ J!Protected /\ G!Protected /\ G!NoncesProtected /\ O!Protected
    /\ O!OneProcess

InitDeployed ==
    /\ deployment \in Deployments
    /\ \/ deployment = "journal" /\ J!Init
       \/ deployment = "guard" /\ G!Init
       \/ deployment = "single" /\ O!Init

NextDeployed ==
    /\ UNCHANGED deployment
    /\ \/ deployment = "journal" /\ J!Next
       \/ deployment = "guard" /\ G!Next
       \/ deployment = "single" /\ O!Next

SpecDeployed == InitDeployed /\ [][NextDeployed]_deploymentVars

-----------------------------------------------------------------------------
(* The properties of EffectGateway, for the deployments that promise them: *)

(* v2/effect-gateway.ts, S9: the effect of a permit happens once, and of  *)
(* two permits under one nonce, v2/replay-store.ts, one takes effect.     *)
EffectsSingle ==
    /\ deployment = "journal" => J!AtMostOnce
    /\ deployment = "guard" => G!AtMostOnce /\ G!NonceOnce
    /\ deployment = "single" => O!AtMostOnce

(* v2/effect-commit.ts: a row claims no more than what happened. *)
JournalTruthful ==
    /\ deployment = "journal" => J!JournalTruthful
    /\ deployment = "single" => O!JournalTruthful

(* v2/effect-gateway.ts: performed: true has its evidence. *)
AnswerBacked ==
    /\ deployment = "journal" => J!AnswerBacked
    /\ deployment = "guard" => G!AnswerBacked
    /\ deployment = "single" => O!AnswerBacked

(* v2/effect-commit.ts "a signed receipt each": a receipt speaks of an      *)
(* uncertain row and its cause, and one process signs one; two processes   *)
(* that recover one row side by side may each sign one.                    *)
ReceiptsTruthful ==
    /\ deployment = "journal" => J!ReceiptsTruthful
    /\ deployment = "single" => O!ReceiptsTruthful /\ O!OneReceipt

(* What every deployment promises, whatever is lost on the way: single     *)
(* effects, truthful rows, answers with evidence, truthful receipts.       *)
PromisesKept == EffectsSingle /\ JournalTruthful /\ AnswerBacked /\ ReceiptsTruthful

(* v2/effect-commit.ts: one process recovers before it performs.  It       *)
(* serves only when recovery left no unfinished row, the database up, and  *)
(* an effect happens only while its row is open.                           *)
RecoveryFirst == [][deployment = "single" => O!ServesStep /\ O!EffectsStep]_deploymentVars
=============================================================================
