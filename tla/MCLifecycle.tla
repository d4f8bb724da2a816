------------------------------ MODULE MCLifecycle ------------------------------
(* The three state machines of the lifecycle package, which call none of   *)
(* one another: the merger net, the ring of the pulsed shot and the        *)
(* capacitor bank.  One of them runs, the others stay as they were made.   *)
EXTENDS PlasmoidMerger

CONSTANTS MIN_BURN, MAX_ELAPSE,
          R_VALUES, VOLTAGE_MAX, POWER, RANGE, MAX_PEAK, MAX_STEPS

VARIABLES
    running,                  \* the machine the program steps
    shot_state, sampled, since, audit_log, stay, burn,
    R, v, i, report

Shot == INSTANCE PulsedShot WITH state <- shot_state
Bank == INSTANCE CapacitorBank

ASSUME LifecycleParameters == Shot!ShotAssumption /\ Bank!BankAssumption

shotVars == <<shot_state, sampled, since, audit_log, stay, burn>>
bankVars == <<R, v, i, report>>
lifecycleVars == <<running, vars, shotVars, bankVars>>

LifecycleInit ==
    /\ running \in {"merger", "shot", "bank"}
    /\ Init /\ Shot!ShotInit /\ Bank!BankInit
    /\ running # "merger" => stochastic = FALSE
    /\ running # "bank" => v = 0 /\ \A r \in R_VALUES : R <= r

OfMerger(A) == running = "merger" /\ A /\ UNCHANGED <<running, shotVars, bankVars>>
OfShot(A) == running = "shot" /\ A /\ UNCHANGED <<running, vars, bankVars>>
OfBank(A) == running = "bank" /\ A /\ UNCHANGED <<running, vars, shotVars>>

LifecycleNext == OfMerger(Next) \/ OfShot(Shot!ShotNext) \/ OfBank(Bank!BankNext)

LifecycleSpec == LifecycleInit /\ [][LifecycleNext]_lifecycleVars

FairLifecycleSpec ==
    /\ LifecycleSpec
    /\ WF_lifecycleVars(OfMerger(step))
    /\ WF_lifecycleVars(OfShot(Shot!NominalStep))

(* The audit log is a lap of the ring, and burn lasts its minimum.         *)
ShotIsLawful == Shot!ShotIsLawful
(* A shot in progress comes back to idle.                                  *)
ShotCompletes == Shot!ShotCompletes
(* What the bank reports is what it did, and what it promises is paid.     *)
BankAccounts == Bank!BankAccounts
=============================================================================
