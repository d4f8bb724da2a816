----------------------------- MODULE BatchTrigger -----------------------------
(***************************************************************************)
(* The retrospective merge-trigger decision: evaluate_merge_trigger of     *)
(* src/scpn_mif_core/merge_trigger.py looks at the whole approach before   *)
(* it decides.  A trace is the sequence of samples of one approach.        *)
(*                                                                         *)
(* A sample is what the decision reads: its axial separation, whether      *)
(* phases and positions lie inside the merge-window tolerances, its time.  *)
(* Metres are integers here and the two ratios of the safety envelope are  *)
(* CONTRACTION / UNIT and DISTURBANCE / UNIT, so slacks are scaled by UNIT. *)
(***************************************************************************)
EXTENDS Integers, Sequences

CONSTANTS consecutive_samples,            \* MergeWindowSpec
          TOLERANCE, CONTRACTION, DISTURBANCE, UNIT, NUMERICAL_TOLERANCE,
          Separations, Times, NoTime      \* what samples carry; None as t_s

ASSUME TriggerAssumption ==
    /\ consecutive_samples \in Nat \ {0}
    /\ TOLERANCE \in Nat \ {0} /\ UNIT \in Nat \ {0}
    /\ CONTRACTION \in Nat /\ DISTURBANCE \in Nat
    /\ CONTRACTION + DISTURBANCE <= UNIT
    /\ NUMERICAL_TOLERANCE \in Nat
    /\ Separations \subseteq Nat /\ Times \subseteq Nat /\ NoTime \notin Nat

Sample == [separation : Separations, candidate : BOOLEAN, t_s : Times \cup {NoTime}]

Decisions == {"HOLD_NO_LOCK", "FIRE", "ABORT_UNSAFE", "ABORT_BANK_INFEASIBLE"}

(* The envelope: the first separation lies within the tolerance, and each  *)
(* later one within what its predecessor contracts to plus the disturbance. *)
initial_margin(separation) == UNIT * (TOLERANCE - separation)
(* Mutant: the predecessor is not contracted. *)
SlackUncontracted(before, separation) ==
    UNIT * before + DISTURBANCE * TOLERANCE - UNIT * separation

step_slack(before, separation) ==
    CONTRACTION * before + DISTURBANCE * TOLERANCE - UNIT * separation

Violating(slack) == slack < -(UNIT * NUMERICAL_TOLERANCE)

(* The separation envelope is broken at position i of the trace.           *)
Violation(trace, i) ==
    IF i = 1 THEN Violating(initial_margin(trace[1].separation))
    ELSE Violating(step_slack(trace[i - 1].separation, trace[i].separation))

passed(trace) == \A i \in DOMAIN trace : ~Violation(trace, i)

(* What a fresh monitor run over the trace reports at position i: the last *)
(* consecutive_samples samples up to i are all candidates.                 *)
LockAt(trace, i) ==
    /\ i >= consecutive_samples
    /\ \A j \in i - consecutive_samples + 1 .. i : trace[j].candidate

lock_achieved(trace) == \E i \in DOMAIN trace : LockAt(trace, i)

(* Safety first, then lock, then the bank.                                 *)
decide(trace, bank_feasible) ==
    IF ~passed(trace) THEN "ABORT_UNSAFE"
    ELSE IF ~lock_achieved(trace) THEN "HOLD_NO_LOCK"
    ELSE IF ~bank_feasible THEN "ABORT_BANK_INFEASIBLE"
    ELSE "FIRE"
=============================================================================
