--------------------------- MODULE StreamingTrigger ---------------------------
(***************************************************************************)
(* StreamingMergeTrigger of src/scpn_mif_core/kinematic/                   *)
(* streaming_trigger.py with the MergeWindowMonitor it owns: the causal    *)
(* decision, one sample at a time, and what it has in common with the      *)
(* decision the batch pipeline takes afterwards on the whole trace.        *)
(*                                                                         *)
(* A push whose arrays or time the monitor refuses raises before anything  *)
(* is assigned: it is a step that changes nothing.                         *)
(***************************************************************************)
EXTENDS BatchTrigger

CONSTANTS MaxSamples      \* bound on the length of an approach

ASSUME MaxSamplesAssumption == MaxSamples \in Nat

VARIABLES
    armed, bank_feasible,                      \* the session's frozen spec
    current_streak, first_lock_time_s, last_time_s,           \* the monitor
    decision, prev_abs_separation, first_fire_time_s, first_violation_index,
    trace               \* history: the samples pushed since the last reset

session == <<armed, bank_feasible>>
window == <<current_streak, first_lock_time_s, last_time_s>>
engine == <<decision, prev_abs_separation, first_fire_time_s, first_violation_index>>
vars == <<session, window, engine, trace>>

None == -1      \* no separation yet, no violation yet

sample_index == Len(trace)

TypeOK ==
    /\ armed \in BOOLEAN /\ bank_feasible \in BOOLEAN
    /\ current_streak \in 0 .. sample_index
    /\ first_lock_time_s \in Times \cup {NoTime}
    /\ last_time_s \in Times \cup {NoTime}
    /\ decision \in Decisions
    /\ prev_abs_separation \in Separations \cup {None}
    /\ first_fire_time_s \in Times \cup {NoTime}
    /\ first_violation_index \in 0 .. sample_index - 1 \cup {None}
    /\ trace \in Seq(Sample)

Init ==
    /\ armed \in BOOLEAN /\ bank_feasible \in BOOLEAN
    /\ current_streak = 0 /\ first_lock_time_s = NoTime /\ last_time_s = NoTime
    /\ decision = "HOLD_NO_LOCK" /\ prev_abs_separation = None
    /\ first_fire_time_s = NoTime /\ first_violation_index = None
    /\ trace = <<>>

-----------------------------------------------------------------------------
InTime(t_s) == t_s # NoTime /\ last_time_s # NoTime => t_s > last_time_s

Streak(s) == IF s.candidate THEN current_streak + 1 ELSE 0

Achieved(s) == Streak(s) >= consecutive_samples

(* MergeWindowMonitor.evaluate after its checks. *)
evaluate(s) ==
    /\ current_streak' = Streak(s)
    /\ first_lock_time_s' = IF Achieved(s) /\ first_lock_time_s = NoTime
                            THEN s.t_s ELSE first_lock_time_s
    /\ last_time_s' = IF s.t_s = NoTime THEN last_time_s ELSE s.t_s

Violated(s) ==
    IF prev_abs_separation = None THEN Violating(initial_margin(s.separation))
    ELSE Violating(step_slack(prev_abs_separation, s.separation))

(* Mutant: an infeasible bank is not latched. *)
DecisionWaitingForBank(s) ==
    IF decision # "HOLD_NO_LOCK" THEN decision
    ELSE IF Violated(s) THEN "ABORT_UNSAFE"
    ELSE IF armed /\ Achieved(s) /\ bank_feasible THEN "FIRE"
    ELSE decision

(* The decision after sample s: latched, or the veto before the lock.      *)
Decision(s) ==
    IF decision # "HOLD_NO_LOCK" THEN decision
    ELSE IF Violated(s) THEN "ABORT_UNSAFE"
    ELSE IF armed /\ Achieved(s)
    THEN IF bank_feasible THEN "FIRE" ELSE "ABORT_BANK_INFEASIBLE"
    ELSE decision

Stamp(s) ==
    first_fire_time_s' = IF decision = "HOLD_NO_LOCK" /\ Decision(s) = "FIRE"
                         THEN s.t_s ELSE first_fire_time_s

PushSample(s) ==
    /\ InTime(s.t_s)
    /\ evaluate(s)
    /\ first_violation_index' = IF Violated(s) /\ first_violation_index = None
                                THEN sample_index ELSE first_violation_index
    /\ prev_abs_separation' = s.separation
    /\ decision' = Decision(s)
    /\ Stamp(s)
    /\ trace' = Append(trace, s)
    /\ UNCHANGED session

push == /\ Len(trace) < MaxSamples
        /\ \E s \in Sample : PushSample(s)

reset ==
    /\ current_streak' = 0 /\ first_lock_time_s' = NoTime /\ last_time_s' = NoTime
    /\ decision' = "HOLD_NO_LOCK" /\ prev_abs_separation' = None
    /\ first_fire_time_s' = NoTime /\ first_violation_index' = None
    /\ trace' = <<>>
    /\ UNCHANGED session

Next == push \/ reset

Spec == Init /\ [][Next]_vars

-----------------------------------------------------------------------------
Locks == {i \in DOMAIN trace : LockAt(trace, i)}
Violations == {i \in DOMAIN trace : Violation(trace, i)}

(* The first violation comes strictly after the first lock.                *)
LateViolation ==
    /\ Violations # {}
    /\ \E i \in Locks : \A j \in Violations : i < j

(* On every trace whose first violation does not come strictly after the   *)
(* first lock, the causal decision of an armed lane is the one the batch   *)
(* pipeline takes on the whole trace.  (The batch pipeline has no arm      *)
(* input: an unarmed lane holds through a lock that the pipeline decides.) *)
AgreesWithBatch ==
    armed /\ ~LateViolation => decision = decide(trace, bank_feasible)

(* And the whole truth: the causal decision is the batch decision on the   *)
(* approach cut at its first lock, whatever comes after; an unarmed lane   *)
(* only ever reports a violation.                                          *)
ToFirstLock ==
    CHOOSE n \in 0 .. Len(trace) :
        /\ \A i \in Locks : n <= i
        /\ n \in Locks \/ n = Len(trace)

DecidesAtFirstLock ==
    IF armed
    THEN decision = decide(SubSeq(trace, 1, ToFirstLock), bank_feasible)
    ELSE decision = IF passed(trace) THEN "HOLD_NO_LOCK" ELSE "ABORT_UNSAFE"

(* The runtime counterpart of the Lean envelope theorem: as long as no     *)
(* sample violated the envelope, the separation is within the tolerance,   *)
(* up to one numerical tolerance per sample.                               *)
SafeMeansWithinTolerance ==
    first_violation_index = None =>
        prev_abs_separation <= TOLERANCE + sample_index * NUMERICAL_TOLERANCE

(* The observables name the same samples the batch certificate names: the  *)
(* violation index is that of the first violating sample, and the fire     *)
(* time that of the first sample of the approach that locked.              *)
ObservablesNameFirsts ==
    /\ first_violation_index =
          IF Violations = {} THEN None
          ELSE (CHOOSE i \in Violations : \A j \in Violations : i <= j) - 1
    /\ decision = "FIRE" =>
          first_fire_time_s =
              trace[CHOOSE i \in Locks : \A j \in Locks : i <= j].t_s

(* The decision and the observables reported with it are those of the      *)
(* approach cut at its first lock; so nothing the batch pipeline could     *)
(* have known in time is decided otherwise.                                *)
DecisionIsExact == DecidesAtFirstLock /\ ObservablesNameFirsts /\ AgreesWithBatch
=============================================================================
