------------------------- MODULE StreamingTriggerProof -------------------------
(***************************************************************************)
(* The causal decision agrees with the batch decision on every approach    *)
(* without a late violation, and a safe approach stays in its envelope,    *)
(* for every debounce length, envelope and trace.                          *)
(*                                                                         *)
(* The strengthening says what the engine's three summaries of the past    *)
(* stand for: the previous separation is the trace's last, the streak is   *)
(* its run of trailing candidates, and the latched decision names what has *)
(* happened in it and in which order.                                      *)
(*                                                                         *)
(* Of the stress campaign: what faults can do to a window's evidence, for  *)
(* every threshold, ADC range, window and frame spacing.                   *)
(* Of the forecast: what is planned on the nominal approach is what the    *)
(* causal trigger does on it, and the probabilities it gives are those of  *)
(* the decision over every path of independently drawn checks.             *)
(***************************************************************************)
EXTENDS MCStreamingTrigger, SequenceTheorems, FiniteSetTheorems, WellFoundedInduction,
        TLAPS

LastSeparation ==
    prev_abs_separation =
        IF trace = <<>> THEN None ELSE trace[Len(trace)].separation

TrailingRun ==
    /\ \A j \in Len(trace) - current_streak + 1 .. Len(trace) : trace[j].candidate
    /\ current_streak < Len(trace) => ~trace[Len(trace) - current_streak].candidate

LockedSafely ==
    \E i \in DOMAIN trace :
        /\ LockAt(trace, i)
        /\ \A j \in DOMAIN trace : Violation(trace, j) => i < j

DecisionMeans ==
    armed =>
        /\ decision = "HOLD_NO_LOCK" =>
              \A i \in DOMAIN trace : ~Violation(trace, i) /\ ~LockAt(trace, i)
        /\ decision = "ABORT_UNSAFE" => \E i \in DOMAIN trace : Violation(trace, i)
        /\ decision = "FIRE" => bank_feasible /\ LockedSafely
        /\ decision = "ABORT_BANK_INFEASIBLE" => ~bank_feasible /\ LockedSafely

IInv ==
    /\ TypeOK /\ LastSeparation /\ TrailingRun
    /\ DecisionMeans /\ SafeMeansWithinTolerance

(* One envelope step from within a bound stays within it, up to one        *)
(* numerical tolerance: the arithmetic of the Lean envelope theorem.       *)
LEMMA EnvelopeStep ==
    ASSUME NEW before \in Nat, NEW separation \in Nat, NEW k \in Nat,
           before <= TOLERANCE + k * NUMERICAL_TOLERANCE,
           ~Violating(step_slack(before, separation))
    PROVE  separation <= TOLERANCE + (k + 1) * NUMERICAL_TOLERANCE
<1> DEFINE b == TOLERANCE + k * NUMERICAL_TOLERANCE
<1>1. TOLERANCE \in Nat /\ UNIT \in Nat /\ UNIT > 0 /\ CONTRACTION \in Nat
      /\ DISTURBANCE \in Nat /\ NUMERICAL_TOLERANCE \in Nat
      /\ CONTRACTION + DISTURBANCE <= UNIT
  BY TriggerAssumption
<1>2. k * NUMERICAL_TOLERANCE \in Nat /\ b \in Nat /\ TOLERANCE <= b
  BY <1>1
<1>3. UNIT * separation <=
        CONTRACTION * before + DISTURBANCE * TOLERANCE + UNIT * NUMERICAL_TOLERANCE
  BY <1>1 DEF Violating, step_slack
<1>4. CONTRACTION * before <= CONTRACTION * b
  BY <1>1, <1>2
<1>5. DISTURBANCE * TOLERANCE <= DISTURBANCE * b
  BY <1>1, <1>2
<1>6. (CONTRACTION + DISTURBANCE) * b <= UNIT * b
  BY <1>1, <1>2
<1>7. (CONTRACTION + DISTURBANCE) * b = CONTRACTION * b + DISTURBANCE * b
  BY <1>1, <1>2
<1>8. UNIT * separation <= UNIT * b + UNIT * NUMERICAL_TOLERANCE
  <2> HIDE DEF b
  <2>1. CONTRACTION * before \in Int /\ CONTRACTION * b \in Int
        /\ DISTURBANCE * TOLERANCE \in Int /\ DISTURBANCE * b \in Int
        /\ UNIT * b \in Int /\ UNIT * NUMERICAL_TOLERANCE \in Int
        /\ UNIT * separation \in Int
    BY <1>1, <1>2
  <2> QED BY <2>1, <1>3, <1>4, <1>5, <1>6, <1>7
<1>9. UNIT * b + UNIT * NUMERICAL_TOLERANCE = UNIT * (b + NUMERICAL_TOLERANCE)
  BY <1>1, <1>2
<1>10. separation <= b + NUMERICAL_TOLERANCE
  <2> HIDE DEF b
  <2> DEFINE c == b + NUMERICAL_TOLERANCE
  <2>1. c \in Nat /\ UNIT * separation <= UNIT * c
    BY <1>1, <1>2, <1>8, <1>9
  <2> HIDE DEF c
  <2>2. SUFFICES ASSUME separation >= c + 1 PROVE FALSE
    BY <2>1 DEF c
  <2>3. UNIT * separation >= UNIT * (c + 1)
    BY <1>1, <2>1, <2>2
  <2>4. UNIT * (c + 1) = UNIT * c + UNIT
    BY <1>1, <2>1
  <2> QED BY <1>1, <2>1, <2>3, <2>4
<1>11. (k + 1) * NUMERICAL_TOLERANCE = k * NUMERICAL_TOLERANCE + NUMERICAL_TOLERANCE
  BY <1>1
<1> QED BY <1>1, <1>2, <1>10, <1>11

(* A sample pushed now does not change what the earlier ones mean.         *)
LEMMA PastIsKept ==
    ASSUME NEW s \in Sample, trace \in Seq(Sample), NEW i \in DOMAIN trace
    PROVE  /\ Violation(Append(trace, s), i) <=> Violation(trace, i)
           /\ LockAt(Append(trace, s), i) <=> LockAt(trace, i)
<1> DEFINE longer == Append(trace, s)
<1>1. i \in 1 .. Len(trace) /\ Len(trace) \in Nat
  OBVIOUS
<1>2. \A j \in 1 .. Len(trace) : longer[j] = trace[j]
  OBVIOUS
<1>3. Violation(longer, i) <=> Violation(trace, i)
  <2>1. CASE i = 1
    BY <2>1, <1>1, <1>2 DEF Violation
  <2>2. CASE i # 1
    <3>1. i - 1 \in 1 .. Len(trace)
      BY <2>2, <1>1
    <3> QED BY <2>2, <3>1, <1>1, <1>2 DEF Violation
  <2> QED BY <2>1, <2>2
<1>4. LockAt(longer, i) <=> LockAt(trace, i)
  <2>1. \A j \in i - consecutive_samples + 1 .. i :
            i >= consecutive_samples => j \in 1 .. Len(trace)
    BY <1>1, TriggerAssumption
  <2> QED BY <2>1, <1>2 DEF LockAt
<1> QED BY <1>3, <1>4

(* What the engine computes for a new sample is what the batch definitions *)
(* say of the last position of the longer trace.                           *)
LEMMA PresentIsSeen ==
    ASSUME NEW s \in Sample, TypeOK, LastSeparation, TrailingRun
    PROVE  /\ Violation(Append(trace, s), Len(trace) + 1) <=> Violated(s)
           /\ LockAt(Append(trace, s), Len(trace) + 1) <=> Achieved(s)
<1> DEFINE n == Len(trace)
           longer == Append(trace, s)
<1>1. trace \in Seq(Sample) /\ n \in Nat /\ current_streak \in 0 .. n
      /\ consecutive_samples \in Nat /\ consecutive_samples > 0
  BY TriggerAssumption DEF TypeOK, sample_index
<1>2. longer[n + 1] = s /\ \A j \in 1 .. n : longer[j] = trace[j]
  BY <1>1
<1>3. Violation(longer, n + 1) <=> Violated(s)
  <2>1. CASE trace = <<>>
    BY <2>1, <1>2 DEF Violation, Violated, LastSeparation
  <2>2. CASE trace # <<>>
    <3>1. n \in 1 .. n
      BY <2>2, <1>1
    <3>2. trace[n] \in Sample
      BY <3>1, <1>1
    <3>3. trace[n].separation \in Nat
      BY <3>2, TriggerAssumption DEF Sample
    <3>4. prev_abs_separation = trace[n].separation /\ prev_abs_separation # None
      BY <2>2, <3>3 DEF LastSeparation, None
    <3>5. longer[(n + 1) - 1] = trace[n] /\ n + 1 # 1
      BY <3>1, <1>1, <1>2
    <3> QED BY <3>4, <3>5, <1>2 DEF Violation, Violated
  <2> QED BY <2>1, <2>2
<1>4. LockAt(longer, n + 1) <=> Achieved(s)
  <2>1. CASE ~s.candidate
    <3>1. n + 1 \in (n + 1) - consecutive_samples + 1 .. n + 1
      BY <1>1
    <3>2. ~LockAt(longer, n + 1)
      BY <2>1, <3>1, <1>2 DEF LockAt
    <3>3. ~Achieved(s)
      BY <2>1, <1>1 DEF Achieved, Streak
    <3> QED BY <3>2, <3>3 DEF LockAt, Achieved
  <2>2. CASE s.candidate /\ Achieved(s)
    <3>1. current_streak + 1 >= consecutive_samples
      BY <2>2 DEF Achieved, Streak
    <3>2. \A j \in (n + 1) - consecutive_samples + 1 .. n + 1 : longer[j].candidate
      <4> SUFFICES ASSUME NEW j \in (n + 1) - consecutive_samples + 1 .. n + 1
                   PROVE  longer[j].candidate
        OBVIOUS
      <4>1. CASE j = n + 1
        BY <4>1, <2>2, <1>2
      <4>2. CASE j # n + 1
        <5>1. j \in n - current_streak + 1 .. n /\ j \in 1 .. n
          BY <4>2, <3>1, <1>1
        <5> QED BY <5>1, <1>2 DEF TrailingRun
      <4> QED BY <4>1, <4>2
    <3>3. n + 1 >= consecutive_samples
      BY <3>1, <1>1
    <3> QED BY <2>2, <3>2, <3>3 DEF LockAt, Achieved
  <2>3. CASE s.candidate /\ ~Achieved(s)
    <3>1. current_streak + 1 < consecutive_samples
      BY <2>3, <1>1 DEF Achieved, Streak
    <3>2. CASE current_streak = n
      BY <2>3, <3>1, <3>2, <1>1 DEF LockAt, Achieved
    <3>3. CASE current_streak # n
      <4>1. /\ n - current_streak \in 1 .. n
            /\ n - current_streak \in (n + 1) - consecutive_samples + 1 .. n + 1
        BY <3>1, <3>3, <1>1
      <4>2. ~longer[n - current_streak].candidate
        BY <4>1, <3>3, <1>1, <1>2 DEF TrailingRun
      <4> QED BY <2>3, <4>1, <4>2 DEF LockAt, Achieved
    <3> QED BY <3>2, <3>3
  <2> QED BY <2>1, <2>2, <2>3
<1> QED BY <1>3, <1>4

LEMMA Initially == Init => IInv
<1> SUFFICES ASSUME Init PROVE IInv
  OBVIOUS
<1>1. Len(trace) = 0 /\ DOMAIN trace = {}
  BY DEF Init
<1>2. TypeOK
  BY <1>1 DEF Init, TypeOK, sample_index, Decisions, None
<1>3. LastSeparation /\ TrailingRun
  BY <1>1 DEF Init, LastSeparation, TrailingRun
<1>4. DecisionMeans
  BY <1>1 DEF Init, DecisionMeans
<1>5. SafeMeansWithinTolerance
  BY <1>1, TriggerAssumption DEF Init, SafeMeansWithinTolerance, None, sample_index
<1> QED BY <1>2, <1>3, <1>4, <1>5 DEF IInv

LEMMA PushKeepsTypes ==
    ASSUME IInv, NEW s \in Sample, PushSample(s)
    PROVE  TypeOK'
<1> USE DEF IInv, TypeOK, PushSample, evaluate, Stamp, session, sample_index
<1>1. s.separation \in Separations /\ s.candidate \in BOOLEAN
      /\ s.t_s \in Times \cup {NoTime}
  BY DEF Sample
<1>2. trace' \in Seq(Sample) /\ Len(trace') = Len(trace) + 1 /\ Len(trace) \in Nat
  OBVIOUS
<1>3. current_streak' \in 0 .. Len(trace')
  BY <1>2 DEF Streak
<1>4. decision' \in Decisions
  BY DEF Decision, Decisions
<1>5. first_violation_index' \in 0 .. Len(trace') - 1 \cup {None}
  BY <1>2
<1>6. /\ first_lock_time_s' \in Times \cup {NoTime}
      /\ last_time_s' \in Times \cup {NoTime}
      /\ first_fire_time_s' \in Times \cup {NoTime}
      /\ prev_abs_separation' \in Separations \cup {None}
      /\ armed' \in BOOLEAN /\ bank_feasible' \in BOOLEAN
  BY <1>1
<1> QED BY <1>2, <1>3, <1>4, <1>5, <1>6

LEMMA PushKeepsSummaries ==
    ASSUME IInv, NEW s \in Sample, PushSample(s)
    PROVE  LastSeparation' /\ TrailingRun'
<1> DEFINE n == Len(trace)
<1>1. trace \in Seq(Sample) /\ n \in Nat /\ current_streak \in 0 .. n
  BY DEF IInv, TypeOK, sample_index
<1>2. /\ trace' = Append(trace, s) /\ Len(trace') = n + 1 /\ trace' # <<>>
      /\ trace'[n + 1] = s /\ \A j \in 1 .. n : trace'[j] = trace[j]
  BY <1>1 DEF PushSample
<1>3. LastSeparation'
  BY <1>2 DEF LastSeparation, PushSample
<1>4. CASE s.candidate
  <2>1. current_streak' = current_streak + 1
    BY <1>4 DEF PushSample, evaluate, Streak
  <2>2. ASSUME NEW j \in (n + 1) - (current_streak + 1) + 1 .. n + 1
        PROVE  trace'[j].candidate
    <3>1. CASE j = n + 1
      BY <3>1, <1>2, <1>4
    <3>2. CASE j # n + 1
      <4>1. j \in n - current_streak + 1 .. n /\ j \in 1 .. n
        BY <3>2, <1>1
      <4> QED BY <4>1, <1>2 DEF IInv, TrailingRun
    <3> QED BY <3>1, <3>2
  <2>3. ASSUME current_streak + 1 < n + 1
        PROVE  ~trace'[(n + 1) - (current_streak + 1)].candidate
    <3>1. (n + 1) - (current_streak + 1) = n - current_streak
          /\ n - current_streak \in 1 .. n /\ current_streak < n
      BY <2>3, <1>1
    <3> QED BY <3>1, <1>2 DEF IInv, TrailingRun
  <2> QED BY <1>2, <1>3, <2>1, <2>2, <2>3 DEF TrailingRun
<1>5. CASE ~s.candidate
  <2>1. current_streak' = 0
    BY <1>5 DEF PushSample, evaluate, Streak
  <2> QED BY <1>1, <1>2, <1>3, <1>5, <2>1 DEF TrailingRun
<1> QED BY <1>4, <1>5

LEMMA PushKeepsMeaning ==
    ASSUME IInv, NEW s \in Sample, PushSample(s)
    PROVE  DecisionMeans'
<1> DEFINE n == Len(trace)
<1>1. trace \in Seq(Sample) /\ n \in Nat /\ decision \in Decisions
  BY DEF IInv, TypeOK
<1>2. /\ trace' = Append(trace, s) /\ decision' = Decision(s)
      /\ armed' = armed /\ bank_feasible' = bank_feasible
  BY DEF PushSample, session
<1>3. DOMAIN trace = 1 .. n /\ DOMAIN trace' = 1 .. n + 1
  BY <1>1, <1>2
<1>4. \A i \in 1 .. n :
          (Violation(trace', i) <=> Violation(trace, i))
          /\ (LockAt(trace', i) <=> LockAt(trace, i))
  BY <1>1, <1>2, <1>3, PastIsKept
<1>5. /\ Violation(trace', n + 1) <=> Violated(s)
      /\ LockAt(trace', n + 1) <=> Achieved(s)
  BY <1>2, PresentIsSeen DEF IInv
<1>6. ASSUME LockedSafely PROVE LockedSafely'
  <2>1. PICK i \in 1 .. n : /\ LockAt(trace, i)
                            /\ \A j \in 1 .. n : Violation(trace, j) => i < j
    BY <1>6, <1>3 DEF LockedSafely
  <2>2. i \in 1 .. n + 1 /\ LockAt(trace', i)
    BY <2>1, <1>1, <1>4
  <2>3. \A j \in 1 .. n + 1 : Violation(trace', j) => i < j
    BY <2>1, <1>1, <1>4
  <2> QED BY <2>2, <2>3, <1>3 DEF LockedSafely
<1>7. ASSUME armed, decision = "HOLD_NO_LOCK", ~Violated(s), Achieved(s)
      PROVE  LockedSafely'
  <2>1. \A j \in 1 .. n + 1 : ~Violation(trace', j)
    BY <1>7, <1>1, <1>3, <1>4, <1>5 DEF IInv, DecisionMeans
  <2>2. n + 1 \in 1 .. n + 1 /\ LockAt(trace', n + 1)
    BY <1>7, <1>1, <1>5
  <2> QED BY <2>1, <2>2, <1>3 DEF LockedSafely
<1>8. ASSUME armed, decision' = "HOLD_NO_LOCK"
      PROVE  \A i \in DOMAIN trace' : ~Violation(trace', i) /\ ~LockAt(trace', i)
  <2>1. decision = "HOLD_NO_LOCK" /\ ~Violated(s) /\ ~Achieved(s)
    BY <1>2, <1>8 DEF Decision
  <2>2. \A i \in 1 .. n : ~Violation(trace', i) /\ ~LockAt(trace', i)
    BY <2>1, <1>3, <1>4, <1>8 DEF IInv, DecisionMeans
  <2> QED BY <2>1, <2>2, <1>1, <1>3, <1>5
<1>9. ASSUME armed, decision' = "ABORT_UNSAFE"
      PROVE  \E i \in DOMAIN trace' : Violation(trace', i)
  <2>1. CASE decision = "ABORT_UNSAFE"
    BY <2>1, <1>1, <1>3, <1>4, <1>9 DEF IInv, DecisionMeans
  <2>2. CASE decision # "ABORT_UNSAFE"
    <3>1. Violated(s)
      BY <2>2, <1>2, <1>9 DEF Decision
    <3> QED BY <3>1, <1>1, <1>3, <1>5
  <2> QED BY <2>1, <2>2
<1>10. ASSUME armed, decision' = "FIRE"
       PROVE  bank_feasible /\ LockedSafely'
  <2>1. CASE decision = "FIRE"
    BY <2>1, <1>6, <1>10 DEF IInv, DecisionMeans
  <2>2. CASE decision # "FIRE"
    <3>1. decision = "HOLD_NO_LOCK" /\ ~Violated(s) /\ Achieved(s) /\ bank_feasible
      BY <2>2, <1>2, <1>10 DEF Decision
    <3> QED BY <3>1, <1>7, <1>10
  <2> QED BY <2>1, <2>2
<1>11. ASSUME armed, decision' = "ABORT_BANK_INFEASIBLE"
       PROVE  ~bank_feasible /\ LockedSafely'
  <2>1. CASE decision = "ABORT_BANK_INFEASIBLE"
    BY <2>1, <1>6, <1>11 DEF IInv, DecisionMeans
  <2>2. CASE decision # "ABORT_BANK_INFEASIBLE"
    <3>1. decision = "HOLD_NO_LOCK" /\ ~Violated(s) /\ Achieved(s) /\ ~bank_feasible
      BY <2>2, <1>2, <1>11 DEF Decision
    <3> QED BY <3>1, <1>7, <1>11
  <2> QED BY <2>1, <2>2
<1> QED BY <1>2, <1>8, <1>9, <1>10, <1>11 DEF DecisionMeans

LEMMA PushKeepsEnvelope ==
    ASSUME IInv, NEW s \in Sample, PushSample(s)
    PROVE  SafeMeansWithinTolerance'
<1> DEFINE n == Len(trace)
<1>1. trace \in Seq(Sample) /\ n \in Nat
  BY DEF IInv, TypeOK
<1>2. Len(trace') = n + 1 /\ prev_abs_separation' = s.separation
      /\ s.separation \in Nat
  BY <1>1, TriggerAssumption DEF PushSample, Sample
<1>3. SUFFICES ASSUME first_violation_index' = None
               PROVE  s.separation <= TOLERANCE + (n + 1) * NUMERICAL_TOLERANCE
  BY <1>2 DEF SafeMeansWithinTolerance, sample_index
<1>4. ~Violated(s) /\ first_violation_index = None
  BY <1>1, <1>3 DEF PushSample, sample_index, None
<1>5. CASE prev_abs_separation = None
  <2>1. ~Violating(initial_margin(s.separation))
    BY <1>4, <1>5 DEF Violated
  <2>2. UNIT * (TOLERANCE - s.separation) >= -(UNIT * NUMERICAL_TOLERANCE)
    BY <2>1, <1>2, TriggerAssumption DEF Violating, initial_margin
  <2>3. s.separation <= TOLERANCE + NUMERICAL_TOLERANCE
    <3> DEFINE c == TOLERANCE - s.separation + NUMERICAL_TOLERANCE
    <3>1. UNIT * c = UNIT * (TOLERANCE - s.separation) + UNIT * NUMERICAL_TOLERANCE
          /\ c \in Int /\ UNIT \in Nat /\ UNIT > 0
      BY <1>2, TriggerAssumption
    <3>2. UNIT * c >= 0
      BY <3>1, <2>2, <1>2, TriggerAssumption
    <3>3. c >= 0
      <4> HIDE DEF c
      <4>1. SUFFICES ASSUME c <= -1 PROVE FALSE
        BY <3>1
      <4>2. UNIT * c <= UNIT * (-1)
        BY <3>1, <4>1
      <4> QED BY <3>1, <3>2, <4>2
    <3> QED BY <3>3, <1>2, TriggerAssumption
  <2>4. NUMERICAL_TOLERANCE <= (n + 1) * NUMERICAL_TOLERANCE
    BY <1>1, TriggerAssumption
  <2> QED BY <2>3, <2>4, <1>1, <1>2, TriggerAssumption
<1>6. CASE prev_abs_separation # None
  <2>1. prev_abs_separation \in Nat
    BY <1>6, TriggerAssumption DEF IInv, TypeOK
  <2>2. prev_abs_separation <= TOLERANCE + n * NUMERICAL_TOLERANCE
    BY <1>4 DEF IInv, SafeMeansWithinTolerance, sample_index
  <2>3. ~Violating(step_slack(prev_abs_separation, s.separation))
    BY <1>4, <1>6 DEF Violated
  <2> QED BY <2>1, <2>2, <2>3, <1>1, <1>2, EnvelopeStep
<1> QED BY <1>5, <1>6

LEMMA ResetKeeps == ASSUME IInv, reset PROVE IInv'
<1>1. trace' = <<>> /\ Len(trace') = 0 /\ DOMAIN trace' = {} /\ trace' \in Seq(Sample)
  BY DEF reset
<1>2. TypeOK'
  BY <1>1 DEF reset, IInv, TypeOK, sample_index, Decisions, None, session
<1>3. LastSeparation' /\ TrailingRun'
  BY <1>1 DEF reset, LastSeparation, TrailingRun
<1>4. DecisionMeans'
  BY <1>1 DEF reset, DecisionMeans
<1>5. SafeMeansWithinTolerance'
  BY <1>1, TriggerAssumption
     DEF reset, SafeMeansWithinTolerance, None, sample_index
<1> QED BY <1>2, <1>3, <1>4, <1>5 DEF IInv

LEMMA StepKeeps == IInv /\ [Next]_vars => IInv'
<1> SUFFICES ASSUME IInv, [Next]_vars PROVE IInv'
  OBVIOUS
<1>1. CASE push
  <2>1. PICK s \in Sample : PushSample(s)
    BY <1>1 DEF push
  <2> QED BY <2>1, PushKeepsTypes, PushKeepsSummaries, PushKeepsMeaning,
             PushKeepsEnvelope DEF IInv
<1>2. CASE reset
  BY <1>2, ResetKeeps
<1>3. CASE UNCHANGED vars
  BY <1>3 DEF vars, session, window, engine, IInv, TypeOK, sample_index,
     LastSeparation, TrailingRun, DecisionMeans, LockedSafely,
     SafeMeansWithinTolerance
<1> QED BY <1>1, <1>2, <1>3 DEF Next

LEMMA Invariance == Spec => []IInv
BY Initially, StepKeeps, PTL DEF Spec

(* Each variable of the engine keeps its type, and the violation index     *)
(* always names a sample that was pushed.                                  *)
THEOREM TypeCorrect == Spec => []TypeOK
<1>1. IInv => TypeOK
  BY DEF IInv
<1> QED BY <1>1, Invariance, PTL

(* The causal decision of an armed lane is the batch decision on every     *)
(* approach whose first violation does not come after its first lock.      *)
THEOREM Agreement == Spec => []AgreesWithBatch
<1>1. IInv => AgreesWithBatch
  <2> SUFFICES ASSUME IInv, armed, ~LateViolation
               PROVE  decision = decide(trace, bank_feasible)
    BY DEF AgreesWithBatch
  <2>1. decision \in Decisions
    BY DEF IInv, TypeOK
  <2>2. ASSUME LockedSafely
        PROVE  passed(trace) /\ lock_achieved(trace)
    <3>1. PICK i \in DOMAIN trace :
            LockAt(trace, i) /\ \A j \in DOMAIN trace : Violation(trace, j) => i < j
      BY <2>2 DEF LockedSafely
    <3>2. Violations = {}
      BY <3>1 DEF LateViolation, Violations, Locks
    <3> QED BY <3>1, <3>2 DEF passed, lock_achieved, Violations
  <2>3. CASE decision = "HOLD_NO_LOCK"
    BY <2>3 DEF IInv, DecisionMeans, decide, passed, lock_achieved
  <2>4. CASE decision = "ABORT_UNSAFE"
    BY <2>4 DEF IInv, DecisionMeans, decide, passed
  <2>5. CASE decision = "FIRE"
    BY <2>2, <2>5 DEF IInv, DecisionMeans, decide
  <2>6. CASE decision = "ABORT_BANK_INFEASIBLE"
    BY <2>2, <2>6 DEF IInv, DecisionMeans, decide
  <2> QED BY <2>1, <2>3, <2>4, <2>5, <2>6 DEF Decisions
<1> QED BY <1>1, Invariance, PTL

(* As long as no sample violated the envelope, the separation stays within *)
(* the tolerance, up to one numerical tolerance per sample.                *)
THEOREM SafeApproach == Spec => []SafeMeansWithinTolerance
<1>1. IInv => SafeMeansWithinTolerance
  BY DEF IInv
<1> QED BY <1>1, Invariance, PTL

(* What is remembered of the first violation, of the first lock and of     *)
(* which came first: the decision is settled at the first lock, and what   *)
(* follows it changes nothing.                                             *)
FirstViolationNamed ==
    IF first_violation_index = None THEN Violations = {}
    ELSE /\ first_violation_index + 1 \in Violations
         /\ \A j \in Violations : first_violation_index + 1 <= j

FirstLock(i) == i \in Locks /\ \A j \in Locks : i <= j

SafeUpTo(i) == \A j \in Violations : i < j

DecidedAtLock ==
    IF armed
    THEN /\ Locks # {} => \E i \in Locks : FirstLock(i)
         /\ decision = "HOLD_NO_LOCK" => Violations = {} /\ Locks = {}
         /\ decision = "ABORT_UNSAFE" =>
               \E j \in Violations : \A i \in Locks : j <= i
         /\ decision = "FIRE" =>
               \E i \in Locks : /\ FirstLock(i) /\ SafeUpTo(i) /\ bank_feasible
                                /\ first_fire_time_s = trace[i].t_s
         /\ decision = "ABORT_BANK_INFEASIBLE" =>
               \E i \in Locks : FirstLock(i) /\ SafeUpTo(i) /\ ~bank_feasible
    ELSE decision = IF Violations = {} THEN "HOLD_NO_LOCK" ELSE "ABORT_UNSAFE"

ExactInv == FirstViolationNamed /\ DecidedAtLock

(* A push adds its own position to the violations and to the locks, or     *)
(* leaves them.                                                            *)
LEMMA PushAddsLast ==
    ASSUME IInv, NEW s \in Sample, PushSample(s)
    PROVE  /\ Len(trace) \in Nat
           /\ Violations \subseteq 1 .. Len(trace) /\ Locks \subseteq 1 .. Len(trace)
           /\ Violations' = Violations \cup (IF Violated(s) THEN {Len(trace) + 1} ELSE {})
           /\ Locks' = Locks \cup (IF Achieved(s) THEN {Len(trace) + 1} ELSE {})
           /\ trace'[Len(trace) + 1] = s
           /\ \A i \in 1 .. Len(trace) : trace'[i] = trace[i]
<1> DEFINE n == Len(trace)
<1>1. trace \in Seq(Sample) /\ n \in Nat /\ trace' = Append(trace, s)
  BY DEF IInv, TypeOK, PushSample
<1>2. DOMAIN trace = 1 .. n /\ DOMAIN trace' = 1 .. n + 1
  BY <1>1
<1>3. \A i \in 1 .. n :
          (Violation(trace', i) <=> Violation(trace, i))
          /\ (LockAt(trace', i) <=> LockAt(trace, i))
  BY <1>1, <1>2, PastIsKept
<1>4. /\ Violation(trace', n + 1) <=> Violated(s)
      /\ LockAt(trace', n + 1) <=> Achieved(s)
  BY <1>1, PresentIsSeen DEF IInv
<1>5. \A i : i \in 1 .. n + 1 <=> i \in 1 .. n \/ i = n + 1
  BY <1>1
<1>6. Violations' = Violations \cup (IF Violated(s) THEN {n + 1} ELSE {})
  BY <1>2, <1>3, <1>4, <1>5 DEF Violations
<1>7. Locks' = Locks \cup (IF Achieved(s) THEN {n + 1} ELSE {})
  BY <1>2, <1>3, <1>4, <1>5 DEF Locks
<1>8. trace'[n + 1] = s /\ \A i \in 1 .. n : trace'[i] = trace[i]
  BY <1>1
<1> QED BY <1>1, <1>2, <1>6, <1>7, <1>8 DEF Violations, Locks

LEMMA LeastIsUnique ==
    ASSUME NEW S \in SUBSET Int, NEW k \in S, \A j \in S : k <= j
    PROVE  (CHOOSE i \in S : \A j \in S : i <= j) = k
<1> DEFINE c == CHOOSE i \in S : \A j \in S : i <= j
<1>1. c \in S /\ \A j \in S : c <= j
  OBVIOUS
<1> HIDE DEF c
<1>2. c \in Int /\ k \in Int /\ c <= k /\ k <= c
  BY <1>1
<1>3. c = k
  BY <1>2
<1> QED BY <1>3 DEF c

LEMMA PushNamesFirstViolation ==
    ASSUME IInv, ExactInv, NEW s \in Sample, PushSample(s)
    PROVE  FirstViolationNamed'
<1> DEFINE n == Len(trace)
<1>1. /\ n \in Nat /\ Violations \subseteq 1 .. n
      /\ Violations' = Violations \cup (IF Violated(s) THEN {n + 1} ELSE {})
  BY PushAddsLast
<1>2. first_violation_index' = IF Violated(s) /\ first_violation_index = None
                               THEN n ELSE first_violation_index
  BY DEF PushSample, sample_index
<1>3. n # None /\ \A j \in Violations : j <= n
  BY <1>1 DEF None
<1> HIDE DEF n
<1>4. FirstViolationNamed
  BY DEF ExactInv
<1>5. CASE first_violation_index = None /\ ~Violated(s)
  <2>1. first_violation_index' = None /\ Violations' = {}
    BY <1>1, <1>2, <1>4, <1>5 DEF FirstViolationNamed
  <2> QED BY <2>1 DEF FirstViolationNamed, None
<1>6. CASE first_violation_index = None /\ Violated(s)
  <2>1. first_violation_index' = n /\ Violations' = {n + 1}
    BY <1>1, <1>2, <1>4, <1>6 DEF FirstViolationNamed
  <2>2. (first_violation_index + 1)' = n + 1
    BY <2>1
  <2> QED BY <2>1, <2>2, <1>1, <1>3 DEF FirstViolationNamed, None
<1>7. CASE first_violation_index # None
  <2>1. first_violation_index' = first_violation_index
    BY <1>2, <1>7
  <2>2. first_violation_index + 1 \in Violations
        /\ \A j \in Violations : first_violation_index + 1 <= j
    BY <1>4, <1>7 DEF FirstViolationNamed
  <2>3. first_violation_index + 1 <= n + 1
    <3>1. PICK k : k = first_violation_index + 1
      OBVIOUS
    <3>2. k \in 1 .. n
      BY <2>2, <3>1, <1>1
    <3>3. k <= n + 1
      BY <3>2, <1>1
    <3> QED BY <3>1, <3>3
  <2>4. \A j \in Violations' : first_violation_index + 1 <= j
    BY <2>2, <2>3, <1>1
  <2> QED BY <2>1, <2>2, <2>4, <1>1, <1>7 DEF FirstViolationNamed, None
<1> QED BY <1>5, <1>6, <1>7

LEMMA PushSettlesAtLock ==
    ASSUME IInv, ExactInv, NEW s \in Sample, PushSample(s)
    PROVE  DecidedAtLock'
<1> DEFINE n == Len(trace)
<1>1. /\ n \in Nat /\ Violations \subseteq 1 .. n /\ Locks \subseteq 1 .. n
      /\ Violations' = Violations \cup (IF Violated(s) THEN {n + 1} ELSE {})
      /\ Locks' = Locks \cup (IF Achieved(s) THEN {n + 1} ELSE {})
      /\ trace'[n + 1] = s /\ \A i \in 1 .. n : trace'[i] = trace[i]
  BY PushAddsLast
<1>2. /\ decision' = Decision(s) /\ armed' = armed /\ bank_feasible' = bank_feasible
      /\ first_fire_time_s' = IF decision = "HOLD_NO_LOCK" /\ Decision(s) = "FIRE"
                              THEN s.t_s ELSE first_fire_time_s
  BY DEF PushSample, Stamp, session
<1>3. \A i \in Violations \cup Locks : i \in Int /\ i <= n /\ i < n + 1
  <2>1. Violations \cup Locks \subseteq 1 .. n
    BY <1>1
  <2>2. \A i \in 1 .. n : i \in Int /\ i <= n /\ i < n + 1
    BY <1>1
  <2> QED BY <2>1, <2>2
<1> HIDE DEF n
<1>4. DecidedAtLock /\ decision \in Decisions
  BY DEF ExactInv, IInv, TypeOK
<1>5. ASSUME NEW i, FirstLock(i) PROVE FirstLock(i)'
  <2>1. i \in Locks /\ \A j \in Locks : i <= j
    BY <1>5 DEF FirstLock
  <2>2. i <= n + 1
    BY <2>1, <1>3, <1>1
  <2> QED BY <2>1, <2>2, <1>1 DEF FirstLock
<1>6. ASSUME NEW i \in Locks, SafeUpTo(i) PROVE SafeUpTo(i)'
  BY <1>1, <1>3, <1>6 DEF SafeUpTo
<1>7. CASE ~armed
  <2>1. decision = IF Violations = {} THEN "HOLD_NO_LOCK" ELSE "ABORT_UNSAFE"
    BY <1>4, <1>7 DEF DecidedAtLock
  <2>2. decision' = IF Violations' = {} THEN "HOLD_NO_LOCK" ELSE "ABORT_UNSAFE"
    BY <2>1, <1>1, <1>2, <1>7 DEF Decision
  <2> QED BY <2>2, <1>2, <1>7 DEF DecidedAtLock
<1>8. CASE armed
  <2>1. Locks' # {} => \E i \in Locks' : FirstLock(i)'
    <3>1. CASE Locks # {}
      <4>1. PICK i \in Locks : FirstLock(i)
        BY <3>1, <1>4, <1>8 DEF DecidedAtLock
      <4> QED BY <4>1, <1>1, <1>5
    <3>2. CASE Locks = {}
      BY <3>2, <1>1 DEF FirstLock
    <3> QED BY <3>1, <3>2
  <2>2. ASSUME decision' = "HOLD_NO_LOCK" PROVE Violations' = {} /\ Locks' = {}
    <3>1. decision = "HOLD_NO_LOCK" /\ ~Violated(s) /\ ~Achieved(s)
      BY <1>2, <1>8, <2>2 DEF Decision
    <3> QED BY <3>1, <1>1, <1>4, <1>8 DEF DecidedAtLock
  <2>3. ASSUME decision' = "ABORT_UNSAFE"
        PROVE  \E j \in Violations' : \A i \in Locks' : j <= i
    <3>1. CASE decision = "HOLD_NO_LOCK"
      <4>1. Violated(s) /\ Locks = {}
        BY <3>1, <1>2, <1>4, <1>8, <2>3 DEF Decision, DecidedAtLock
      <4>2. n + 1 \in Violations' /\ \A i \in Locks' : n + 1 <= i
        BY <4>1, <1>1
      <4> QED BY <4>2
    <3>2. CASE decision # "HOLD_NO_LOCK"
      <4>1. decision = "ABORT_UNSAFE"
        BY <3>2, <1>2, <2>3 DEF Decision
      <4>2. PICK j \in Violations : \A i \in Locks : j <= i
        BY <4>1, <1>4, <1>8 DEF DecidedAtLock
      <4>3. j <= n + 1
        BY <1>3, <1>1
      <4>4. j \in Violations' /\ \A i \in Locks' : j <= i
        BY <4>2, <4>3, <1>1
      <4> QED BY <4>4
    <3> QED BY <3>1, <3>2
  <2>4. ASSUME decision = "HOLD_NO_LOCK", ~Violated(s), Achieved(s)
        PROVE  \E k \in Locks' : k = n + 1 /\ FirstLock(k)' /\ SafeUpTo(k)'
    <3>1. Violations' = {} /\ Locks' = {n + 1}
      BY <2>4, <1>1, <1>4, <1>8 DEF DecidedAtLock
    <3>2. PICK k : k = n + 1
      OBVIOUS
    <3>3. k \in Locks' /\ FirstLock(k)' /\ SafeUpTo(k)'
      BY <3>1, <3>2, <1>1 DEF FirstLock, SafeUpTo
    <3> QED BY <3>2, <3>3
  <2>5. ASSUME decision' = "FIRE"
        PROVE  \E i \in Locks' : /\ FirstLock(i)' /\ SafeUpTo(i)' /\ bank_feasible'
                                 /\ first_fire_time_s' = trace'[i].t_s
    <3>1. CASE decision = "FIRE"
      <4>1. PICK i \in Locks : /\ FirstLock(i) /\ SafeUpTo(i) /\ bank_feasible
                               /\ first_fire_time_s = trace[i].t_s
        BY <3>1, <1>4, <1>8 DEF DecidedAtLock
      <4>2. first_fire_time_s' = first_fire_time_s /\ trace'[i] = trace[i]
        BY <3>1, <1>1, <1>2
      <4>3. FirstLock(i)' /\ SafeUpTo(i)' /\ i \in Locks'
        BY <4>1, <1>1, <1>5, <1>6
      <4> QED BY <4>1, <4>2, <4>3, <1>2
    <3>2. CASE decision # "FIRE"
      <4>1. /\ decision = "HOLD_NO_LOCK" /\ ~Violated(s) /\ Achieved(s)
            /\ bank_feasible /\ Decision(s) = "FIRE"
        BY <3>2, <1>2, <2>5 DEF Decision
      <4>2. first_fire_time_s' = s.t_s
        BY <4>1, <1>2
      <4> QED BY <4>1, <4>2, <2>4, <1>1, <1>2
    <3> QED BY <3>1, <3>2
  <2>6. ASSUME decision' = "ABORT_BANK_INFEASIBLE"
        PROVE  \E i \in Locks' : FirstLock(i)' /\ SafeUpTo(i)' /\ ~bank_feasible'
    <3>1. CASE decision = "ABORT_BANK_INFEASIBLE"
      <4>1. PICK i \in Locks : FirstLock(i) /\ SafeUpTo(i) /\ ~bank_feasible
        BY <3>1, <1>4, <1>8 DEF DecidedAtLock
      <4>2. FirstLock(i)' /\ SafeUpTo(i)' /\ i \in Locks'
        BY <4>1, <1>1, <1>5, <1>6
      <4> QED BY <4>1, <4>2, <1>2
    <3>2. CASE decision # "ABORT_BANK_INFEASIBLE"
      <4>1. decision = "HOLD_NO_LOCK" /\ ~Violated(s) /\ Achieved(s) /\ ~bank_feasible
        BY <3>2, <1>2, <2>6 DEF Decision
      <4> QED BY <4>1, <2>4, <1>2
    <3> QED BY <3>1, <3>2
  <2> QED BY <1>2, <1>8, <2>1, <2>2, <2>3, <2>5, <2>6 DEF DecidedAtLock
<1> QED BY <1>7, <1>8

LEMMA ExactStep == IInv /\ ExactInv /\ [Next]_vars => ExactInv'
<1> SUFFICES ASSUME IInv, ExactInv, [Next]_vars PROVE ExactInv'
  OBVIOUS
<1>1. CASE push
  <2>1. PICK s \in Sample : PushSample(s)
    BY <1>1 DEF push
  <2> QED BY <2>1, PushNamesFirstViolation, PushSettlesAtLock DEF ExactInv
<1>2. CASE reset
  <2>1. Violations' = {} /\ Locks' = {}
    BY <1>2 DEF reset, Violations, Locks
  <2> QED BY <2>1, <1>2 DEF reset, ExactInv, FirstViolationNamed, DecidedAtLock
<1>3. CASE UNCHANGED vars
  BY <1>3 DEF vars, session, window, engine, ExactInv, FirstViolationNamed,
     DecidedAtLock, FirstLock, SafeUpTo, Violations, Locks
<1> QED BY <1>1, <1>2, <1>3 DEF Next

LEMMA ExactInvariance == Spec => []ExactInv
<1>1. Init => ExactInv
  <2> SUFFICES ASSUME Init PROVE ExactInv
    OBVIOUS
  <2>1. Violations = {} /\ Locks = {}
    BY DEF Init, Violations, Locks
  <2> QED BY <2>1 DEF Init, ExactInv, FirstViolationNamed, DecidedAtLock
<1> QED BY <1>1, ExactStep, Invariance, PTL DEF Spec

(* An approach cut after its first n samples reads the same up to there.   *)
LEMMA CutReadsTheSame ==
    ASSUME trace \in Seq(Sample), NEW n \in 0 .. Len(trace)
    PROVE  /\ DOMAIN SubSeq(trace, 1, n) = 1 .. n
           /\ \A i \in 1 .. n :
                  /\ Violation(SubSeq(trace, 1, n), i) <=> Violation(trace, i)
                  /\ LockAt(SubSeq(trace, 1, n), i) <=> LockAt(trace, i)
<1> DEFINE cut == SubSeq(trace, 1, n)
<1>1. Len(trace) \in Nat /\ n \in Nat /\ n <= Len(trace)
  OBVIOUS
<1>2. Len(cut) = n /\ DOMAIN cut = 1 .. n /\ \A i \in 1 .. n : cut[i] = trace[i]
  BY <1>1
<1> HIDE DEF cut
<1>3. ASSUME NEW i \in 1 .. n PROVE Violation(cut, i) <=> Violation(trace, i)
  <2>1. CASE i = 1
    BY <2>1, <1>2 DEF Violation
  <2>2. CASE i # 1
    <3>1. i - 1 \in 1 .. n
      BY <2>2, <1>1
    <3> QED BY <2>2, <3>1, <1>2 DEF Violation
  <2> QED BY <2>1, <2>2
<1>4. ASSUME NEW i \in 1 .. n PROVE LockAt(cut, i) <=> LockAt(trace, i)
  <2>1. \A j \in i - consecutive_samples + 1 .. i :
            i >= consecutive_samples => j \in 1 .. n
    BY <1>1, TriggerAssumption
  <2> QED BY <2>1, <1>2 DEF LockAt
<1> QED BY <1>2, <1>3, <1>4 DEF cut

(* Where the approach is cut: at its first lock, or not at all.            *)
LEMMA CutIsFirstLock ==
    ASSUME trace \in Seq(Sample), Locks # {} => \E i \in Locks : FirstLock(i)
    PROVE  /\ ToFirstLock \in 0 .. Len(trace)
           /\ \A i \in Locks : ToFirstLock <= i
           /\ ToFirstLock \in Locks \/ ToFirstLock = Len(trace)
<1>1. Len(trace) \in Nat /\ Locks \subseteq 1 .. Len(trace)
  BY DEF Locks
<1>2. \E n \in 0 .. Len(trace) : /\ \A i \in Locks : n <= i
                                 /\ n \in Locks \/ n = Len(trace)
  <2>1. CASE Locks = {}
    BY <2>1, <1>1
  <2>2. CASE Locks # {}
    <3>1. PICK i \in Locks : \A j \in Locks : i <= j
      BY <2>2 DEF FirstLock
    <3> QED BY <3>1, <1>1
  <2> QED BY <2>1, <2>2
<1> QED BY <1>2 DEF ToFirstLock

(* The causal decision and the observables reported with it are those of   *)
(* the approach cut at its first lock, whatever was pushed after it; an    *)
(* unarmed lane holds until the envelope is broken.                        *)
THEOREM DecidesCausally == Spec => []DecisionIsExact
<1>1. ASSUME IInv, ExactInv PROVE ObservablesNameFirsts
  <2>1. Violations \subseteq Int /\ Locks \subseteq Int
    <3>1. trace \in Seq(Sample)
      BY <1>1 DEF IInv, TypeOK
    <3> QED BY <3>1 DEF Violations, Locks
  <2>2. first_violation_index =
          IF Violations = {} THEN None
          ELSE (CHOOSE i \in Violations : \A j \in Violations : i <= j) - 1
    <3>1. first_violation_index \in Int
      BY <1>1 DEF IInv, TypeOK, None, sample_index
    <3>2. CASE Violations = {}
      BY <3>2, <1>1 DEF ExactInv, FirstViolationNamed, None
    <3>3. CASE Violations # {}
      <4>1. PICK k : k = first_violation_index + 1
        OBVIOUS
      <4>2. k \in Violations /\ \A j \in Violations : k <= j
        BY <3>3, <4>1, <1>1 DEF ExactInv, FirstViolationNamed
      <4>3. (CHOOSE i \in Violations : \A j \in Violations : i <= j) = k
        BY <4>2, <2>1, LeastIsUnique
      <4>4. first_violation_index = k - 1
        BY <3>1, <4>1
      <4> DEFINE least == CHOOSE i \in Violations : \A j \in Violations : i <= j
      <4>5. least = k
        BY <4>3
      <4> HIDE DEF least
      <4>6. first_violation_index = IF Violations = {} THEN None ELSE least - 1
        BY <3>3, <4>4, <4>5
      <4> QED BY <4>6 DEF least
    <3> QED BY <3>2, <3>3
  <2>3. ASSUME decision = "FIRE"
        PROVE  first_fire_time_s =
                   trace[CHOOSE i \in Locks : \A j \in Locks : i <= j].t_s
    <3>1. PICK k \in Locks : FirstLock(k) /\ first_fire_time_s = trace[k].t_s
      <4>1. armed
        BY <1>1, <2>3 DEF ExactInv, DecidedAtLock
      <4> QED BY <4>1, <1>1, <2>3 DEF ExactInv, DecidedAtLock
    <3>2. (CHOOSE i \in Locks : \A j \in Locks : i <= j) = k
      BY <3>1, <2>1, LeastIsUnique DEF FirstLock
    <3> QED BY <3>1, <3>2
  <2> QED BY <2>2, <2>3 DEF ObservablesNameFirsts
<1>2. ASSUME IInv, ExactInv PROVE DecidesAtFirstLock
  <2>1. trace \in Seq(Sample) /\ decision \in Decisions
    BY <1>2 DEF IInv, TypeOK
  <2>2. CASE ~armed
    <3>1. passed(trace) <=> Violations = {}
      BY DEF passed, Violations
    <3> QED BY <3>1, <2>2, <1>2 DEF ExactInv, DecidedAtLock, DecidesAtFirstLock
  <2>3. CASE armed
    <3>1. PICK n : n = ToFirstLock
      OBVIOUS
    <3>2. /\ n \in 0 .. Len(trace) /\ \A i \in Locks : n <= i
          /\ n \in Locks \/ n = Len(trace)
      BY <3>1, <2>1, <2>3, <1>2, CutIsFirstLock DEF ExactInv, DecidedAtLock
    <3>2a. Len(trace) \in Nat /\ n \in Nat /\ n <= Len(trace)
      <4>1. Len(trace) \in Nat /\ n \in 0 .. Len(trace)
        BY <2>1, <3>2
      <4> QED BY <4>1
    <3>3. PICK cut : cut = SubSeq(trace, 1, n)
      OBVIOUS
    <3>4. /\ Len(trace) \in Nat /\ DOMAIN trace = 1 .. Len(trace)
          /\ Violations \subseteq 1 .. Len(trace) /\ Locks \subseteq 1 .. Len(trace)
      BY <2>1 DEF Violations, Locks
    <3>5. /\ passed(cut) <=> \A i \in 1 .. n : i \notin Violations
          /\ lock_achieved(cut) <=> \E i \in 1 .. n : i \in Locks
      <4>1. \A i \in 1 .. n : i \in DOMAIN trace
        <5>1. n \in Nat /\ Len(trace) \in Nat /\ n <= Len(trace)
          BY <3>2a, <3>4
        <5>2. 1 .. n \subseteq 1 .. Len(trace)
          BY <5>1
        <5> QED BY <5>2, <3>4
      <4>2. /\ DOMAIN cut = 1 .. n
            /\ \A i \in 1 .. n : (Violation(cut, i) <=> Violation(trace, i))
                                 /\ (LockAt(cut, i) <=> LockAt(trace, i))
        BY <2>1, <3>2, <3>3, CutReadsTheSame
      <4> QED BY <4>1, <4>2 DEF passed, lock_achieved, Violations, Locks
    <3>6. SUFFICES decision = decide(cut, bank_feasible)
      BY <2>3, <3>1, <3>3 DEF DecidesAtFirstLock
    <3>7. DecidedAtLock
      BY <1>2 DEF ExactInv
    <3>8. CASE decision = "HOLD_NO_LOCK"
      BY <3>5, <3>7, <3>8, <2>3 DEF DecidedAtLock, decide
    <3>9. CASE decision = "ABORT_UNSAFE"
      <4>1. PICK j \in Violations : \A i \in Locks : j <= i
        BY <3>7, <3>9, <2>3 DEF DecidedAtLock
      <4>2. j \in 1 .. n
        <5>1. j \in 1 .. Len(trace) /\ n \in Nat
          BY <3>2a, <3>4
        <5>2. j <= n
          BY <5>1, <4>1, <3>2
        <5> QED BY <5>1, <5>2
      <4> QED BY <4>2, <3>5, <3>9 DEF decide
    <3>10. ASSUME NEW i \in Locks, FirstLock(i), SafeUpTo(i)
           PROVE  passed(cut) /\ lock_achieved(cut)
      <4>1. i \in 1 .. Len(trace) /\ n <= i /\ \A j \in Locks : i <= j
        BY <3>2, <3>4, <3>10 DEF FirstLock
      <4>2. n = i
        <5>1. n \in Nat /\ i \in Nat /\ n <= i /\ i <= Len(trace)
          BY <4>1, <3>2a, <3>4
        <5>2. i <= n
          BY <5>1, <4>1, <3>2
        <5> QED BY <5>1, <5>2
      <4>3. i \in 1 .. n
        BY <4>1, <4>2
      <4>4. \A j \in 1 .. n : j \notin Violations
        BY <4>2, <3>2, <3>10 DEF SafeUpTo
      <4> QED BY <4>3, <4>4, <3>5
    <3>11. CASE decision = "FIRE"
      <4>1. bank_feasible /\ \E i \in Locks : FirstLock(i) /\ SafeUpTo(i)
        BY <3>7, <3>11, <2>3 DEF DecidedAtLock
      <4> QED BY <4>1, <3>10, <3>11 DEF decide
    <3>12. CASE decision = "ABORT_BANK_INFEASIBLE"
      <4>1. ~bank_feasible /\ \E i \in Locks : FirstLock(i) /\ SafeUpTo(i)
        BY <3>7, <3>12, <2>3 DEF DecidedAtLock
      <4> QED BY <4>1, <3>10, <3>12 DEF decide
    <3> QED BY <2>1, <3>8, <3>9, <3>11, <3>12 DEF Decisions
  <2> QED BY <2>2, <2>3
<1>3. IInv /\ ExactInv /\ AgreesWithBatch => DecisionIsExact
  BY <1>1, <1>2 DEF DecisionIsExact
<1> QED BY <1>3, Invariance, ExactInvariance, Agreement, PTL

(***************************************************************************)
(* The stress campaign.  What a quantiser has been given is its Total: the *)
(* thresholds it has counted and the rest it holds.  It counts at most one *)
(* spike a sample and may fall behind its charge, so Totals alone do not   *)
(* tell the evidence of two quantisers apart: Exceeds says how far one may *)
(* be ahead of another, in charge and in spikes, when its samples may be   *)
(* larger by N in all and Z of them may count where the other's do not.    *)
(***************************************************************************)
Quantisers == [accumulator : Nat, spike_count : Nat]

Total(q) == RATE_THRESHOLD * q.spike_count + q.accumulator

Exceeds(x, y, N, Z) ==
    /\ Total(x) <= Total(y) + N
    /\ RATE_THRESHOLD * (x.spike_count - y.spike_count - Z - 1) < N

StressTypeOK ==
    /\ frame_index \in Nat /\ dt_ns \in Nat
    /\ degraded \in Quantisers /\ undropped \in Quantisers
    /\ clean \in Quantisers /\ hardware \in Quantisers
    /\ noise_charge \in Nat /\ woken \in Nat /\ carry \in Nat
    /\ emitted_t_ns \in Seq(Int) /\ Len(emitted_t_ns) <= 2

(* The last frame left within a jitter of its slot.                        *)
LastSlot == Stress!base_t_ns + frame_index * dt_ns - dt_ns

LastIsNearItsSlot ==
    emitted_t_ns # <<>> =>
        LET last == emitted_t_ns[Len(emitted_t_ns)]
        IN  LastSlot - MAX_JITTER <= last /\ last <= LastSlot + MAX_JITTER

EvidenceInv ==
    /\ Exceeds(degraded, undropped, 0, 0)
    /\ Exceeds(degraded, clean, noise_charge, woken)
    /\ Exceeds(degraded, hardware, 0, 0)
    /\ Exceeds(hardware, degraded, carry, 0)

StressInv ==
    StressTypeOK /\ LastIsNearItsSlot /\ Stress!FramesStayOrdered /\ EvidenceInv

StressFacts ==
    /\ MIN_JITTER \in Nat /\ MAX_JITTER \in Nat
    /\ WINDOW \in Nat \ {0} /\ RATE_THRESHOLD \in Nat \ {0} /\ ADC_MAX \in Nat
    /\ Spacings \subseteq Nat /\ SPIKE_COUNT_MAX \in Nat

LEMMA StressConstants ==
    /\ StressFacts
    /\ \A noise_step \in NoiseSteps : noise_step \in Int
    /\ \A code \in Codes : code \in -ADC_MAX - 1 .. ADC_MAX
BY CampaignParameters DEF Stress!StressAssumption, StressFacts

(* Noise adds at most itself to a sample, and clamping adds nothing.       *)
LEMMA NoisyMagnitude ==
    ASSUME NEW code \in -ADC_MAX - 1 .. ADC_MAX, NEW noise_step \in Int
    PROVE  /\ Stress!Clamped(code + noise_step) \in Int /\ code \in Int
           /\ Stress!Magnitude(code) \in Nat /\ Stress!Magnitude(noise_step) \in Nat
           /\ Stress!Magnitude(Stress!Clamped(code + noise_step))
                  <= Stress!Magnitude(code) + Stress!Magnitude(noise_step)
BY StressConstants DEF StressFacts, Stress!Clamped, Stress!Magnitude

(* A quantiser takes exactly a sample's magnitude and counts one spike or  *)
(* none: none for silence, and none for another sample only while it holds *)
(* less than a threshold.                                                  *)
LEMMA QuantiseAdds ==
    ASSUME NEW q \in Quantisers, NEW code \in Int, NEW r, r = Stress!Quantise(q, code)
    PROVE  /\ r \in Quantisers /\ Stress!Magnitude(code) \in Nat
           /\ Total(q) \in Nat /\ Total(r) \in Nat
           /\ Total(r) = Total(q) + Stress!Magnitude(code)
           /\ \/ r.spike_count = q.spike_count + 1 /\ code # 0
              \/ r.spike_count = q.spike_count /\ (code # 0 => r.accumulator < RATE_THRESHOLD)
<1> DEFINE m == Stress!Magnitude(code)
           charge == q.accumulator + m
           spike == charge >= RATE_THRESHOLD /\ code # 0
<1>1. RATE_THRESHOLD \in Nat /\ RATE_THRESHOLD > 0
  BY StressConstants DEF StressFacts
<1>2. q.accumulator \in Nat /\ q.spike_count \in Nat
  BY DEF Quantisers
<1>3. m \in Nat
  BY DEF Stress!Magnitude
<1>4. r = [accumulator |-> IF spike THEN charge - RATE_THRESHOLD ELSE charge,
           spike_count |-> IF spike THEN q.spike_count + 1 ELSE q.spike_count]
  BY DEF Stress!Quantise
<1>5. RATE_THRESHOLD * (q.spike_count + 1) =
          RATE_THRESHOLD * q.spike_count + RATE_THRESHOLD
      /\ RATE_THRESHOLD * q.spike_count \in Nat
  BY <1>1, <1>2
<1>6. Total(q) = RATE_THRESHOLD * q.spike_count + q.accumulator
  BY DEF Total
<1> HIDE DEF m
<1>7. CASE spike
  <2>1. r.accumulator = charge - RATE_THRESHOLD /\ r.spike_count = q.spike_count + 1
    BY <1>4, <1>7
  <2>2. charge - RATE_THRESHOLD \in Nat
    BY <1>1, <1>2, <1>3, <1>7
  <2>3. r \in Quantisers
    BY <1>2, <1>4, <1>7, <2>2 DEF Quantisers
  <2>4. Total(r) = RATE_THRESHOLD * (q.spike_count + 1) + (charge - RATE_THRESHOLD)
    BY <2>1 DEF Total
  <2>5. Total(r) = Total(q) + m
    BY <2>4, <1>1, <1>2, <1>3, <1>5, <1>6
  <2> QED BY <2>1, <2>3, <2>5, <1>2, <1>3, <1>5, <1>6, <1>7 DEF m
<1>8. CASE ~spike
  <2>1. r.accumulator = charge /\ r.spike_count = q.spike_count
    BY <1>4, <1>8
  <2>2. charge \in Nat
    BY <1>2, <1>3
  <2>3. r \in Quantisers
    BY <1>2, <1>4, <1>8, <2>2 DEF Quantisers
  <2>4. Total(r) = RATE_THRESHOLD * q.spike_count + charge
    BY <2>1 DEF Total
  <2>5. Total(r) = Total(q) + m
    BY <2>4, <1>2, <1>3, <1>5, <1>6
  <2>6. code # 0 => r.accumulator < RATE_THRESHOLD
    BY <2>1, <2>2, <1>1, <1>8
  <2> QED BY <2>1, <2>3, <2>5, <2>6, <1>2, <1>3, <1>5, <1>6 DEF m
<1> QED BY <1>7, <1>8

LEMMA TimesKeepsOrder ==
    ASSUME NEW a \in Int, NEW b \in Int, a <= b
    PROVE  RATE_THRESHOLD * a \in Int /\ RATE_THRESHOLD * b \in Int
           /\ RATE_THRESHOLD * a <= RATE_THRESHOLD * b
<1>1. RATE_THRESHOLD \in Nat
  BY StressConstants DEF StressFacts
<1>2. RATE_THRESHOLD * a \in Int /\ RATE_THRESHOLD * b \in Int
      /\ RATE_THRESHOLD * (b - a) = RATE_THRESHOLD * b - RATE_THRESHOLD * a
  BY <1>1
<1>3. RATE_THRESHOLD * (b - a) >= 0
  BY <1>1
<1> QED BY <1>2, <1>3

(* One sample for both: what x's may be larger is added to the bound.      *)
LEMMA SampleKeepsExceeds ==
    ASSUME NEW x \in Quantisers, NEW y \in Quantisers, NEW N \in Nat, NEW Z \in Nat,
           Exceeds(x, y, N, Z),
           NEW cx \in Int, NEW cy \in Int, NEW e \in Nat, NEW z \in Nat,
           Stress!Magnitude(cx) <= Stress!Magnitude(cy) + e,
           cx # 0 /\ cy = 0 => z >= 1
    PROVE  Exceeds(Stress!Quantise(x, cx), Stress!Quantise(y, cy), N + e, Z + z)
<1> DEFINE u == Stress!Quantise(x, cx)
           v == Stress!Quantise(y, cy)
           T == RATE_THRESHOLD
<1>1. /\ u \in Quantisers /\ Stress!Magnitude(cx) \in Nat
      /\ Total(x) \in Nat /\ Total(u) \in Nat
      /\ Total(u) = Total(x) + Stress!Magnitude(cx)
      /\ \/ u.spike_count = x.spike_count + 1 /\ cx # 0
         \/ u.spike_count = x.spike_count /\ (cx # 0 => u.accumulator < T)
  BY QuantiseAdds
<1>2. /\ v \in Quantisers /\ Stress!Magnitude(cy) \in Nat
      /\ Total(y) \in Nat /\ Total(v) \in Nat
      /\ Total(v) = Total(y) + Stress!Magnitude(cy)
      /\ \/ v.spike_count = y.spike_count + 1 /\ cy # 0
         \/ v.spike_count = y.spike_count /\ (cy # 0 => v.accumulator < T)
  BY QuantiseAdds
<1> HIDE DEF u, v
<1>3. Total(u) <= Total(v) + (N + e)
  BY <1>1, <1>2 DEF Exceeds
<1>4. /\ x.spike_count \in Nat /\ y.spike_count \in Nat
      /\ u.spike_count \in Nat /\ v.spike_count \in Nat
      /\ u.accumulator \in Nat /\ v.accumulator \in Nat /\ T \in Nat
  BY <1>1, <1>2, StressConstants DEF Quantisers, StressFacts
<1> DEFINE before == x.spike_count - y.spike_count - Z - 1
           after == u.spike_count - v.spike_count - (Z + z) - 1
<1>5. before \in Int /\ after \in Int
  BY <1>4
<1>6. CASE after <= before
  <2>1. T * after <= T * before /\ T * after \in Int /\ T * before \in Int
    BY <1>5, <1>6, TimesKeepsOrder
  <2>2. T * before < N
    BY DEF Exceeds
  <2> QED BY <1>3, <2>1, <2>2 DEF Exceeds, u, v
<1>7. CASE after > before
  <2>1. u.spike_count = x.spike_count + 1 /\ v.spike_count = y.spike_count /\ z = 0
    BY <1>1, <1>2, <1>4, <1>7
  <2>2. cx # 0 /\ cy # 0
    BY <1>1, <1>4, <2>1
  <2>3. v.accumulator < T
    BY <1>2, <1>4, <2>1, <2>2
  <2> DEFINE a == u.spike_count
             b == v.spike_count
  <2>4. T * a + u.accumulator <= T * b + v.accumulator + (N + e)
    BY <1>3 DEF Total
  <2>5. T * a \in Int /\ T * b \in Int /\ T * (a - b - 1) = T * a - T * b - T
    BY <1>4
  <2>6. T * (a - b - 1) < N + e
    BY <1>4, <2>3, <2>4, <2>5
  <2>7. after <= a - b - 1 /\ a - b - 1 \in Int
    BY <1>4
  <2>8. T * after \in Int /\ T * (a - b - 1) \in Int /\ T * after <= T * (a - b - 1)
    BY <1>5, <2>7, TimesKeepsOrder
  <2> QED BY <1>3, <2>6, <2>8 DEF Exceeds, u, v
<1> QED BY <1>5, <1>6, <1>7

(* A sample that only y is given takes nothing from the bound.             *)
LEMMA LossKeepsExceeds ==
    ASSUME NEW x \in Quantisers, NEW y \in Quantisers, NEW N \in Nat, NEW Z \in Nat,
           Exceeds(x, y, N, Z), NEW code \in Int
    PROVE  Exceeds(x, Stress!Quantise(y, code), N, Z)
<1> DEFINE v == Stress!Quantise(y, code)
<1>1. /\ v \in Quantisers /\ Stress!Magnitude(code) \in Nat
      /\ Total(y) \in Nat /\ Total(v) = Total(y) + Stress!Magnitude(code)
      /\ v.spike_count = y.spike_count \/ v.spike_count = y.spike_count + 1
  BY QuantiseAdds
<1> HIDE DEF v
<1>2. x.spike_count \in Nat /\ y.spike_count \in Nat /\ v.spike_count \in Nat
      /\ x.accumulator \in Nat /\ RATE_THRESHOLD \in Nat
  BY <1>1, StressConstants DEF Quantisers, StressFacts
<1>3. RATE_THRESHOLD * (x.spike_count - v.spike_count - Z - 1)
          <= RATE_THRESHOLD * (x.spike_count - y.spike_count - Z - 1)
      /\ RATE_THRESHOLD * (x.spike_count - v.spike_count - Z - 1) \in Int
      /\ RATE_THRESHOLD * (x.spike_count - y.spike_count - Z - 1) \in Int
  BY <1>1, <1>2, TimesKeepsOrder
<1>4. Total(x) \in Nat
  BY <1>2 DEF Total
<1> QED BY <1>1, <1>3, <1>4 DEF Exceeds, v

(* What a window starts with.                                              *)
LEMMA FreshExceeds ==
    ASSUME NEW y \in Quantisers, y.spike_count = 0
    PROVE  /\ Stress!Fresh \in Quantisers
           /\ Exceeds(Stress!Fresh, y, 0, 0)
           /\ Exceeds(y, Stress!Fresh, y.accumulator, 0)
<1>1. RATE_THRESHOLD \in Nat /\ RATE_THRESHOLD > 0 /\ y.accumulator \in Nat
  BY StressConstants DEF Quantisers, StressFacts
<1>2. Stress!Fresh \in Quantisers /\ Stress!Fresh.spike_count = 0 /\ Stress!Fresh.accumulator = 0
  BY DEF Stress!Fresh, Quantisers
<1>3. RATE_THRESHOLD * (0 - 0 - 0 - 1) < 0 /\ RATE_THRESHOLD * 0 = 0
      /\ RATE_THRESHOLD * (0 - 0 - 0 - 1) \in Int
  BY <1>1
<1>4. Total(Stress!Fresh) = 0 /\ Total(y) = y.accumulator
  BY <1>1, <1>2, <1>3 DEF Total
<1> QED BY <1>1, <1>2, <1>3, <1>4 DEF Exceeds

LEMMA StressInitially == Stress!Init => StressInv
<1> SUFFICES ASSUME Stress!Init PROVE StressInv
  OBVIOUS
<1>1. Stress!Fresh \in Quantisers /\ Stress!Fresh.spike_count = 0 /\ Stress!Fresh.accumulator = 0
  BY DEF Stress!Fresh, Quantisers
<1>2. StressTypeOK
  <2>1. dt_ns \in Nat
    BY StressConstants DEF Stress!Init, StressFacts
  <2>2. emitted_t_ns \in Seq(Int) /\ Len(emitted_t_ns) <= 2
    BY DEF Stress!Init
  <2> QED BY <1>1, <2>1, <2>2 DEF StressTypeOK, Stress!Init
<1>3. LastIsNearItsSlot /\ Stress!FramesStayOrdered
  BY DEF Stress!Init, LastIsNearItsSlot, Stress!FramesStayOrdered
<1>4. EvidenceInv
  BY <1>1, FreshExceeds DEF EvidenceInv, Stress!Init
<1> QED BY <1>2, <1>3, <1>4 DEF StressInv

(* The next frame's time, wherever the jitter puts it, is no less than     *)
(* zero, and after the last when frames are spaced.                        *)
LEMMA FrameIsEmittedInOrder ==
    ASSUME StressInv, frame_index' = frame_index + 1, dt_ns' = dt_ns,
           NEW jitter_ns \in Stress!Jitters,
           NEW t, t = Stress!base_t_ns + frame_index * dt_ns + jitter_ns,
           emitted_t_ns' = IF emitted_t_ns = <<>> THEN <<t>>
                           ELSE <<emitted_t_ns[Len(emitted_t_ns)], t>>
    PROVE  /\ emitted_t_ns' \in Seq(Int) /\ Len(emitted_t_ns') <= 2
           /\ LastIsNearItsSlot' /\ (Stress!FramesStayOrdered)'
<1> DEFINE passed_ns == frame_index * dt_ns
           last == emitted_t_ns[Len(emitted_t_ns)]
           base == Stress!base_t_ns
<1>1. MAX_JITTER \in Nat /\ frame_index \in Nat /\ dt_ns \in Nat
      /\ base \in Nat /\ base > MAX_JITTER /\ base' = base
  BY StressConstants DEF StressInv, StressTypeOK, StressFacts, Stress!base_t_ns
<1>2. jitter_ns \in Int /\ -MAX_JITTER <= jitter_ns /\ jitter_ns <= MAX_JITTER
  BY StressConstants DEF StressFacts, Stress!Jitters
<1>3. passed_ns \in Nat /\ frame_index' * dt_ns' = passed_ns + dt_ns
  BY <1>1
<1>4. LastSlot = base + passed_ns - dt_ns
  BY DEF LastSlot
<1>5. LastSlot' = base + passed_ns
  <2>1. LastSlot' = base' + frame_index' * dt_ns' - dt_ns'
    BY DEF LastSlot
  <2> QED BY <2>1, <1>1, <1>3
<1> HIDE DEF passed_ns, base
<1>6. t \in Int /\ t >= 0 /\ base + passed_ns - MAX_JITTER <= t
      /\ t <= base + passed_ns + MAX_JITTER
  BY <1>1, <1>2, <1>3 DEF passed_ns, base
<1>7. MAX_JITTER' = MAX_JITTER
  OBVIOUS
<1>8. LastSlot' - MAX_JITTER <= t /\ t <= LastSlot' + MAX_JITTER
  BY <1>1, <1>3, <1>5, <1>6
<1>9. CASE emitted_t_ns = <<>>
  <2>1. emitted_t_ns' = <<t>>
    BY <1>9
  <2>2. Len(emitted_t_ns') = 1 /\ emitted_t_ns'[1] = t /\ DOMAIN emitted_t_ns' = {1}
        /\ emitted_t_ns' \in Seq(Int)
    BY <2>1, <1>6
  <2>3. LastIsNearItsSlot'
    BY <2>2, <1>7, <1>8 DEF LastIsNearItsSlot
  <2>4. (Stress!FramesStayOrdered)'
    BY <2>2, <1>6 DEF Stress!FramesStayOrdered
  <2> QED BY <2>2, <2>3, <2>4
<1>10. CASE emitted_t_ns # <<>>
  <2>1. emitted_t_ns' = <<last, t>>
    BY <1>10
  <2>2. Len(emitted_t_ns) \in DOMAIN emitted_t_ns /\ last \in Int
    BY <1>10 DEF StressInv, StressTypeOK
  <2>3. last >= 0
    BY <2>2 DEF StressInv, Stress!FramesStayOrdered
  <2>4. last <= base + passed_ns - dt_ns + MAX_JITTER
    BY <1>4, <1>10 DEF StressInv, LastIsNearItsSlot
  <2>5. Stress!Spaced(dt_ns) => last < t
    BY <1>1, <1>3, <1>6, <2>2, <2>4 DEF Stress!Spaced
  <2> HIDE DEF last
  <2>6. Len(emitted_t_ns') = 2 /\ emitted_t_ns'[1] = last /\ emitted_t_ns'[2] = t
        /\ DOMAIN emitted_t_ns' = {1, 2} /\ emitted_t_ns' \in Seq(Int)
    BY <2>1, <2>2, <1>6
  <2>7. LastIsNearItsSlot'
    BY <2>6, <1>7, <1>8 DEF LastIsNearItsSlot
  <2>8. (Stress!Spaced(dt_ns))' => last < t
    BY <2>5 DEF Stress!Spaced
  <2>9. (Stress!FramesStayOrdered)'
    BY <2>3, <2>6, <2>8, <1>6 DEF Stress!FramesStayOrdered
  <2> QED BY <2>6, <2>7, <2>9
<1> QED BY <1>9, <1>10

(* A window starts from zero, or goes on; either way with the bounds the   *)
(* invariant has, for the histories as they stand in that window.          *)
Base(q) == IF Stress!WindowStarts THEN Stress!Restarted(q) ELSE q
Carried == IF Stress!WindowStarts THEN [hardware EXCEPT !.spike_count = 0] ELSE hardware
SoFar(n) == IF Stress!WindowStarts THEN 0 ELSE n
CarriedIn == IF Stress!WindowStarts THEN hardware.accumulator ELSE carry

LEMMA WindowKeepsEvidence ==
    ASSUME StressInv
    PROVE  /\ Base(degraded) \in Quantisers /\ Base(undropped) \in Quantisers
           /\ Base(clean) \in Quantisers /\ Carried \in Quantisers
           /\ SoFar(noise_charge) \in Nat /\ SoFar(woken) \in Nat /\ CarriedIn \in Nat
           /\ Exceeds(Base(degraded), Base(undropped), 0, 0)
           /\ Exceeds(Base(degraded), Base(clean), SoFar(noise_charge), SoFar(woken))
           /\ Exceeds(Base(degraded), Carried, 0, 0)
           /\ Exceeds(Carried, Base(degraded), CarriedIn, 0)
<1>1. StressTypeOK /\ EvidenceInv
  BY DEF StressInv
<1>2. CASE Stress!WindowStarts
  <2>1. Base(degraded) = Stress!Fresh /\ Base(undropped) = Stress!Fresh
        /\ Base(clean) = Stress!Fresh /\ SoFar(noise_charge) = 0 /\ SoFar(woken) = 0
    BY <1>2 DEF Base, SoFar, Stress!Restarted
  <2>2. Carried = [hardware EXCEPT !.spike_count = 0] /\ CarriedIn = hardware.accumulator
    BY <1>2 DEF Carried, CarriedIn
  <2>3. Carried \in Quantisers /\ Carried.spike_count = 0 /\ Carried.accumulator = CarriedIn
        /\ CarriedIn \in Nat
    BY <1>1, <2>2 DEF StressTypeOK, Quantisers
  <2>4. Stress!Fresh \in Quantisers /\ Stress!Fresh.spike_count = 0 /\ Stress!Fresh.accumulator = 0
    BY DEF Stress!Fresh, Quantisers
  <2>5. Exceeds(Stress!Fresh, Stress!Fresh, 0, 0)
    BY <2>4, FreshExceeds
  <2>6. Exceeds(Stress!Fresh, Carried, 0, 0) /\ Exceeds(Carried, Stress!Fresh, CarriedIn, 0)
    BY <2>3, FreshExceeds
  <2> HIDE DEF Carried
  <2> QED BY <2>1, <2>3, <2>4, <2>5, <2>6
<1>3. CASE ~Stress!WindowStarts
  <2>1. Base(degraded) = degraded /\ Base(undropped) = undropped
        /\ Base(clean) = clean /\ SoFar(noise_charge) = noise_charge /\ SoFar(woken) = woken
        /\ Carried = hardware /\ CarriedIn = carry
    BY <1>3 DEF Base, SoFar, Carried, CarriedIn
  <2> QED BY <1>1, <2>1 DEF StressTypeOK, EvidenceInv
<1> QED BY <1>2, <1>3

LEMMA FrameKeepsEvidence ==
    ASSUME StressInv,
           NEW code \in Codes, NEW noise_step \in NoiseSteps,
           NEW dropped \in BOOLEAN, NEW jitter_ns \in Stress!Jitters,
           Stress!DegradeFrame(code, noise_step, dropped, jitter_ns)
    PROVE  /\ degraded' \in Quantisers /\ undropped' \in Quantisers
           /\ clean' \in Quantisers /\ hardware' \in Quantisers
           /\ noise_charge' \in Nat /\ woken' \in Nat /\ carry' \in Nat
           /\ EvidenceInv'
<1> DEFINE stressed == Stress!Clamped(code + noise_step)
           e == IF dropped THEN 0 ELSE Stress!Magnitude(noise_step)
           z == IF ~dropped /\ code = 0 /\ stressed # 0 THEN 1 ELSE 0
           d == Base(degraded)
           u == Base(undropped)
           c == Base(clean)
           h == Carried
           N == SoFar(noise_charge)
           Z == SoFar(woken)
           K == CarriedIn
<1>1. /\ degraded' = IF dropped THEN d ELSE Stress!Quantise(d, stressed)
      /\ undropped' = Stress!Quantise(u, stressed)
      /\ clean' = Stress!Quantise(c, code)
      /\ hardware' = IF dropped THEN h ELSE Stress!Quantise(h, stressed)
      /\ noise_charge' = N + e /\ woken' = Z + z /\ carry' = K
  BY DEF Stress!DegradeFrame, Stress!Evidence, Base, Carried, SoFar, CarriedIn
<1>2. /\ d \in Quantisers /\ u \in Quantisers /\ c \in Quantisers /\ h \in Quantisers
      /\ N \in Nat /\ Z \in Nat /\ K \in Nat
      /\ Exceeds(d, u, 0, 0) /\ Exceeds(d, c, N, Z)
      /\ Exceeds(d, h, 0, 0) /\ Exceeds(h, d, K, 0)
  BY WindowKeepsEvidence
<1>3. code \in -ADC_MAX - 1 .. ADC_MAX /\ noise_step \in Int
  BY StressConstants
<1>4. /\ stressed \in Int /\ code \in Int
      /\ Stress!Magnitude(code) \in Nat /\ Stress!Magnitude(noise_step) \in Nat
      /\ Stress!Magnitude(stressed) <= Stress!Magnitude(code) + Stress!Magnitude(noise_step)
  BY <1>3, NoisyMagnitude
<1>5. e \in Nat /\ z \in Nat /\ (dropped => e = 0 /\ z = 0)
      /\ (~dropped => e = Stress!Magnitude(noise_step))
      /\ (~dropped /\ stressed # 0 /\ code = 0 => z >= 1)
  BY <1>4
<1>6. Stress!Magnitude(stressed) \in Nat
  BY <1>4 DEF Stress!Magnitude
<1>7. Stress!Magnitude(stressed) <= Stress!Magnitude(stressed) + 0
  BY <1>6
<1> HIDE DEF stressed, e, z, d, u, c, h, N, Z, K
<1>8. undropped' \in Quantisers /\ clean' \in Quantisers
  BY <1>1, <1>2, <1>4, QuantiseAdds
<1>9. CASE dropped
  <2>1. degraded' = d /\ hardware' = h /\ noise_charge' = N /\ woken' = Z
    BY <1>1, <1>2, <1>5, <1>9
  <2>2. Exceeds(d, undropped', 0, 0) /\ Exceeds(d, clean', N, Z)
    BY <1>1, <1>2, <1>4, LossKeepsExceeds
  <2> QED BY <1>1, <1>2, <1>8, <2>1, <2>2 DEF EvidenceInv, Exceeds, Total
<1>10. CASE ~dropped
  <2>1. degraded' = Stress!Quantise(d, stressed) /\ hardware' = Stress!Quantise(h, stressed)
    BY <1>1, <1>10
  <2>2. degraded' \in Quantisers /\ hardware' \in Quantisers
    BY <1>2, <1>4, <2>1, QuantiseAdds
  <2>3. Exceeds(Stress!Quantise(d, stressed), Stress!Quantise(c, code), N + e, Z + z)
    BY <1>2, <1>4, <1>5, <1>10, SampleKeepsExceeds
  <2>4. Exceeds(Stress!Quantise(d, stressed), Stress!Quantise(u, stressed), 0 + 0, 0 + 0)
    BY <1>2, <1>4, <1>7, SampleKeepsExceeds
  <2>5. Exceeds(Stress!Quantise(d, stressed), Stress!Quantise(h, stressed), 0 + 0, 0 + 0)
    BY <1>2, <1>4, <1>7, SampleKeepsExceeds
  <2>6. Exceeds(Stress!Quantise(h, stressed), Stress!Quantise(d, stressed), K + 0, 0 + 0)
    BY <1>2, <1>4, <1>7, SampleKeepsExceeds
  <2>7. 0 + 0 = 0 /\ K + 0 = K
    BY <1>2
  <2>8. /\ Exceeds(degraded', clean', noise_charge', woken')
        /\ Exceeds(degraded', undropped', 0, 0)
        /\ Exceeds(degraded', hardware', 0, 0)
        /\ Exceeds(hardware', degraded', carry', 0)
    BY <1>1, <2>1, <2>3, <2>4, <2>5, <2>6, <2>7
  <2> QED BY <1>1, <1>2, <1>5, <1>8, <2>2, <2>8 DEF EvidenceInv, Exceeds, Total
<1> QED BY <1>9, <1>10

LEMMA StressStepKeeps == StressInv /\ [Stress!Next]_stressVars => StressInv'
<1> SUFFICES ASSUME StressInv, [Stress!Next]_stressVars PROVE StressInv'
  OBVIOUS
<1>1. CASE Stress!Next
  <2> USE <1>1
  <2>1. frame_index' = frame_index + 1 /\ dt_ns' = dt_ns
    BY DEF Stress!Next, Stress!apply
  <2>2. PICK code \in Codes, noise_step \in NoiseSteps, dropped \in BOOLEAN,
             jitter_ns \in Stress!Jitters :
                Stress!DegradeFrame(code, noise_step, dropped, jitter_ns)
    BY DEF Stress!Next, Stress!apply
  <2>3. /\ emitted_t_ns' \in Seq(Int) /\ Len(emitted_t_ns') <= 2
        /\ LastIsNearItsSlot' /\ (Stress!FramesStayOrdered)'
    BY <2>1, <2>2, FrameIsEmittedInOrder DEF Stress!DegradeFrame
  <2>4. /\ degraded' \in Quantisers /\ undropped' \in Quantisers
        /\ clean' \in Quantisers /\ hardware' \in Quantisers
        /\ noise_charge' \in Nat /\ woken' \in Nat /\ carry' \in Nat
        /\ EvidenceInv'
    BY <2>2, FrameKeepsEvidence
  <2>5. frame_index' \in Nat /\ dt_ns' \in Nat
    BY <2>1 DEF StressInv, StressTypeOK
  <2> QED BY <2>3, <2>4, <2>5 DEF StressInv, StressTypeOK
<1>2. CASE UNCHANGED stressVars
  BY <1>2 DEF stressVars, StressInv, StressTypeOK, LastIsNearItsSlot, LastSlot, EvidenceInv,
              Exceeds, Total, Stress!FramesStayOrdered, Stress!Spaced, Stress!base_t_ns
<1> QED BY <1>1, <1>2

(* What the counts may differ by, the reported ones may.                   *)
LEMMA ReportedExceeds ==
    ASSUME NEW x \in Quantisers, NEW y \in Quantisers, NEW N \in Nat, NEW Z \in Nat,
           Exceeds(x, y, N, Z)
    PROVE  /\ RATE_THRESHOLD * (Stress!Reported(x) - Stress!Reported(y) - Z - 1) < N
           /\ N = 0 /\ Z = 0 => Stress!Reported(x) <= Stress!Reported(y)
<1> DEFINE T == RATE_THRESHOLD
           given == x.spike_count - y.spike_count - Z - 1
           shown == Stress!Reported(x) - Stress!Reported(y) - Z - 1
<1>1. /\ x.spike_count \in Nat /\ y.spike_count \in Nat /\ T \in Nat /\ T > 0
      /\ SPIKE_COUNT_MAX \in Nat
  BY StressConstants DEF Quantisers, StressFacts
<1>2. Stress!Reported(x) \in Nat /\ Stress!Reported(y) \in Nat
  BY <1>1 DEF Stress!Reported
<1>3. given \in Int /\ shown \in Int /\ T * given < N
  BY <1>1, <1>2 DEF Exceeds
<1>4. shown <= given \/ shown <= -1
  BY <1>1, <1>2 DEF Stress!Reported
<1> HIDE DEF given, shown
<1>5. T * (-1) < 0 /\ T * (-1) \in Int
  BY <1>1
<1>6. T * shown < N
  <2>1. CASE shown <= given
    <3>1. T * shown <= T * given /\ T * shown \in Int /\ T * given \in Int
      BY <2>1, <1>3, TimesKeepsOrder
    <3> QED BY <3>1, <1>3
  <2>2. CASE shown <= -1
    <3>1. T * shown <= T * (-1) /\ T * shown \in Int
      BY <2>2, <1>3, TimesKeepsOrder
    <3> QED BY <3>1, <1>5
  <2> QED BY <2>1, <2>2, <1>4
<1>7. ASSUME N = 0, Z = 0, Stress!Reported(x) > Stress!Reported(y) PROVE FALSE
  <2>1. shown >= 0
    BY <1>2, <1>7 DEF shown
  <2>2. T * 0 <= T * shown /\ T * shown \in Int /\ T * 0 = 0
    BY <2>1, <1>1, <1>3, TimesKeepsOrder
  <2> QED BY <2>2, <1>6, <1>7
<1> QED BY <1>2, <1>6, <1>7 DEF shown

LEMMA EvidenceIsBounded == StressInv => Stress!FaultsAreBounded
<1> SUFFICES ASSUME StressInv PROVE Stress!FaultsAreBounded
  OBVIOUS
<1>1. StressTypeOK /\ EvidenceInv /\ Stress!FramesStayOrdered
  BY DEF StressInv
<1>2. /\ degraded \in Quantisers /\ undropped \in Quantisers
      /\ clean \in Quantisers /\ hardware \in Quantisers
      /\ noise_charge \in Nat /\ woken \in Nat /\ carry \in Nat
  BY <1>1 DEF StressTypeOK
<1>3. Stress!LossAddsNothing
  BY <1>1, <1>2, ReportedExceeds DEF EvidenceInv, Stress!LossAddsNothing
<1>4. Stress!NoiseIsPaidFor
  BY <1>1, <1>2, ReportedExceeds DEF EvidenceInv, Stress!NoiseIsPaidFor
<1>5. Stress!RestartCostsCarry
  <2>1. Stress!Reported(degraded) <= Stress!Reported(hardware)
    BY <1>1, <1>2, ReportedExceeds DEF EvidenceInv
  <2>2. RATE_THRESHOLD * (Stress!Reported(hardware) - Stress!Reported(degraded) - 0 - 1) < carry
    BY <1>1, <1>2, ReportedExceeds DEF EvidenceInv
  <2>3. Stress!Reported(hardware) \in Int /\ Stress!Reported(degraded) \in Int
    BY <1>2, StressConstants DEF Stress!Reported, Quantisers, StressFacts
  <2>4. Stress!Reported(hardware) - Stress!Reported(degraded) - 0 - 1
            = Stress!Reported(hardware) - Stress!Reported(degraded) - 1
    BY <2>3
  <2> QED BY <2>1, <2>2, <2>4 DEF Stress!RestartCostsCarry
<1> QED BY <1>1, <1>3, <1>4, <1>5 DEF Stress!FaultsAreBounded

(* Whatever the generator draws: no time below zero, and spaced frames in  *)
(* order; dropped samples never add to the spikes reported of a window,    *)
(* noise adds at most what its charge pays for and one for every silent    *)
(* sample it wakes, and the restart of a window costs what was carried     *)
(* into it.  For every threshold, ADC range, window, noise, spacing and    *)
(* counter width.                                                          *)
THEOREM FaultsBounded == TriggerSpec => []FaultsAreBounded
<1>1. TriggerInit => StressInv
  BY StressInitially DEF TriggerInit
<1>2. StressInv /\ [TriggerNext]_triggerVars => StressInv'
  BY StressStepKeeps DEF TriggerNext, triggerVars, stressVars
<1>3. StressInv => FaultsAreBounded
  BY EvidenceIsBounded DEF FaultsAreBounded
<1> QED BY <1>1, <1>2, <1>3, PTL DEF TriggerSpec

(***************************************************************************)
(* The plan made of a nominal approach.  First and Widest choose from a    *)
(* set of positions; that they find something is an induction over the     *)
(* positions, for which the least natural number outside a set serves.     *)
(***************************************************************************)
LEMMA LeastNatural ==
    ASSUME NEW S \in SUBSET Nat, S # {}
    PROVE  \E n \in S : \A m \in S : ~ (m < n)
<1> DEFINE Less == OpToRel(<, Nat)
<1>1. IsWellFoundedOn(Less, Nat)
    BY NatLessThanWellFounded
<1>2. \A m, n \in Nat : <<m, n>> \in Less <=> m < n
    BY DEF OpToRel
<1> HIDE DEF Less
<1>3. \E n \in S : \A m \in S : ~ (<<m, n>> \in Less)
    BY <1>1, WFMin
<1> QED
    BY <1>2, <1>3

LEMMA NaturalSet ==
    ASSUME NEW S, 0 \in S, \A n \in Nat : n \in S => n + 1 \in S
    PROVE  \A n \in Nat : n \in S
<1> DEFINE Rest == {n \in Nat : n \notin S}
<1> SUFFICES ASSUME Rest # {} PROVE FALSE
    OBVIOUS
<1>1. PICK n \in Rest : \A m \in Rest : ~ (m < n)
    BY LeastNatural
<1>2. n # 0 /\ n - 1 \in Nat /\ n - 1 < n
    BY <1>1
<1>3. n - 1 \in S
    BY <1>1, <1>2
<1> QED
    BY <1>1, <1>2, <1>3

LEMMA FirstIsFirst ==
    ASSUME NEW S \in SUBSET Nat, S # {}
    PROVE  Forecast!First(S) \in S /\ \A j \in S : Forecast!First(S) <= j
<1>1. PICK n \in S : \A m \in S : ~ (m < n)
    BY LeastNatural
<1>2. \A m \in S : n <= m
    BY <1>1
<1> QED
    BY <1>2 DEF Forecast!First

LEMMA SomeIsWidest ==
    ASSUME NEW f, NEW n \in Nat, \A k \in 1 .. n : f[k] \in Int,
           NEW S \in SUBSET (1 .. n), S # {}
    PROVE  \E m \in S : \A k \in S : f[k] <= f[m]
<1> DEFINE T == {k \in Nat : k <= n =>
                    \A s \in SUBSET (1 .. k) : s # {} =>
                        \E m \in s : \A l \in s : f[l] <= f[m]}
<1>1. 0 \in T
    <2>1. \A s \in SUBSET (1 .. 0) : s = {}
        OBVIOUS
    <2> QED
        BY <2>1
<1>2. ASSUME NEW k \in Nat, k \in T PROVE k + 1 \in T
    <2> SUFFICES ASSUME k + 1 <= n, NEW s \in SUBSET (1 .. k + 1), s # {}
                 PROVE  \E m \in s : \A l \in s : f[l] <= f[m]
        OBVIOUS
    <2>1. \A r \in SUBSET (1 .. k) : r # {} => \E m \in r : \A l \in r : f[l] <= f[m]
        BY <1>2
    <2>2. \A l \in s : f[l] \in Int
        OBVIOUS
    <2>3. CASE k + 1 \notin s
        BY <2>1, <2>3
    <2>4. CASE s = {k + 1}
        BY <2>2, <2>4
    <2>5. CASE k + 1 \in s /\ s # {k + 1}
        <3>1. s \ {k + 1} \in SUBSET (1 .. k) /\ s \ {k + 1} # {}
            BY <2>5
        <3>2. PICK m \in s \ {k + 1} : \A l \in s \ {k + 1} : f[l] <= f[m]
            BY <2>1, <3>1
        <3>3. f[m] \in Int /\ f[k + 1] \in Int /\ m \in s /\ k + 1 \in s
            BY <2>2, <2>5
        <3>4. CASE f[k + 1] <= f[m]
            <4>1. \A l \in s : f[l] <= f[m]
                BY <3>2, <3>4
            <4> QED
                BY <3>3, <4>1
        <3>5. CASE f[m] <= f[k + 1]
            <4>1. \A l \in s : f[l] <= f[k + 1]
                BY <2>2, <3>2, <3>3, <3>5
            <4> QED
                BY <3>3, <4>1
        <3> QED
            BY <3>3, <3>4, <3>5
    <2> QED
        BY <2>3, <2>4, <2>5
<1> HIDE DEF T
<1>3. n \in T
    BY <1>1, <1>2, NaturalSet
<1> QED
    BY <1>3 DEF T

Nominals == [phase : Forecast!Slacks, reference : Forecast!Slacks, separation : Forecast!Slacks]

NominalTypeOK == nominal \in Seq(Nominals)

LEMMA SlacksAreNumbers == \A z \in Forecast!Slacks : z \in Int
    BY ForecastParameters DEF Forecast!ForecastAssumption, Forecast!Slacks

LEMMA NominalInitially == Forecast!ForecastInit => NominalTypeOK
<1>1. <<>> \in Seq(Nominals)
    OBVIOUS
<1> QED
    BY <1>1 DEF Forecast!ForecastInit, NominalTypeOK

LEMMA NominalStep == NominalTypeOK /\ [TriggerNext]_triggerVars => NominalTypeOK'
<1>1. ASSUME NominalTypeOK, Forecast!propagate PROVE NominalTypeOK'
    <2>1. PICK phase \in Forecast!Slacks, reference \in Forecast!Slacks,
               separation \in Forecast!Slacks :
             nominal' = Append(nominal, [phase |-> phase, reference |-> reference,
                                         separation |-> separation])
        BY <1>1 DEF Forecast!propagate, Forecast!Recursion
    <2>2. [phase |-> phase, reference |-> reference, separation |-> separation] \in Nominals
        BY DEF Nominals
    <2> QED
        BY <1>1, <2>1, <2>2 DEF NominalTypeOK
<1>2. NominalTypeOK /\ UNCHANGED forecastVars => NominalTypeOK'
    BY DEF NominalTypeOK, forecastVars
<1> QED
    BY <1>1, <1>2 DEF TriggerNext, triggerVars

LEMMA Margins ==
    ASSUME NominalTypeOK, NEW k \in DOMAIN nominal
    PROVE  Forecast!window_margin(k) \in Int
<1>1. nominal[k] \in Nominals
    BY DEF NominalTypeOK
<1>2. nominal[k].phase \in Forecast!Slacks /\ nominal[k].reference \in Forecast!Slacks
    BY <1>1 DEF Nominals
<1>3. nominal[k].phase \in Int /\ nominal[k].reference \in Int
    BY <1>2, SlacksAreNumbers
<1> QED
    BY <1>3 DEF Forecast!window_margin, Forecast!Smaller

(* What the plan chooses from, and what it chooses.                        *)
LEMMA EligiblePositions ==
    ASSUME NominalTypeOK
    PROVE  /\ Forecast!Eligible \subseteq DOMAIN nominal /\ DOMAIN nominal \subseteq Nat \ {0}
           /\ Forecast!Widest \subseteq Forecast!Eligible
           /\ \A k \in Forecast!Eligible : Forecast!LockAt(Forecast!Candidates, k)
           /\ Forecast!Eligible # {} =>
                 /\ Forecast!First(Forecast!Eligible) \in Forecast!Eligible
                 /\ \A j \in Forecast!Eligible : Forecast!First(Forecast!Eligible) <= j
                 /\ Forecast!First(Forecast!Widest) \in Forecast!Widest
<1>1. DOMAIN nominal = 1 .. Len(nominal) /\ Len(nominal) \in Nat
    BY DEF NominalTypeOK
<1>2. Forecast!Eligible \subseteq DOMAIN nominal
    BY DEF Forecast!Eligible
<1>3. Forecast!Widest \subseteq Forecast!Eligible
    BY DEF Forecast!Widest
<1>4. \A k \in Forecast!Eligible : Forecast!LockAt(Forecast!Candidates, k)
    BY DEF Forecast!Eligible
<1>5. DOMAIN nominal \subseteq Nat \ {0}
    BY <1>1
<1>6. ASSUME Forecast!Eligible # {} PROVE Forecast!Widest # {}
    <2> DEFINE f == [k \in 1 .. Len(nominal) |-> Forecast!window_margin(k)]
    <2>1. \A k \in 1 .. Len(nominal) : f[k] = Forecast!window_margin(k) /\ f[k] \in Int
        BY <1>1, Margins
    <2> HIDE DEF f
    <2>2. PICK m \in Forecast!Eligible : \A k \in Forecast!Eligible : f[k] <= f[m]
        BY <1>1, <1>2, <1>6, <2>1, SomeIsWidest
    <2>3. m \in Forecast!Widest
        BY <1>1, <1>2, <2>1, <2>2 DEF Forecast!Widest
    <2> QED
        BY <2>3
<1>7. ASSUME Forecast!Eligible # {}
      PROVE  /\ Forecast!First(Forecast!Eligible) \in Forecast!Eligible
             /\ \A j \in Forecast!Eligible : Forecast!First(Forecast!Eligible) <= j
             /\ Forecast!First(Forecast!Widest) \in Forecast!Widest
    <2>1. Forecast!Eligible \in SUBSET Nat /\ Forecast!Widest \in SUBSET Nat
        BY <1>2, <1>3, <1>5
    <2> QED
        BY <1>6, <1>7, <2>1, FirstIsFirst
<1> QED
    BY <1>2, <1>3, <1>4, <1>5, <1>7

(* On an approach without a violation the causal trigger ends at a lock.   *)
LEMMA CausalEndsAtLock ==
    ASSUME NominalTypeOK, Forecast!CertificatePassed,
           NEW violations,
           violations = [k \in DOMAIN nominal |-> nominal[k].separation < 0]
    PROVE  Forecast!Causal(Forecast!Candidates, violations) =
               IF Forecast!Eligible = {} THEN [decision |-> "HOLD_NO_LOCK", at |-> Forecast!Never]
               ELSE [decision |-> "FIRE", at |-> Forecast!First(Forecast!Eligible)]
<1> DEFINE ends == {k \in DOMAIN Forecast!Candidates :
                       Forecast!LockAt(Forecast!Candidates, k) \/ violations[k]}
<1>1. \A k \in DOMAIN nominal : ~violations[k]
    <2> SUFFICES ASSUME NEW k \in DOMAIN nominal PROVE ~violations[k]
        OBVIOUS
    <2>1. nominal[k].separation >= 0
        BY DEF Forecast!CertificatePassed
    <2>2. nominal[k] \in Nominals
        BY DEF NominalTypeOK
    <2>3. nominal[k].separation \in Int
        BY <2>2, SlacksAreNumbers DEF Nominals
    <2>4. ~(nominal[k].separation < 0)
        BY <2>1, <2>3
    <2>5. violations[k] = (nominal[k].separation < 0)
        OBVIOUS
    <2> QED
        BY <2>4, <2>5
<1>2. DOMAIN Forecast!Candidates = DOMAIN nominal
    BY DEF Forecast!Candidates
<1>3. ends = Forecast!Eligible
    BY <1>1, <1>2 DEF Forecast!Eligible
<1>4. Forecast!Causal(Forecast!Candidates, violations) =
          IF ends = {} THEN [decision |-> "HOLD_NO_LOCK", at |-> Forecast!Never]
          ELSE IF violations[Forecast!First(ends)]
               THEN [decision |-> "ABORT_UNSAFE", at |-> Forecast!First(ends)]
               ELSE [decision |-> "FIRE", at |-> Forecast!First(ends)]
    BY DEF Forecast!Causal
<1> HIDE DEF ends
<1>5. Forecast!Eligible # {} => Forecast!First(Forecast!Eligible) \in DOMAIN nominal
    BY EligiblePositions
<1> QED
    BY <1>1, <1>3, <1>4, <1>5

LEMMA PlanFollowsCausal == NominalTypeOK => Forecast!PlanIsCausal
<1> DEFINE violations == [k \in DOMAIN nominal |-> nominal[k].separation < 0]
           nominalRun == Forecast!Causal(Forecast!Candidates, violations)
           first == Forecast!select_fire_time(TRUE, TRUE, "FIRST_LOCK")
           widest == Forecast!select_fire_time(TRUE, TRUE, "MAX_WINDOW_MARGIN")
<1> SUFFICES ASSUME NominalTypeOK
             PROVE  /\ first # Forecast!Never =>
                          nominalRun = [decision |-> "FIRE", at |-> first]
                    /\ nominalRun.decision = "FIRE" /\ first = Forecast!Never =>
                          ~Forecast!CertificatePassed
                    /\ (widest = Forecast!Never) = (first = Forecast!Never)
                    /\ first # Forecast!Never =>
                          /\ widest >= first /\ Forecast!LockAt(Forecast!Candidates, widest)
                          /\ Forecast!window_margin(widest) >= Forecast!window_margin(first)
    BY DEF Forecast!PlanIsCausal
<1>1. first = IF ~Forecast!CertificatePassed \/ Forecast!Eligible = {} THEN Forecast!Never
              ELSE Forecast!First(Forecast!Eligible)
    BY DEF Forecast!select_fire_time
<1>2. widest = IF ~Forecast!CertificatePassed \/ Forecast!Eligible = {} THEN Forecast!Never
               ELSE Forecast!First(Forecast!Widest)
    BY DEF Forecast!select_fire_time
<1>3. Forecast!CertificatePassed =>
          nominalRun = IF Forecast!Eligible = {}
                       THEN [decision |-> "HOLD_NO_LOCK", at |-> Forecast!Never]
                       ELSE [decision |-> "FIRE", at |-> Forecast!First(Forecast!Eligible)]
    BY CausalEndsAtLock
<1> HIDE DEF nominalRun, first, widest
<1>4. Forecast!Never = 0
    BY DEF Forecast!Never
<1>5. CASE ~Forecast!CertificatePassed
    BY <1>1, <1>2, <1>5
<1>6. CASE Forecast!CertificatePassed /\ Forecast!Eligible = {}
    <2>1. first = Forecast!Never /\ widest = Forecast!Never
        BY <1>1, <1>2, <1>6
    <2>2. nominalRun.decision = "HOLD_NO_LOCK"
        BY <1>3, <1>6
    <2> QED
        BY <2>1, <2>2
<1>7. CASE Forecast!CertificatePassed /\ Forecast!Eligible # {}
    <2>1. first = Forecast!First(Forecast!Eligible) /\ widest = Forecast!First(Forecast!Widest)
        BY <1>1, <1>2, <1>7
    <2>2. first \in Forecast!Eligible /\ widest \in Forecast!Widest
          /\ widest \in Forecast!Eligible
          /\ \A j \in Forecast!Eligible : first <= j
        BY <1>7, <2>1, EligiblePositions
    <2>3. first \in Nat /\ first # 0 /\ widest \in Nat /\ widest # 0
        BY <2>2, EligiblePositions
    <2>4. nominalRun = [decision |-> "FIRE", at |-> first]
        BY <1>3, <1>7, <2>1
    <2>5. Forecast!LockAt(Forecast!Candidates, widest)
        BY <2>2, EligiblePositions
    <2>6. Forecast!window_margin(first) <= Forecast!window_margin(widest)
        BY <2>2 DEF Forecast!Widest
    <2>7. Forecast!window_margin(first) \in Int /\ Forecast!window_margin(widest) \in Int
        BY <2>2, EligiblePositions, Margins
    <2>8. widest >= first
        BY <2>2, <2>3
    <2>9. Forecast!window_margin(widest) >= Forecast!window_margin(first)
        BY <2>6, <2>7
    <2> QED
        BY <1>4, <2>3, <2>4, <2>5, <2>8, <2>9
<1> QED
    BY <1>5, <1>6, <1>7

(* An instant planned on the nominal approach is the one at which the      *)
(* causal trigger fires on it, and where that one fires and nothing is     *)
(* planned the approach is violated later; the policy of the widest margin *)
(* plans for the same approaches, no earlier, in a lock and with no        *)
(* smaller margin: for every streak length and every set of slacks.        *)
THEOREM PlansCausally == TriggerSpec => []PlanIsCausal
<1>1. TriggerInit => NominalTypeOK
    BY NominalInitially DEF TriggerInit
<1>2. NominalTypeOK /\ [TriggerNext]_triggerVars => NominalTypeOK'
    BY NominalStep
<1>3. NominalTypeOK => PlanIsCausal
    BY PlanFollowsCausal DEF PlanIsCausal
<1> QED
    BY <1>1, <1>2, <1>3, PTL DEF TriggerSpec

(***************************************************************************)
(* The forecast.  Its reference is a sum over every path the measured      *)
(* samples can take, so first what a fold over a finite set computes: for  *)
(* a commutative operation, whichever element is picked first.             *)
(***************************************************************************)
LEMMA SubsetInduction ==
    ASSUME NEW S, IsFiniteSet(S), NEW T, {} \in T,
           \A s \in SUBSET S : s # {} /\ (\A x \in s : s \ {x} \in T) => s \in T
    PROVE  \A s \in SUBSET S : s \in T
<1> DEFINE Bad == {s \in SUBSET S : s \notin T}
           Sizes == {Cardinality(s) : s \in Bad}
<1> SUFFICES ASSUME Bad # {} PROVE FALSE
    OBVIOUS
<1>1. \A s \in SUBSET S : IsFiniteSet(s) /\ Cardinality(s) \in Nat
    BY FS_Subset, FS_CardinalityType
<1>2. Sizes \in SUBSET Nat /\ Sizes # {}
    BY <1>1
<1>3. PICK n \in Sizes : \A m \in Sizes : ~ (m < n)
    BY <1>2, LeastNatural
<1>4. PICK s \in Bad : Cardinality(s) = n
    BY <1>3
<1>5. ASSUME NEW x \in s PROVE s \ {x} \in T
    <2>1. Cardinality(s \ {x}) = Cardinality(s) - 1 /\ s \ {x} \in SUBSET S
        BY <1>1, FS_RemoveElement
    <2>2. Cardinality(s \ {x}) < n
        BY <1>1, <1>4, <2>1
    <2> QED
        BY <1>3, <2>1, <2>2
<1> QED
    BY <1>4, <1>5

Pick(S) == CHOOSE x \in S : TRUE

LEMMA PickIsIn == \A S : S # {} => Pick(S) \in S
BY DEF Pick

(* An operation that can be folded in any order.                           *)
Commutes(op, unit) ==
    /\ unit \in Int /\ op \in [Int -> [Int -> Int]]
    /\ \A a, b \in Int : op[a][b] = op[b][a]
    /\ \A a, b, c \in Int : op[a][op[b][c]] = op[op[a][b]][c]

LEMMA CommutesFacts ==
    ASSUME NEW op, NEW unit, Commutes(op, unit)
    PROVE  /\ \A a, b \in Int : op[a][b] \in Int /\ op[a][b] = op[b][a]
           /\ \A a, b, c \in Int : op[a][op[b][c]] = op[b][op[a][c]]
<1>1. op \in [Int -> [Int -> Int]]
    BY DEF Commutes
<1>2. ASSUME NEW a \in Int, NEW b \in Int PROVE op[a][b] \in Int
    <2>1. op[a] \in [Int -> Int]
        BY <1>1
    <2> QED
        BY <2>1
<1>3. \A a, b \in Int : op[a][b] = op[b][a]
    BY DEF Commutes
<1>4. ASSUME NEW a \in Int, NEW b \in Int, NEW c \in Int
      PROVE  op[a][op[b][c]] = op[b][op[a][c]]
    <2>1. \A x, y, z \in Int : op[x][op[y][z]] = op[op[x][y]][z]
        BY DEF Commutes
    <2>2. op[a][op[b][c]] = op[op[a][b]][c] /\ op[b][op[a][c]] = op[op[b][a]][c]
        BY <2>1, Zenon
    <2>3. op[a][b] = op[b][a]
        BY <1>3
    <2> QED
        BY <2>2, <2>3, Zenon
<1> QED
    BY <1>2, <1>3, <1>4, Zenon

(* it[s] is the fold of f over s, for every part s of S.                   *)
Folds(it, op, unit, f, S) ==
    \A s \in SUBSET S :
        it[s] = IF s = {} THEN unit ELSE op[f[Pick(s)]][it[s \ {Pick(s)}]]

Ints(f, S) == \A x \in S : f[x] \in Int

LEMMA FoldTypes ==
    ASSUME NEW op, NEW unit, Commutes(op, unit), NEW S, IsFiniteSet(S),
           NEW f, Ints(f, S), NEW it, Folds(it, op, unit, f, S)
    PROVE  \A s \in SUBSET S : it[s] \in Int
<1> DEFINE T == {s \in SUBSET S : it[s] \in Int}
<1>1. {} \in T
    BY DEF Folds, Commutes
<1>2. ASSUME NEW s \in SUBSET S, s # {}, \A x \in s : s \ {x} \in T
      PROVE  s \in T
    <2>1. Pick(s) \in s /\ Pick(s) \in S
        BY <1>2, PickIsIn
    <2>2. it[s] = op[f[Pick(s)]][it[s \ {Pick(s)}]]
        BY <1>2 DEF Folds
    <2>3. f[Pick(s)] \in Int /\ it[s \ {Pick(s)}] \in Int
        BY <1>2, <2>1 DEF Ints
    <2> QED
        <3>1. \A a, b \in Int : op[a][b] \in Int
            BY CommutesFacts, Zenon
        <3> QED
            BY <2>2, <2>3, <3>1, Zenon
<1> HIDE DEF T
<1>3. \A s \in SUBSET S : s \in T
    BY <1>1, <1>2, SubsetInduction
<1> QED
    BY <1>3 DEF T

(* Whichever element is taken out first, the fold is the same.             *)
TakesAny(it, op, f, S) ==
    \A s \in SUBSET S : \A y \in s : it[s] = op[f[y]][it[s \ {y}]]

LEMMA AnyFirst ==
    ASSUME NEW op, NEW unit, Commutes(op, unit), NEW S, IsFiniteSet(S),
           NEW f, Ints(f, S), NEW it, Folds(it, op, unit, f, S)
    PROVE  TakesAny(it, op, f, S)
<1> DEFINE T == {s \in SUBSET S : \A y \in s : it[s] = op[f[y]][it[s \ {y}]]}
<1>1. {} \in T
    OBVIOUS
<1>2. ASSUME NEW s \in SUBSET S, s # {}, \A x \in s : s \ {x} \in T, NEW y \in s
      PROVE  it[s] = op[f[y]][it[s \ {y}]]
    <2> DEFINE p == Pick(s)
               rest == (s \ {p}) \ {y}
    <2>1. p \in s /\ it[s] = op[f[p]][it[s \ {p}]]
        BY <1>2, PickIsIn DEF Folds
    <2>2. CASE p = y
        BY <2>1, <2>2
    <2>3. CASE p # y
        <3>1. y \in s \ {p} /\ p \in s \ {y} /\ (s \ {y}) \ {p} = rest
            BY <2>1, <2>3
        <3>2. it[s \ {p}] = op[f[y]][it[rest]]
            BY <1>2, <2>1, <3>1
        <3>3. it[s \ {y}] = op[f[p]][it[rest]]
            BY <1>2, <3>1
        <3>4. f[p] \in Int /\ f[y] \in Int /\ it[rest] \in Int
            BY <2>1, FoldTypes DEF Ints
        <3>5. \A a, b, c \in Int : op[a][op[b][c]] = op[b][op[a][c]]
            BY CommutesFacts, Zenon
        <3>6. op[f[p]][op[f[y]][it[rest]]] = op[f[y]][op[f[p]][it[rest]]]
            BY <3>4, <3>5, Zenon
        <3> QED
            BY <2>1, <3>2, <3>3, <3>6
    <2> QED
        BY <2>2, <2>3
<1>3. ASSUME NEW s \in SUBSET S, s # {}, \A x \in s : s \ {x} \in T
      PROVE  s \in T
    BY <1>2, <1>3
<1> HIDE DEF T
<1>4. \A s \in SUBSET S : s \in T
    BY <1>1, <1>3, SubsetInduction
<1> QED
    BY <1>4 DEF T, TakesAny

(* The fold over a set depends on nothing outside it.                      *)
LEMMA FoldIsLocal ==
    ASSUME NEW op, NEW unit, NEW S, IsFiniteSet(S),
           NEW f, NEW A, S \subseteq A, NEW it, Folds(it, op, unit, f, A),
           NEW g, NEW jt, Folds(jt, op, unit, g, S),
           \A x \in S : f[x] = g[x]
    PROVE  it[S] = jt[S]
<1> DEFINE T == {s \in SUBSET S : it[s] = jt[s]}
<1>1. {} \in T
    BY DEF Folds
<1>2. ASSUME NEW s \in SUBSET S, s # {}, \A x \in s : s \ {x} \in T
      PROVE  s \in T
    <2>1. Pick(s) \in s /\ Pick(s) \in S /\ s \in SUBSET A
        BY <1>2, PickIsIn
    <2>2. it[s] = op[f[Pick(s)]][it[s \ {Pick(s)}]]
        BY <1>2, <2>1 DEF Folds
    <2>3. jt[s] = op[g[Pick(s)]][jt[s \ {Pick(s)}]]
        BY <1>2, <2>1 DEF Folds
    <2> QED
        BY <1>2, <2>1, <2>2, <2>3
<1> HIDE DEF T
<1>3. \A s \in SUBSET S : s \in T
    BY <1>1, <1>2, SubsetInduction
<1> QED
    BY <1>3 DEF T

(* Up to any size a fold exists; a larger set refers to smaller ones only. *)
FoldsUpTo(g, op, unit, f, S, n) ==
    g = [s \in {t \in SUBSET S : Cardinality(t) <= n} |->
            IF s = {} THEN unit ELSE op[f[Pick(s)]][g[s \ {Pick(s)}]]]

LEMMA FoldExists ==
    ASSUME NEW op, NEW unit, NEW S, IsFiniteSet(S), NEW f
    PROVE  \E it : Folds(it, op, unit, f, S)
<1> DEFINE T == {n \in Nat : \E g : FoldsUpTo(g, op, unit, f, S, n)}
           Small(n) == {t \in SUBSET S : Cardinality(t) <= n}
<1>0. \A s \in SUBSET S : IsFiniteSet(s) /\ Cardinality(s) \in Nat /\ Cardinality(s) <= Cardinality(S)
    BY FS_Subset, FS_CardinalityType
<1>1. 0 \in T
    <2> DEFINE g == [s \in Small(0) |-> unit]
    <2>1. \A s \in Small(0) : s = {}
        <3> TAKE s \in Small(0)
        <3>1. s \in SUBSET S /\ Cardinality(s) = 0
            BY <1>0
        <3> QED
            BY <1>0, <3>1, FS_EmptySet
    <2>2. FoldsUpTo(g, op, unit, f, S, 0)
        BY <2>1 DEF FoldsUpTo
    <2> QED
        BY <2>2
<1>2. ASSUME NEW n \in Nat, n \in T PROVE n + 1 \in T
    <2>1. PICK g : FoldsUpTo(g, op, unit, f, S, n)
        BY <1>2
    <2>2. \A s \in Small(n) : g[s] = IF s = {} THEN unit ELSE op[f[Pick(s)]][g[s \ {Pick(s)}]]
        BY <2>1 DEF FoldsUpTo
    <2> DEFINE h == [s \in Small(n + 1) |->
                        IF s = {} THEN unit ELSE op[f[Pick(s)]][g[s \ {Pick(s)}]]]
    <2>3. ASSUME NEW s \in Small(n + 1) PROVE s \in Small(n) => h[s] = g[s]
        BY <2>2
    <2>4. ASSUME NEW s \in Small(n + 1), s # {}
          PROVE  s \ {Pick(s)} \in Small(n + 1) /\ s \ {Pick(s)} \in Small(n)
        <3>1. Pick(s) \in s
            BY <2>4, PickIsIn
        <3>2. Cardinality(s \ {Pick(s)}) = Cardinality(s) - 1 /\ Cardinality(s) \in Nat
            BY <1>0, <3>1, FS_RemoveElement
        <3> QED
            BY <3>2
    <2>5. ASSUME NEW s \in Small(n + 1)
          PROVE  h[s] = IF s = {} THEN unit ELSE op[f[Pick(s)]][h[s \ {Pick(s)}]]
        <3>1. CASE s = {}
            BY <3>1
        <3>2. CASE s # {}
            <4>1. h[s] = op[f[Pick(s)]][g[s \ {Pick(s)}]]
                BY <3>2
            <4>2. h[s \ {Pick(s)}] = g[s \ {Pick(s)}]
                BY <2>3, <2>4, <3>2
            <4> QED
                BY <3>2, <4>1, <4>2
        <3> QED
            BY <3>1, <3>2
    <2>6. h = [s \in Small(n + 1) |-> h[s]]
        OBVIOUS
    <2> HIDE DEF h
    <2>7. FoldsUpTo(h, op, unit, f, S, n + 1)
        BY <2>5, <2>6 DEF FoldsUpTo
    <2> QED
        BY <2>7
<1> HIDE DEF T
<1>3. Cardinality(S) \in T
    BY <1>1, <1>2, NaturalSet, FS_CardinalityType
<1>4. PICK g : FoldsUpTo(g, op, unit, f, S, Cardinality(S))
    BY <1>3 DEF T
<1>5. Small(Cardinality(S)) = SUBSET S
    BY <1>0
<1>6. Folds(g, op, unit, f, S)
    BY <1>4, <1>5 DEF FoldsUpTo, Folds
<1> QED
    BY <1>6

Adding == [a \in Int |-> [b \in Int |-> a + b]]
Multiplying == [a \in Int |-> [b \in Int |-> a * b]]

LEMMA AddingCommutes == Commutes(Adding, 0) /\ \A a, b \in Int : Adding[a][b] = a + b
<1>1. \A a, b \in Int : Adding[a][b] = a + b
    BY DEF Adding
<1>2. Adding \in [Int -> [Int -> Int]]
    <2>1. \A a \in Int : [b \in Int |-> a + b] \in [Int -> Int]
        OBVIOUS
    <2> QED
        BY <2>1 DEF Adding
<1>3. ASSUME NEW a \in Int, NEW b \in Int PROVE Adding[a][b] = Adding[b][a]
    <2>1. Adding[a][b] = a + b /\ Adding[b][a] = b + a
        BY <1>1
    <2>2. a + b = b + a
        OBVIOUS
    <2> QED
        BY <2>1, <2>2
<1>4. ASSUME NEW a \in Int, NEW b \in Int, NEW c \in Int
      PROVE  Adding[a][Adding[b][c]] = Adding[Adding[a][b]][c]
    <2>1. PICK x \in Int : x = b + c
        OBVIOUS
    <2>2. PICK y \in Int : y = a + b
        OBVIOUS
    <2>3. Adding[b][c] = x /\ Adding[a][b] = y
        BY <1>1, <2>1, <2>2
    <2>4. Adding[a][x] = a + x /\ Adding[y][c] = y + c
        BY <1>1, <2>1, <2>2
    <2>5. a + x = y + c
        BY <2>1, <2>2
    <2> QED
        BY <2>3, <2>4, <2>5
<1>5. 0 \in Int
    OBVIOUS
<1> QED
    BY <1>1, <1>2, <1>3, <1>4, <1>5, Zenon DEF Commutes

LEMMA MultiplyingCommutes == Commutes(Multiplying, 1) /\ \A a, b \in Int : Multiplying[a][b] = a * b
<1>1. \A a, b \in Int : Multiplying[a][b] = a * b
    BY DEF Multiplying
<1>2. Multiplying \in [Int -> [Int -> Int]]
    <2>1. \A a \in Int : [b \in Int |-> a * b] \in [Int -> Int]
        OBVIOUS
    <2> QED
        BY <2>1 DEF Multiplying
<1>3. ASSUME NEW a \in Int, NEW b \in Int PROVE Multiplying[a][b] = Multiplying[b][a]
    <2>1. Multiplying[a][b] = a * b /\ Multiplying[b][a] = b * a
        BY <1>1
    <2>2. a * b = b * a
        OBVIOUS
    <2> QED
        BY <2>1, <2>2
<1>4. ASSUME NEW a \in Int, NEW b \in Int, NEW c \in Int
      PROVE  Multiplying[a][Multiplying[b][c]] = Multiplying[Multiplying[a][b]][c]
    <2>1. PICK x \in Int : x = b * c
        OBVIOUS
    <2>2. PICK y \in Int : y = a * b
        OBVIOUS
    <2>3. Multiplying[b][c] = x /\ Multiplying[a][b] = y
        BY <1>1, <2>1, <2>2
    <2>4. Multiplying[a][x] = a * x /\ Multiplying[y][c] = y * c
        BY <1>1, <2>1, <2>2
    <2>5. a * x = y * c
        BY <2>1, <2>2
    <2> QED
        BY <2>3, <2>4, <2>5
<1>5. 1 \in Int
    OBVIOUS
<1> QED
    BY <1>1, <1>2, <1>3, <1>4, <1>5, Zenon DEF Commutes

(* The folds of the model are folds of these two operations.               *)
SumOn(f, S) == Forecast!SumFunctionOnSet(f, S)

SolvesSum(it, f, S) ==
    it = [s \in SUBSET S |-> IF s = {} THEN 0 ELSE f[Pick(s)] + it[s \ {Pick(s)}]]

SolvesProduct(it, f, S) ==
    it = [s \in SUBSET S |-> IF s = {} THEN 1 ELSE f[Pick(s)] * it[s \ {Pick(s)}]]

LEMMA SumSolves ==
    ASSUME NEW S, IsFiniteSet(S), NEW f, Ints(f, S)
    PROVE  \E it : Folds(it, Adding, 0, f, S) /\ it[S] = SumOn(f, S)
<1> DEFINE it == CHOOSE g : SolvesSum(g, f, S)
<1>1. SumOn(f, S) = it[S]
    BY DEF SumOn, Forecast!SumFunctionOnSet, Forecast!FoldFunctionOnSet,
           Forecast!MapThenFoldSet, SolvesSum, Pick
<1>2. PICK g : Folds(g, Adding, 0, f, S)
    BY FoldExists
<1>3. \A s \in SUBSET S : g[s] \in Int
    BY <1>2, AddingCommutes, FoldTypes
<1>4. ASSUME NEW s \in SUBSET S, s # {}
      PROVE  g[s] = f[Pick(s)] + g[s \ {Pick(s)}]
    <2>1. g[s] = Adding[f[Pick(s)]][g[s \ {Pick(s)}]]
        BY <1>2, <1>4 DEF Folds
    <2>2. f[Pick(s)] \in Int /\ g[s \ {Pick(s)}] \in Int
        BY <1>3, <1>4, PickIsIn DEF Ints
    <2> QED
        BY <2>1, <2>2, AddingCommutes
<1>5. g[{}] = 0
    BY <1>2 DEF Folds
<1>6. SolvesSum([s \in SUBSET S |-> g[s]], f, S)
    <2> DEFINE h == [s \in SUBSET S |-> g[s]]
    <2>1. \A s \in SUBSET S : h[s] = IF s = {} THEN 0 ELSE f[Pick(s)] + h[s \ {Pick(s)}]
        BY <1>4, <1>5
    <2>2. h = [s \in SUBSET S |-> h[s]]
        OBVIOUS
    <2> HIDE DEF h
    <2>3. SolvesSum(h, f, S)
        BY <2>1, <2>2 DEF SolvesSum
    <2> QED
        BY <2>3 DEF h
<1>7. SolvesSum(it, f, S)
    BY <1>6
<1> HIDE DEF it
<1>8. \A s \in SUBSET S : it[s] = IF s = {} THEN 0 ELSE f[Pick(s)] + it[s \ {Pick(s)}]
    BY <1>7 DEF SolvesSum
<1> DEFINE T == {s \in SUBSET S : it[s] = g[s]}
<1>9. {} \in T
    BY <1>5, <1>8
<1>10. ASSUME NEW s \in SUBSET S, s # {}, \A x \in s : s \ {x} \in T PROVE s \in T
    BY <1>4, <1>8, <1>10, PickIsIn
<1> HIDE DEF T
<1>11. \A s \in SUBSET S : s \in T
    BY <1>9, <1>10, SubsetInduction
<1>12. \A s \in SUBSET S : it[s] = g[s]
    BY <1>11 DEF T
<1>13. Folds(it, Adding, 0, f, S)
    BY <1>2, <1>12 DEF Folds
<1> QED
    BY <1>1, <1>13

LEMMA ProductSolves ==
    ASSUME NEW S, IsFiniteSet(S), NEW f, S = DOMAIN f, Ints(f, S)
    PROVE  \E it : Folds(it, Multiplying, 1, f, S) /\ it[S] = Forecast!Product(f)
<1> DEFINE it == CHOOSE g : SolvesProduct(g, f, S)
<1>1. Forecast!Product(f) = it[S]
    BY DEF Forecast!Product, Forecast!FoldFunction, Forecast!FoldFunctionOnSet,
           Forecast!MapThenFoldSet, SolvesProduct, Pick
<1>2. PICK g : Folds(g, Multiplying, 1, f, S)
    BY FoldExists
<1>3. \A s \in SUBSET S : g[s] \in Int
    BY <1>2, MultiplyingCommutes, FoldTypes
<1>4. ASSUME NEW s \in SUBSET S, s # {}
      PROVE  g[s] = f[Pick(s)] * g[s \ {Pick(s)}]
    <2>1. g[s] = Multiplying[f[Pick(s)]][g[s \ {Pick(s)}]]
        BY <1>2, <1>4 DEF Folds
    <2>2. f[Pick(s)] \in Int /\ g[s \ {Pick(s)}] \in Int
        BY <1>3, <1>4, PickIsIn DEF Ints
    <2> QED
        BY <2>1, <2>2, MultiplyingCommutes
<1>5. g[{}] = 1
    BY <1>2 DEF Folds
<1>6. SolvesProduct([s \in SUBSET S |-> g[s]], f, S)
    <2> DEFINE h == [s \in SUBSET S |-> g[s]]
    <2>1. \A s \in SUBSET S : h[s] = IF s = {} THEN 1 ELSE f[Pick(s)] * h[s \ {Pick(s)}]
        BY <1>4, <1>5
    <2>2. h = [s \in SUBSET S |-> h[s]]
        OBVIOUS
    <2> HIDE DEF h
    <2>3. SolvesProduct(h, f, S)
        BY <2>1, <2>2 DEF SolvesProduct
    <2> QED
        BY <2>3 DEF h
<1>7. SolvesProduct(it, f, S)
    BY <1>6
<1> HIDE DEF it
<1>8. \A s \in SUBSET S : it[s] = IF s = {} THEN 1 ELSE f[Pick(s)] * it[s \ {Pick(s)}]
    BY <1>7 DEF SolvesProduct
<1> DEFINE T == {s \in SUBSET S : it[s] = g[s]}
<1>9. {} \in T
    BY <1>5, <1>8
<1>10. ASSUME NEW s \in SUBSET S, s # {}, \A x \in s : s \ {x} \in T PROVE s \in T
    BY <1>4, <1>8, <1>10, PickIsIn
<1> HIDE DEF T
<1>11. \A s \in SUBSET S : s \in T
    BY <1>9, <1>10, SubsetInduction
<1>12. \A s \in SUBSET S : it[s] = g[s]
    BY <1>11 DEF T
<1>13. Folds(it, Multiplying, 1, f, S)
    BY <1>2, <1>12 DEF Folds
<1> QED
    BY <1>1, <1>13

LEMMA SumIsInt ==
    ASSUME NEW S, IsFiniteSet(S), NEW f, Ints(f, S)
    PROVE  SumOn(f, S) \in Int
<1>1. PICK it : Folds(it, Adding, 0, f, S) /\ it[S] = SumOn(f, S)
    BY SumSolves
<1>2. \A s \in SUBSET S : it[s] \in Int
    BY <1>1, AddingCommutes, FoldTypes
<1> QED
    BY <1>1, <1>2

LEMMA SumEmpty == ASSUME NEW f PROVE SumOn(f, {}) = 0
<1>1. PICK it : Folds(it, Adding, 0, f, {}) /\ it[{}] = SumOn(f, {})
    BY SumSolves, FS_EmptySet DEF Ints
<1> QED
    BY <1>1 DEF Folds

LEMMA SumTakesOut ==
    ASSUME NEW S, IsFiniteSet(S), NEW f, Ints(f, S), NEW y \in S
    PROVE  SumOn(f, S) = f[y] + SumOn(f, S \ {y})
<1>1. PICK it : Folds(it, Adding, 0, f, S) /\ it[S] = SumOn(f, S)
    BY SumSolves
<1>2. IsFiniteSet(S \ {y}) /\ Ints(f, S \ {y})
    BY FS_Subset DEF Ints
<1>3. PICK jt : Folds(jt, Adding, 0, f, S \ {y}) /\ jt[S \ {y}] = SumOn(f, S \ {y})
    BY <1>2, SumSolves
<1>4. it[S \ {y}] = jt[S \ {y}]
    <2>1. S \ {y} \subseteq S
        OBVIOUS
    <2> QED
        BY <1>1, <1>2, <1>3, <2>1, FoldIsLocal
<1>5. it[S] = Adding[f[y]][it[S \ {y}]]
    <2>1. Commutes(Adding, 0) /\ Folds(it, Adding, 0, f, S)
        BY <1>1, AddingCommutes
    <2>2. TakesAny(it, Adding, f, S)
        BY <2>1, AnyFirst
    <2> QED
        BY <2>2 DEF TakesAny
<1>6. f[y] \in Int /\ it[S \ {y}] \in Int
    BY <1>1, AddingCommutes, FoldTypes DEF Ints
<1> QED
    BY <1>1, <1>3, <1>4, <1>5, <1>6, AddingCommutes

LEMMA SumIsLocal ==
    ASSUME NEW S, IsFiniteSet(S), NEW f, Ints(f, S), NEW g, \A x \in S : f[x] = g[x]
    PROVE  SumOn(f, S) = SumOn(g, S)
<1>1. PICK it : Folds(it, Adding, 0, f, S) /\ it[S] = SumOn(f, S)
    BY SumSolves
<1>2. Ints(g, S)
    BY DEF Ints
<1>3. PICK jt : Folds(jt, Adding, 0, g, S) /\ jt[S] = SumOn(g, S)
    BY <1>2, SumSolves
<1>4. it[S] = jt[S]
    BY <1>1, <1>3, FoldIsLocal
<1> QED
    BY <1>1, <1>3, <1>4

LEMMA ProductTakesOut ==
    ASSUME NEW S, IsFiniteSet(S), NEW f, S = DOMAIN f, Ints(f, S),
           NEW y \in S, NEW g, DOMAIN g = S \ {y}, \A x \in S \ {y} : g[x] = f[x]
    PROVE  /\ Forecast!Product(f) = f[y] * Forecast!Product(g)
           /\ Forecast!Product(f) \in Int /\ Forecast!Product(g) \in Int
<1>1. PICK it : Folds(it, Multiplying, 1, f, S) /\ it[S] = Forecast!Product(f)
    BY ProductSolves
<1>2. IsFiniteSet(S \ {y}) /\ Ints(g, S \ {y})
    BY FS_Subset DEF Ints
<1>3. PICK jt : Folds(jt, Multiplying, 1, g, S \ {y}) /\ jt[S \ {y}] = Forecast!Product(g)
    BY <1>2, ProductSolves
<1>4. it[S \ {y}] = jt[S \ {y}]
    BY <1>1, <1>2, <1>3, FoldIsLocal
<1>5. it[S] = Multiplying[f[y]][it[S \ {y}]]
    <2>1. Commutes(Multiplying, 1) /\ Folds(it, Multiplying, 1, f, S)
        BY <1>1, MultiplyingCommutes
    <2>2. TakesAny(it, Multiplying, f, S)
        BY <2>1, AnyFirst
    <2> QED
        BY <2>2 DEF TakesAny
<1>6. f[y] \in Int /\ it[S \ {y}] \in Int /\ it[S] \in Int
    BY <1>1, MultiplyingCommutes, FoldTypes DEF Ints
<1>7. Multiplying[f[y]][it[S \ {y}]] = f[y] * it[S \ {y}]
    BY <1>6, MultiplyingCommutes
<1> QED
    BY <1>1, <1>3, <1>4, <1>5, <1>6, <1>7

LEMMA ProductEmpty == ASSUME NEW f, DOMAIN f = {} PROVE Forecast!Product(f) = 1
<1>1. PICK it : Folds(it, Multiplying, 1, f, {}) /\ it[{}] = Forecast!Product(f)
    BY ProductSolves, FS_EmptySet DEF Ints
<1> QED
    BY <1>1 DEF Folds

LEMMA SumOfUnion ==
    ASSUME NEW A, IsFiniteSet(A), NEW B, IsFiniteSet(B), A \cap B = {},
           NEW f, Ints(f, A), Ints(f, B)
    PROVE  SumOn(f, A \cup B) = SumOn(f, A) + SumOn(f, B)
<1> DEFINE T == {s \in SUBSET B : SumOn(f, A \cup s) = SumOn(f, A) + SumOn(f, s)}
<1>1. SumOn(f, A) \in Int
    BY SumIsInt
<1>2. {} \in T
    <2>1. A \cup {} = A /\ SumOn(f, {}) = 0
        BY SumEmpty
    <2> QED
        BY <1>1, <2>1
<1>3. ASSUME NEW s \in SUBSET B, s # {}, \A x \in s : s \ {x} \in T PROVE s \in T
    <2>1. PICK x \in s : TRUE
        BY <1>3
    <2>2. SumOn(f, A \cup (s \ {x})) = SumOn(f, A) + SumOn(f, s \ {x})
        BY <1>3, <2>1
    <2>3. IsFiniteSet(s) /\ Ints(f, s) /\ IsFiniteSet(s \ {x}) /\ Ints(f, s \ {x}) /\ f[x] \in Int
        BY <2>1, FS_Subset DEF Ints
    <2>4. IsFiniteSet(A \cup s) /\ Ints(f, A \cup s) /\ (A \cup s) \ {x} = A \cup (s \ {x})
        BY <2>1, <2>3, FS_Union DEF Ints
    <2>5. SumOn(f, A \cup s) = f[x] + SumOn(f, A \cup (s \ {x}))
        BY <2>1, <2>4, SumTakesOut
    <2>6. SumOn(f, s) = f[x] + SumOn(f, s \ {x})
        BY <2>1, <2>3, SumTakesOut
    <2>7. SumOn(f, s \ {x}) \in Int
        BY <2>3, SumIsInt
    <2> QED
        BY <1>1, <2>2, <2>3, <2>5, <2>6, <2>7
<1> HIDE DEF T
<1>4. \A s \in SUBSET B : s \in T
    BY <1>2, <1>3, SubsetInduction
<1> QED
    BY <1>4 DEF T

(* A sum along an injection that multiplies every term by the same factor. *)
Injects(e, S) == \A x, y \in S : e[x] = e[y] => x = y
Scales(g, f, e, w, S) == \A x \in S : g[e[x]] = w * f[x]

LEMMA SumOfImage ==
    ASSUME NEW S, IsFiniteSet(S), NEW f, Ints(f, S), NEW e, NEW w \in Int, NEW g,
           Injects(e, S), Scales(g, f, e, w, S)
    PROVE  /\ IsFiniteSet({e[x] : x \in S}) /\ Ints(g, {e[x] : x \in S})
           /\ SumOn(g, {e[x] : x \in S}) = w * SumOn(f, S)
<1> DEFINE Image(s) == {e[x] : x \in s}
           T == {s \in SUBSET S : /\ IsFiniteSet(Image(s))
                                  /\ SumOn(g, Image(s)) = w * SumOn(f, s)}
<1>0. /\ \A x, y \in S : e[x] = e[y] => x = y
      /\ \A x \in S : g[e[x]] = w * f[x]
    BY DEF Injects, Scales
<1>1. \A s \in SUBSET S : Ints(g, Image(s))
    BY <1>0 DEF Ints
<1>2. {} \in T
    <2>1. Image({}) = {} /\ SumOn(g, {}) = 0 /\ SumOn(f, {}) = 0
        BY SumEmpty
    <2>2. IsFiniteSet({}) /\ w * 0 = 0
        BY FS_EmptySet
    <2> QED
        BY <2>1, <2>2
<1>3. ASSUME NEW s \in SUBSET S, s # {}, \A x \in s : s \ {x} \in T PROVE s \in T
    <2>1. PICK x \in s : TRUE
        BY <1>3
    <2>2. IsFiniteSet(Image(s \ {x})) /\ SumOn(g, Image(s \ {x})) = w * SumOn(f, s \ {x})
        BY <1>3, <2>1
    <2>3. IsFiniteSet(s) /\ Ints(f, s) /\ IsFiniteSet(s \ {x}) /\ Ints(f, s \ {x}) /\ f[x] \in Int
        BY <2>1, FS_Subset DEF Ints
    <2>4. Image(s) = Image(s \ {x}) \cup {e[x]} /\ Image(s) \ {e[x]} = Image(s \ {x})
        BY <1>0, <2>1
    <2>5. IsFiniteSet(Image(s)) /\ e[x] \in Image(s)
        <3>1. IsFiniteSet(Image(s \ {x}) \cup {e[x]})
            BY <2>2, FS_AddElement
        <3> QED
            BY <2>1, <2>4, <3>1
    <2>6. SumOn(g, Image(s)) = g[e[x]] + SumOn(g, Image(s \ {x}))
        <3>1. SumOn(g, Image(s)) = g[e[x]] + SumOn(g, Image(s) \ {e[x]})
            BY <1>1, <2>5, SumTakesOut
        <3> QED
            BY <2>4, <3>1
    <2>7. SumOn(f, s) = f[x] + SumOn(f, s \ {x})
        BY <2>1, <2>3, SumTakesOut
    <2>8. SumOn(f, s \ {x}) \in Int
        BY <2>3, SumIsInt
    <2>9. g[e[x]] = w * f[x]
        BY <1>0, <2>1
    <2>10. SumOn(g, Image(s)) = w * SumOn(f, s)
        <3> HIDE DEF Image
        <3>1. ASSUME NEW a \in Int, NEW b \in Int PROVE w * a + w * b = w * (a + b)
            OBVIOUS
        <3> QED
            BY <2>2, <2>3, <2>6, <2>7, <2>8, <2>9, <3>1
    <2> QED
        BY <2>5, <2>10
<1> HIDE DEF T
<1>4. \A s \in SUBSET S : s \in T
    BY <1>2, <1>3, SubsetInduction
<1> QED
    BY <1>1, <1>4 DEF T

(***************************************************************************)
(* The paths of n samples, their law and its parts.  A path is a pair of   *)
(* measured candidates and measured violations; the law is written over    *)
(* the samples' parts, qs for a candidate and xs for a violation.          *)
(***************************************************************************)
PathsOf(n) == [1 .. n -> BOOLEAN]
Pairs(n) == PathsOf(n) \X PathsOf(n)

Factor(q, x, c, v) ==
    (IF c THEN q ELSE Forecast!SurePair - q) * (IF v THEN x ELSE SURE - x)

Term(qs, xs, p, k) == Factor(qs[k], xs[k], p[1][k], p[2][k])

Law(qs, xs, n) ==
    [p \in Pairs(n) |-> Forecast!Product([k \in 1 .. n |-> Term(qs, xs, p, k)])]

(* A path seen through one sample more, and what it was before.            *)
Extended(f, n, b) == [k \in 1 .. n + 1 |-> IF k = n + 1 THEN b ELSE f[k]]
Longer(n, p, c, v) == <<Extended(p[1], n, c), Extended(p[2], n, v)>>
Shorter(n, r) == <<[k \in 1 .. n |-> r[1][k]], [k \in 1 .. n |-> r[2][k]]>>

(* The paths that lead into A when the next sample measures c and v.       *)
Before(n, A, c, v) == {p \in Pairs(n) : Longer(n, p, c, v) \in A}

LEMMA PairFacts ==
    ASSUME NEW n \in Nat, NEW p \in Pairs(n)
    PROVE  /\ p[1] \in [1 .. n -> BOOLEAN] /\ p[2] \in [1 .. n -> BOOLEAN]
           /\ p = <<p[1], p[2]>>
BY DEF Pairs, PathsOf

LEMMA ExtendedFacts ==
    ASSUME NEW n \in Nat, NEW f \in [1 .. n -> BOOLEAN], NEW b \in BOOLEAN
    PROVE  /\ Extended(f, n, b) \in [1 .. n + 1 -> BOOLEAN]
           /\ Extended(f, n, b)[n + 1] = b
           /\ \A k \in 1 .. n : Extended(f, n, b)[k] = f[k]
BY DEF Extended

LEMMA LongerFacts ==
    ASSUME NEW n \in Nat, NEW p \in Pairs(n), NEW c \in BOOLEAN, NEW v \in BOOLEAN
    PROVE  /\ Longer(n, p, c, v) \in Pairs(n + 1)
           /\ Longer(n, p, c, v)[1][n + 1] = c /\ Longer(n, p, c, v)[2][n + 1] = v
           /\ \A k \in 1 .. n : /\ Longer(n, p, c, v)[1][k] = p[1][k]
                                /\ Longer(n, p, c, v)[2][k] = p[2][k]
<1>1. p[1] \in [1 .. n -> BOOLEAN] /\ p[2] \in [1 .. n -> BOOLEAN]
    BY PairFacts
<1>2. Longer(n, p, c, v)[1] = Extended(p[1], n, c) /\ Longer(n, p, c, v)[2] = Extended(p[2], n, v)
    BY DEF Longer
<1>3. /\ Extended(p[1], n, c) \in [1 .. n + 1 -> BOOLEAN]
      /\ Extended(p[2], n, v) \in [1 .. n + 1 -> BOOLEAN]
    BY <1>1, ExtendedFacts
<1>4. Longer(n, p, c, v) \in Pairs(n + 1)
    BY <1>3 DEF Longer, Pairs, PathsOf
<1>5. /\ Extended(p[1], n, c)[n + 1] = c
      /\ \A k \in 1 .. n : Extended(p[1], n, c)[k] = p[1][k]
    BY DEF Extended
<1>6. /\ Extended(p[2], n, v)[n + 1] = v
      /\ \A k \in 1 .. n : Extended(p[2], n, v)[k] = p[2][k]
    BY DEF Extended
<1> QED
    BY <1>2, <1>4, <1>5, <1>6

LEMMA ShorterFacts ==
    ASSUME NEW n \in Nat, NEW r \in Pairs(n + 1)
    PROVE  /\ Shorter(n, r) \in Pairs(n)
           /\ r[1][n + 1] \in BOOLEAN /\ r[2][n + 1] \in BOOLEAN
           /\ r = Longer(n, Shorter(n, r), r[1][n + 1], r[2][n + 1])
<1>1. r[1] \in [1 .. n + 1 -> BOOLEAN] /\ r[2] \in [1 .. n + 1 -> BOOLEAN]
      /\ r = <<r[1], r[2]>>
    BY PairFacts
<1>2. Shorter(n, r) \in Pairs(n)
    <2>1. ASSUME NEW f \in [1 .. n + 1 -> BOOLEAN]
          PROVE  [k \in 1 .. n |-> f[k]] \in PathsOf(n)
        <3>1. \A k \in 1 .. n : k \in 1 .. n + 1
            OBVIOUS
        <3> QED
            BY <3>1 DEF PathsOf
    <2> QED
        BY <1>1, <2>1 DEF Shorter, Pairs
<1>3. ASSUME NEW f \in [1 .. n + 1 -> BOOLEAN]
      PROVE  f = Extended([k \in 1 .. n |-> f[k]], n, f[n + 1])
    BY DEF Extended
<1>4. /\ Shorter(n, r)[1] = [k \in 1 .. n |-> r[1][k]]
      /\ Shorter(n, r)[2] = [k \in 1 .. n |-> r[2][k]]
    BY DEF Shorter
<1>5. r[1] = Extended(Shorter(n, r)[1], n, r[1][n + 1])
      /\ r[2] = Extended(Shorter(n, r)[2], n, r[2][n + 1])
    BY <1>1, <1>3, <1>4
<1>6. r = Longer(n, Shorter(n, r), r[1][n + 1], r[2][n + 1])
    BY <1>1, <1>5 DEF Longer
<1> QED
    BY <1>1, <1>2, <1>6

LEMMA LongerDistinct ==
    ASSUME NEW n \in Nat, NEW p \in Pairs(n), NEW r \in Pairs(n),
           NEW c \in BOOLEAN, NEW v \in BOOLEAN, Longer(n, p, c, v) = Longer(n, r, c, v)
    PROVE  p = r
<1>1. \A k \in 1 .. n : p[1][k] = r[1][k] /\ p[2][k] = r[2][k]
    BY LongerFacts
<1>2. /\ p[1] \in [1 .. n -> BOOLEAN] /\ p[2] \in [1 .. n -> BOOLEAN] /\ p = <<p[1], p[2]>>
      /\ r[1] \in [1 .. n -> BOOLEAN] /\ r[2] \in [1 .. n -> BOOLEAN] /\ r = <<r[1], r[2]>>
    BY PairFacts
<1>3. ASSUME NEW f \in [1 .. n -> BOOLEAN], NEW g \in [1 .. n -> BOOLEAN],
             \A k \in 1 .. n : f[k] = g[k]
      PROVE  f = g
    BY <1>3
<1>4. p[1] = r[1] /\ p[2] = r[2]
    BY <1>1, <1>2, <1>3
<1> QED
    BY <1>2, <1>4

Extension(n, c, v) == [p \in Pairs(n) |-> Longer(n, p, c, v)]
Reached(n, A, c, v) == {Extension(n, c, v)[p] : p \in Before(n, A, c, v)}

(* Every path of one sample more is reached in exactly one of four ways.   *)
LEMMA FourWays ==
    ASSUME NEW n \in Nat, NEW A \in SUBSET Pairs(n + 1)
    PROVE  /\ A = (Reached(n, A, TRUE, TRUE) \cup Reached(n, A, TRUE, FALSE))
                  \cup (Reached(n, A, FALSE, TRUE) \cup Reached(n, A, FALSE, FALSE))
           /\ Reached(n, A, TRUE, TRUE) \cap Reached(n, A, TRUE, FALSE) = {}
           /\ Reached(n, A, FALSE, TRUE) \cap Reached(n, A, FALSE, FALSE) = {}
           /\ (Reached(n, A, TRUE, TRUE) \cup Reached(n, A, TRUE, FALSE))
              \cap (Reached(n, A, FALSE, TRUE) \cup Reached(n, A, FALSE, FALSE)) = {}
<1>1. ASSUME NEW c \in BOOLEAN, NEW v \in BOOLEAN, NEW r \in Reached(n, A, c, v)
      PROVE  r \in A /\ r[1][n + 1] = c /\ r[2][n + 1] = v
    <2>1. PICK p \in Before(n, A, c, v) : r = Extension(n, c, v)[p]
        BY DEF Reached
    <2>2. p \in Pairs(n) /\ Longer(n, p, c, v) \in A
        BY DEF Before
    <2>3. r = Longer(n, p, c, v)
        BY <2>1, <2>2 DEF Extension
    <2> QED
        BY <2>2, <2>3, LongerFacts
<1>2. ASSUME NEW r \in A PROVE r \in Reached(n, A, r[1][n + 1], r[2][n + 1])
    <2>1. /\ Shorter(n, r) \in Pairs(n)
          /\ r = Longer(n, Shorter(n, r), r[1][n + 1], r[2][n + 1])
        BY ShorterFacts
    <2>2. Shorter(n, r) \in Before(n, A, r[1][n + 1], r[2][n + 1])
        BY <2>1 DEF Before
    <2>3. r = Extension(n, r[1][n + 1], r[2][n + 1])[Shorter(n, r)]
        BY <2>1 DEF Extension
    <2> QED
        BY <2>2, <2>3 DEF Reached
<1>3. ASSUME NEW r \in A PROVE r[1][n + 1] \in BOOLEAN /\ r[2][n + 1] \in BOOLEAN
    BY ShorterFacts
<1>4. A = (Reached(n, A, TRUE, TRUE) \cup Reached(n, A, TRUE, FALSE))
          \cup (Reached(n, A, FALSE, TRUE) \cup Reached(n, A, FALSE, FALSE))
    <2>1. ASSUME NEW r \in A
          PROVE  \/ r \in Reached(n, A, TRUE, TRUE) \/ r \in Reached(n, A, TRUE, FALSE)
                 \/ r \in Reached(n, A, FALSE, TRUE) \/ r \in Reached(n, A, FALSE, FALSE)
        <3>1. PICK c \in BOOLEAN : r[1][n + 1] = c
            BY <1>3
        <3>2. PICK v \in BOOLEAN : r[2][n + 1] = v
            BY <1>3
        <3>3. r \in Reached(n, A, c, v)
            BY <1>2, <3>1, <3>2
        <3>4. (c = TRUE \/ c = FALSE) /\ (v = TRUE \/ v = FALSE)
            OBVIOUS
        <3> QED
            BY <3>3, <3>4
    <2> QED
        BY <1>1, <2>1
<1> QED
    BY <1>1, <1>4

LEMMA PairsFinite == \A n \in Nat : IsFiniteSet(Pairs(n))
<1> DEFINE T == {n \in Nat : IsFiniteSet(Pairs(n))}
<1>1. 0 \in T
    <2>1. ASSUME NEW p \in Pairs(0), NEW r \in Pairs(0) PROVE p = r
        <3>1. /\ p[1] \in [1 .. 0 -> BOOLEAN] /\ p[2] \in [1 .. 0 -> BOOLEAN] /\ p = <<p[1], p[2]>>
              /\ r[1] \in [1 .. 0 -> BOOLEAN] /\ r[2] \in [1 .. 0 -> BOOLEAN] /\ r = <<r[1], r[2]>>
            BY PairFacts
        <3>2. p[1] = r[1] /\ p[2] = r[2]
            BY <3>1
        <3> QED
            BY <3>1, <3>2
    <2>2. CASE Pairs(0) = {}
        BY <2>2, FS_EmptySet
    <2>3. CASE Pairs(0) # {}
        <3>1. PICK p \in Pairs(0) : TRUE
            BY <2>3
        <3>2. Pairs(0) = {p}
            BY <2>1, <3>1
        <3> QED
            BY <3>2, FS_Singleton
    <2> QED
        BY <2>2, <2>3
<1>2. ASSUME NEW n \in Nat, n \in T PROVE n + 1 \in T
    <2>1. ASSUME NEW c \in BOOLEAN, NEW v \in BOOLEAN
          PROVE  IsFiniteSet(Reached(n, Pairs(n + 1), c, v))
        <3>1. Before(n, Pairs(n + 1), c, v) \in SUBSET Pairs(n)
            BY DEF Before
        <3>2. IsFiniteSet(Before(n, Pairs(n + 1), c, v))
            BY <1>2, <3>1, FS_Subset
        <3> DEFINE f == [p \in Before(n, Pairs(n + 1), c, v) |-> Extension(n, c, v)[p]]
        <3>4. \A r \in Reached(n, Pairs(n + 1), c, v) :
                  \E p \in Before(n, Pairs(n + 1), c, v) : f[p] = r
            BY DEF Reached
        <3>5. f \in Surjection(Before(n, Pairs(n + 1), c, v), Reached(n, Pairs(n + 1), c, v))
            BY <3>4 DEF Reached, Surjection
        <3> QED
            BY <3>2, <3>5, FS_Surjection
    <2> DEFINE A == Pairs(n + 1)
    <2>2. IsFiniteSet((Reached(n, Pairs(n + 1), TRUE, TRUE) \cup Reached(n, Pairs(n + 1), TRUE, FALSE))
                      \cup (Reached(n, Pairs(n + 1), FALSE, TRUE) \cup Reached(n, Pairs(n + 1), FALSE, FALSE)))
        BY <2>1, FS_Union
    <2>3. A \in SUBSET Pairs(n + 1)
        OBVIOUS
    <2>4. A = (Reached(n, A, TRUE, TRUE) \cup Reached(n, A, TRUE, FALSE))
              \cup (Reached(n, A, FALSE, TRUE) \cup Reached(n, A, FALSE, FALSE))
        BY <2>3, FourWays
    <2>5. IsFiniteSet(A)
        BY <2>2, <2>4
    <2> QED
        BY <2>5
<1> HIDE DEF T
<1>3. \A n \in Nat : n \in T
    BY <1>1, <1>2, NaturalSet
<1> QED
    BY <1>3 DEF T

(* The parts of n samples, and those of one sample more.                   *)
PartsOf(qs, xs, n) == qs \in [1 .. n -> Int] /\ xs \in [1 .. n -> Int]
Grown(fs, gs, n) == \A k \in 1 .. n : fs[k] = gs[k]

(* The instance's operators on finite sets are the library's.              *)
LEMMA SameSets ==
    ASSUME NEW S
    PROVE  (Forecast!IsFiniteSet(S) <=> IsFiniteSet(S)) /\ Forecast!Cardinality(S) = Cardinality(S)
<1>1. Forecast!IsFiniteSet(S) <=> IsFiniteSet(S)
    BY DEF Forecast!IsFiniteSet, IsFiniteSet
<1>2. Forecast!Cardinality(S) = Cardinality(S)
    BY DEF Forecast!Cardinality, Cardinality
<1> QED
    BY <1>1, <1>2

LEMMA DrawFacts ==
    /\ IsFiniteSet(Draws) /\ Draws \subseteq Int /\ Draws # {}
    /\ Cardinality(Draws) \in Nat /\ SURE = Cardinality(Draws) * Cardinality(Draws)
    /\ IsFiniteSet(Draws \X Draws) /\ Cardinality(Draws \X Draws) = SURE
<1>1. /\ IsFiniteSet(Draws) /\ Draws \subseteq Int /\ Draws # {}
      /\ SURE = Cardinality(Draws) * Cardinality(Draws)
    BY ForecastParameters, SameSets DEF Forecast!ForecastAssumption
<1>2. Cardinality(Draws) \in Nat
    BY <1>1, FS_CardinalityType
<1>3. IsFiniteSet(Draws \X Draws)
      /\ Cardinality(Draws \X Draws) = Cardinality(Draws) * Cardinality(Draws)
    BY <1>1, FS_Product
<1> QED
    BY <1>1, <1>2, <1>3

LEMMA SureIsInt == SURE \in Int /\ Forecast!SurePair \in Int
<1>1. SURE \in Int
    BY DrawFacts
<1> QED
    BY <1>1 DEF Forecast!SurePair

LEMMA FactorIsInt ==
    ASSUME NEW q \in Int, NEW x \in Int, NEW c, NEW v
    PROVE  Factor(q, x, c, v) \in Int
<1> DEFINE a == IF c THEN q ELSE Forecast!SurePair - q
           b == IF v THEN x ELSE SURE - x
<1>1. a \in Int /\ b \in Int
    BY SureIsInt
<1>2. Factor(q, x, c, v) = a * b
    BY DEF Factor
<1> HIDE DEF a, b
<1> QED
    BY <1>1, <1>2

(* The law of a path: the product of its terms, so an integer; one sample  *)
(* more is one factor more.                                                *)
LEMMA LawIsInt ==
    ASSUME NEW n \in Nat, NEW qs, NEW xs, PartsOf(qs, xs, n), NEW p \in Pairs(n)
    PROVE  Law(qs, xs, n)[p] \in Int
<1> DEFINE f == [k \in 1 .. n |-> Term(qs, xs, p, k)]
<1>1. Law(qs, xs, n)[p] = Forecast!Product(f)
    BY DEF Law
<1>2. \A k \in 1 .. n : f[k] \in Int
    BY FactorIsInt DEF Term, PartsOf
<1>3. DOMAIN f = 1 .. n /\ IsFiniteSet(1 .. n)
    BY FS_Interval
<1> HIDE DEF f
<1>4. Ints(f, 1 .. n)
    BY <1>2 DEF Ints
<1>5. PICK it : Folds(it, Multiplying, 1, f, 1 .. n) /\ it[1 .. n] = Forecast!Product(f)
    BY <1>3, <1>4, ProductSolves
<1>6. \A s \in SUBSET (1 .. n) : it[s] \in Int
    BY <1>3, <1>4, <1>5, MultiplyingCommutes, FoldTypes
<1>7. it[1 .. n] \in Int
    BY <1>6
<1> QED
    BY <1>1, <1>5, <1>7

LEMMA LawExtends ==
    ASSUME NEW n \in Nat, NEW qs, NEW xs, PartsOf(qs, xs, n),
           NEW rs, NEW ys, PartsOf(rs, ys, n + 1), Grown(rs, qs, n), Grown(ys, xs, n),
           NEW p \in Pairs(n), NEW c \in BOOLEAN, NEW v \in BOOLEAN
    PROVE  Law(rs, ys, n + 1)[Longer(n, p, c, v)]
               = Factor(rs[n + 1], ys[n + 1], c, v) * Law(qs, xs, n)[p]
<1> DEFINE r == Longer(n, p, c, v)
           f == [k \in 1 .. n + 1 |-> Term(rs, ys, r, k)]
           g == [k \in 1 .. n |-> Term(qs, xs, p, k)]
<1>1. r \in Pairs(n + 1) /\ r[1][n + 1] = c /\ r[2][n + 1] = v
      /\ \A k \in 1 .. n : r[1][k] = p[1][k] /\ r[2][k] = p[2][k]
    BY LongerFacts
<1>2. Law(rs, ys, n + 1)[r] = Forecast!Product(f)
    BY <1>1 DEF Law
<1>3. Law(qs, xs, n)[p] = Forecast!Product(g)
    BY DEF Law
<1>4. f[n + 1] = Factor(rs[n + 1], ys[n + 1], c, v)
    BY <1>1 DEF Term
<1>5. \A k \in 1 .. n : g[k] = f[k]
    BY <1>1 DEF Term, Grown
<1>6. \A k \in 1 .. n + 1 : f[k] \in Int
    BY FactorIsInt DEF Term, PartsOf
<1>7. /\ DOMAIN f = 1 .. n + 1 /\ DOMAIN g = (1 .. n + 1) \ {n + 1}
      /\ n + 1 \in 1 .. n + 1 /\ (1 .. n + 1) \ {n + 1} = 1 .. n
    OBVIOUS
<1>8. IsFiniteSet(1 .. n + 1)
    BY FS_Interval
<1> HIDE DEF f, g, r
<1>9. Ints(f, 1 .. n + 1)
    BY <1>6 DEF Ints
<1>10. Forecast!Product(f) = f[n + 1] * Forecast!Product(g)
    <2> DEFINE S == 1 .. n + 1
               y == n + 1
    <2>1. /\ IsFiniteSet(S) /\ S = DOMAIN f /\ Ints(f, S) /\ y \in S /\ DOMAIN g = S \ {y}
          /\ \A k \in S \ {y} : g[k] = f[k]
        BY <1>5, <1>7, <1>8, <1>9
    <2> HIDE DEF S, y
    <2>2. Forecast!Product(f) = f[y] * Forecast!Product(g)
        BY <2>1, ProductTakesOut
    <2> QED
        BY <2>2 DEF y
<1>11. Law(rs, ys, n + 1)[r] = Factor(rs[n + 1], ys[n + 1], c, v) * Law(qs, xs, n)[p]
    BY <1>2, <1>3, <1>4, <1>10
<1> QED
    BY <1>11 DEF r

(* What one of the four ways contributes to the sum over A.                *)
LEMMA SumOfOneWay ==
    ASSUME NEW n \in Nat, NEW qs, NEW xs, PartsOf(qs, xs, n),
           NEW rs, NEW ys, PartsOf(rs, ys, n + 1), Grown(rs, qs, n), Grown(ys, xs, n),
           NEW A \in SUBSET Pairs(n + 1), NEW c \in BOOLEAN, NEW v \in BOOLEAN
    PROVE  /\ IsFiniteSet(Reached(n, A, c, v))
           /\ Ints(Law(rs, ys, n + 1), Reached(n, A, c, v))
           /\ SumOn(Law(rs, ys, n + 1), Reached(n, A, c, v))
                  = Factor(rs[n + 1], ys[n + 1], c, v)
                    * SumOn(Law(qs, xs, n), Before(n, A, c, v))
<1> DEFINE B == Before(n, A, c, v)
           w == Factor(rs[n + 1], ys[n + 1], c, v)
           f == Law(qs, xs, n)
           g == Law(rs, ys, n + 1)
           e == Extension(n, c, v)
<1>1. B \in SUBSET Pairs(n)
    BY DEF Before
<1>2. IsFiniteSet(B)
    BY <1>1, PairsFinite, FS_Subset
<1>3. Ints(f, B)
    BY <1>1, LawIsInt DEF Ints
<1>4. w \in Int
    BY FactorIsInt DEF PartsOf
<1>5. \A p \in Pairs(n) : e[p] = Longer(n, p, c, v)
    BY DEF Extension
<1>6. Injects(e, B)
    BY <1>1, <1>5, LongerDistinct DEF Injects
<1>7. Scales(g, f, e, w, B)
    BY <1>1, <1>5, LawExtends DEF Scales
<1>8. Reached(n, A, c, v) = {e[x] : x \in B}
    BY DEF Reached
<1> HIDE DEF B, w, f, g, e
<1>9. /\ IsFiniteSet({e[x] : x \in B}) /\ Ints(g, {e[x] : x \in B})
      /\ SumOn(g, {e[x] : x \in B}) = w * SumOn(f, B)
    BY <1>2, <1>3, <1>4, <1>6, <1>7, SumOfImage
<1> QED
    BY <1>8, <1>9 DEF B, w, f, g, e

Split(n, qs, xs, rs, ys, A) ==
    LET part(c, v) == Factor(rs[n + 1], ys[n + 1], c, v)
                      * SumOn(Law(qs, xs, n), Before(n, A, c, v)) IN
    SumOn(Law(rs, ys, n + 1), A)
        = (part(TRUE, TRUE) + part(TRUE, FALSE)) + (part(FALSE, TRUE) + part(FALSE, FALSE))

LEMMA SumBySample ==
    ASSUME NEW n \in Nat, NEW qs, NEW xs, PartsOf(qs, xs, n),
           NEW rs, NEW ys, PartsOf(rs, ys, n + 1), Grown(rs, qs, n), Grown(ys, xs, n),
           NEW A \in SUBSET Pairs(n + 1)
    PROVE  Split(n, qs, xs, rs, ys, A)
<1> DEFINE g == Law(rs, ys, n + 1)
           R(c, v) == Reached(n, A, c, v)
           q == rs[n + 1]
           x == ys[n + 1]
<1>1. ASSUME NEW c \in BOOLEAN, NEW v \in BOOLEAN
      PROVE  /\ IsFiniteSet(R(c, v)) /\ Ints(g, R(c, v))
             /\ SumOn(g, R(c, v)) = Factor(q, x, c, v) * SumOn(Law(qs, xs, n), Before(n, A, c, v))
    BY SumOfOneWay
<1>2. /\ A = (R(TRUE, TRUE) \cup R(TRUE, FALSE)) \cup (R(FALSE, TRUE) \cup R(FALSE, FALSE))
      /\ R(TRUE, TRUE) \cap R(TRUE, FALSE) = {}
      /\ R(FALSE, TRUE) \cap R(FALSE, FALSE) = {}
      /\ (R(TRUE, TRUE) \cup R(TRUE, FALSE)) \cap (R(FALSE, TRUE) \cup R(FALSE, FALSE)) = {}
    BY FourWays
<1> HIDE DEF g, R, q, x
<1>3. ASSUME NEW c \in BOOLEAN
      PROVE  /\ IsFiniteSet(R(c, TRUE) \cup R(c, FALSE))
             /\ Ints(g, R(c, TRUE) \cup R(c, FALSE))
    <2>1. IsFiniteSet(R(c, TRUE)) /\ IsFiniteSet(R(c, FALSE))
          /\ Ints(g, R(c, TRUE)) /\ Ints(g, R(c, FALSE))
        BY <1>1
    <2> QED
        BY <2>1, FS_Union DEF Ints
<1>4. SumOn(g, R(TRUE, TRUE) \cup R(TRUE, FALSE))
          = SumOn(g, R(TRUE, TRUE)) + SumOn(g, R(TRUE, FALSE))
    <2>1. IsFiniteSet(R(TRUE, TRUE)) /\ IsFiniteSet(R(TRUE, FALSE))
          /\ Ints(g, R(TRUE, TRUE)) /\ Ints(g, R(TRUE, FALSE))
        BY <1>1
    <2> QED
        BY <1>2, <2>1, SumOfUnion
<1>5. SumOn(g, R(FALSE, TRUE) \cup R(FALSE, FALSE))
          = SumOn(g, R(FALSE, TRUE)) + SumOn(g, R(FALSE, FALSE))
    <2>1. IsFiniteSet(R(FALSE, TRUE)) /\ IsFiniteSet(R(FALSE, FALSE))
          /\ Ints(g, R(FALSE, TRUE)) /\ Ints(g, R(FALSE, FALSE))
        BY <1>1
    <2> QED
        BY <1>2, <2>1, SumOfUnion
<1>6. SumOn(g, A) = SumOn(g, R(TRUE, TRUE) \cup R(TRUE, FALSE))
                    + SumOn(g, R(FALSE, TRUE) \cup R(FALSE, FALSE))
    <2> DEFINE U == R(TRUE, TRUE) \cup R(TRUE, FALSE)
               V == R(FALSE, TRUE) \cup R(FALSE, FALSE)
    <2>1. IsFiniteSet(U) /\ IsFiniteSet(V) /\ Ints(g, U) /\ Ints(g, V)
        BY <1>3
    <2>2. A = U \cup V /\ U \cap V = {}
        BY <1>2
    <2> HIDE DEF U, V
    <2>3. SumOn(g, A) = SumOn(g, U) + SumOn(g, V)
        BY <2>1, <2>2, SumOfUnion
    <2> QED
        BY <2>3 DEF U, V
<1>7. /\ SumOn(g, R(TRUE, TRUE)) = Factor(q, x, TRUE, TRUE) * SumOn(Law(qs, xs, n), Before(n, A, TRUE, TRUE))
      /\ SumOn(g, R(TRUE, FALSE)) = Factor(q, x, TRUE, FALSE) * SumOn(Law(qs, xs, n), Before(n, A, TRUE, FALSE))
      /\ SumOn(g, R(FALSE, TRUE)) = Factor(q, x, FALSE, TRUE) * SumOn(Law(qs, xs, n), Before(n, A, FALSE, TRUE))
      /\ SumOn(g, R(FALSE, FALSE)) = Factor(q, x, FALSE, FALSE) * SumOn(Law(qs, xs, n), Before(n, A, FALSE, FALSE))
    BY <1>1
<1>8. SumOn(g, A) = (SumOn(g, R(TRUE, TRUE)) + SumOn(g, R(TRUE, FALSE)))
                    + (SumOn(g, R(FALSE, TRUE)) + SumOn(g, R(FALSE, FALSE)))
    BY <1>4, <1>5, <1>6
<1>9. SumOn(Law(rs, ys, n + 1), A) = SumOn(g, A)
    BY DEF g
<1> QED
    BY <1>7, <1>8, <1>9 DEF Split, q, x

(* The sum over a part of the paths is an integer.                         *)
LEMMA LawSumIsInt ==
    ASSUME NEW n \in Nat, NEW qs, NEW xs, PartsOf(qs, xs, n), NEW A \in SUBSET Pairs(n)
    PROVE  /\ IsFiniteSet(A) /\ Ints(Law(qs, xs, n), A)
           /\ SumOn(Law(qs, xs, n), A) \in Int
<1>1. IsFiniteSet(A)
    BY PairsFinite, FS_Subset
<1>2. Ints(Law(qs, xs, n), A)
    BY LawIsInt DEF Ints
<1> QED
    BY <1>1, <1>2, SumIsInt

(* Paths without a lock or a violation, by how many candidates they end    *)
(* in; and paths that lock before anything else ends them.                 *)
Ends(p, k) == Forecast!LockAt(p[1], k) \/ p[2][k]

Held(n) == {p \in Pairs(n) : \A k \in 1 .. n : ~Ends(p, k)}

EndsIn(p, n, m) ==
    /\ m <= n
    /\ \A j \in n - m + 1 .. n : p[1][j]
    /\ m < n => ~p[1][n - m]

Streaked(m, n) == {p \in Held(n) : EndsIn(p, n, m)}

FiresAt(p, k) ==
    /\ Forecast!LockAt(p[1], k) /\ ~p[2][k]
    /\ \A j \in 1 .. k - 1 : ~Ends(p, j)

Fired(n) == {p \in Pairs(n) : \E k \in 1 .. n : FiresAt(p, k)}

LEMMA StreakLength == consecutive_samples \in Nat /\ consecutive_samples >= 1
BY ForecastParameters DEF Forecast!ForecastAssumption

(* Another sample changes nothing of what the earlier ones decided.        *)
LEMMA EarlierAsBefore ==
    ASSUME NEW n \in Nat, NEW p \in Pairs(n), NEW c \in BOOLEAN, NEW v \in BOOLEAN
    PROVE  /\ \A k \in 1 .. n : Ends(Longer(n, p, c, v), k) <=> Ends(p, k)
           /\ \A k \in 1 .. n : FiresAt(Longer(n, p, c, v), k) <=> FiresAt(p, k)
<1> DEFINE r == Longer(n, p, c, v)
<1>1. \A k \in 1 .. n : r[1][k] = p[1][k] /\ r[2][k] = p[2][k]
    BY LongerFacts
<1>2. ASSUME NEW k \in 1 .. n PROVE Forecast!LockAt(r[1], k) <=> Forecast!LockAt(p[1], k)
    <2>1. k >= consecutive_samples =>
              \A j \in k - consecutive_samples + 1 .. k : j \in 1 .. n
        BY StreakLength
    <2> HIDE DEF r
    <2> QED
        BY <1>1, <2>1 DEF Forecast!LockAt
<1> HIDE DEF r
<1>3. \A k \in 1 .. n : Ends(r, k) <=> Ends(p, k)
    BY <1>1, <1>2 DEF Ends
<1>4. ASSUME NEW k \in 1 .. n PROVE FiresAt(r, k) <=> FiresAt(p, k)
    <2>1. \A j \in 1 .. k - 1 : j \in 1 .. n
        OBVIOUS
    <2> QED
        BY <1>1, <1>2, <1>3, <2>1 DEF FiresAt
<1> QED
    BY <1>3, <1>4 DEF r

(* A held path locks now exactly when it was one candidate short.          *)
LEMMA LocksNow ==
    ASSUME NEW n \in Nat, NEW p \in Held(n), NEW c \in BOOLEAN, NEW v \in BOOLEAN
    PROVE  Forecast!LockAt(Longer(n, p, c, v)[1], n + 1)
               <=> c /\ p \in Streaked(consecutive_samples - 1, n)
<1> DEFINE r == Longer(n, p, c, v)[1]
           L == consecutive_samples
<1>1. p \in Pairs(n) /\ \A k \in 1 .. n : ~Forecast!LockAt(p[1], k)
    BY DEF Held, Ends
<1>2. r[n + 1] = c /\ \A k \in 1 .. n : r[k] = p[1][k]
    BY <1>1, LongerFacts
<1>3. L \in Nat /\ L >= 1
    BY StreakLength
<1> HIDE DEF r, L
<1>4. ASSUME c, EndsIn(p, n, L - 1) PROVE n + 1 >= L /\ \A j \in (n + 1) - L + 1 .. n + 1 : r[j]
    <2>1. L - 1 <= n /\ \A j \in n - (L - 1) + 1 .. n : p[1][j]
        BY <1>4 DEF EndsIn
    <2>2. ASSUME NEW j \in (n + 1) - L + 1 .. n + 1 PROVE r[j]
        <3>1. CASE j = n + 1
            BY <1>2, <1>4, <3>1
        <3>2. CASE j # n + 1
            <4>1. j \in n - (L - 1) + 1 .. n /\ j \in 1 .. n
                BY <1>3, <2>1, <3>2
            <4> QED
                BY <1>2, <2>1, <4>1
        <3> QED
            BY <3>1, <3>2
    <2> QED
        BY <1>3, <2>1, <2>2
<1>5. ASSUME n + 1 >= L, \A j \in (n + 1) - L + 1 .. n + 1 : r[j]
      PROVE  c /\ EndsIn(p, n, L - 1)
    <2>1. n + 1 \in (n + 1) - L + 1 .. n + 1
        BY <1>3
    <2>2. c
        BY <1>2, <1>5, <2>1
    <2>3. ASSUME NEW j \in n - (L - 1) + 1 .. n PROVE p[1][j]
        <3>1. j \in (n + 1) - L + 1 .. n + 1 /\ j \in 1 .. n
            BY <1>3, <1>5
        <3> QED
            BY <1>2, <1>5, <3>1
    <2>4. ASSUME L - 1 < n, p[1][n - (L - 1)] PROVE FALSE
        <3>1. n \in 1 .. n /\ n >= L
            BY <1>3, <2>4
        <3>2. ASSUME NEW j \in n - L + 1 .. n PROVE p[1][j]
            <4>1. CASE j = n - (L - 1)
                BY <2>4, <4>1
            <4>2. CASE j # n - (L - 1)
                <5>1. j \in n - (L - 1) + 1 .. n
                    BY <1>3, <4>2
                <5> QED
                    BY <2>3, <5>1
            <4> QED
                BY <4>1, <4>2
        <3>3. Forecast!LockAt(p[1], n)
            BY <3>1, <3>2 DEF Forecast!LockAt, L
        <3> QED
            BY <1>1, <3>1, <3>3
    <2> QED
        BY <1>3, <1>5, <2>2, <2>3, <2>4 DEF EndsIn
<1>6. Forecast!LockAt(r, n + 1) <=> n + 1 >= L /\ \A j \in (n + 1) - L + 1 .. n + 1 : r[j]
    BY DEF Forecast!LockAt, L
<1>7. p \in Streaked(L - 1, n) <=> EndsIn(p, n, L - 1)
    BY DEF Streaked
<1>8. Forecast!LockAt(r, n + 1) <=> c /\ p \in Streaked(L - 1, n)
    BY <1>4, <1>5, <1>6, <1>7
<1> QED
    BY <1>8 DEF r, L

(* How each kind of path comes about, one sample at a time.                *)
LEMMA BeforeHeld ==
    ASSUME NEW n \in Nat
    PROVE  /\ Before(n, Held(n + 1), TRUE, TRUE) = {}
           /\ Before(n, Held(n + 1), FALSE, TRUE) = {}
           /\ Before(n, Held(n + 1), TRUE, FALSE)
                  = Held(n) \ Streaked(consecutive_samples - 1, n)
           /\ Before(n, Held(n + 1), FALSE, FALSE) = Held(n)
<1>1. ASSUME NEW p \in Pairs(n), NEW c \in BOOLEAN, NEW v \in BOOLEAN
      PROVE  Longer(n, p, c, v) \in Held(n + 1)
                 <=> p \in Held(n) /\ ~v
                     /\ ~(c /\ p \in Streaked(consecutive_samples - 1, n))
    <2> DEFINE r == Longer(n, p, c, v)
    <2>1. r \in Pairs(n + 1) /\ r[2][n + 1] = v
        BY LongerFacts
    <2>2. \A k \in 1 .. n : Ends(r, k) <=> Ends(p, k)
        BY EarlierAsBefore
    <2>3. p \in Held(n) =>
              (Forecast!LockAt(r[1], n + 1)
                   <=> c /\ p \in Streaked(consecutive_samples - 1, n))
        BY LocksNow
    <2> HIDE DEF r
    <2>4. r \in Held(n + 1) <=> (\A k \in 1 .. n : ~Ends(r, k)) /\ ~Ends(r, n + 1)
        <3>1. 1 .. n + 1 = (1 .. n) \cup {n + 1}
            OBVIOUS
        <3> QED
            BY <2>1, <3>1 DEF Held
    <2>5. Ends(r, n + 1) <=> Forecast!LockAt(r[1], n + 1) \/ v
        BY <2>1 DEF Ends
    <2>6. p \in Held(n) <=> \A k \in 1 .. n : ~Ends(p, k)
        BY DEF Held
    <2>7. r \in Held(n + 1)
              <=> p \in Held(n) /\ ~v /\ ~(c /\ p \in Streaked(consecutive_samples - 1, n))
        BY <2>2, <2>3, <2>4, <2>5, <2>6
    <2> QED
        BY <2>7 DEF r
<1>2. Held(n) \subseteq Pairs(n)
    BY DEF Held
<1> QED
    BY <1>1, <1>2 DEF Before

LEMMA BeforeFired ==
    ASSUME NEW n \in Nat
    PROVE  /\ Before(n, Fired(n + 1), TRUE, TRUE) = Fired(n)
           /\ Before(n, Fired(n + 1), FALSE, TRUE) = Fired(n)
           /\ Before(n, Fired(n + 1), FALSE, FALSE) = Fired(n)
           /\ Before(n, Fired(n + 1), TRUE, FALSE)
                  = Fired(n) \cup Streaked(consecutive_samples - 1, n)
<1>1. ASSUME NEW p \in Pairs(n), NEW c \in BOOLEAN, NEW v \in BOOLEAN
      PROVE  Longer(n, p, c, v) \in Fired(n + 1)
                 <=> \/ p \in Fired(n)
                     \/ c /\ ~v /\ p \in Streaked(consecutive_samples - 1, n)
    <2> DEFINE r == Longer(n, p, c, v)
    <2>1. r \in Pairs(n + 1) /\ r[2][n + 1] = v
        BY LongerFacts
    <2>2. \A k \in 1 .. n : (Ends(r, k) <=> Ends(p, k)) /\ (FiresAt(r, k) <=> FiresAt(p, k))
        BY EarlierAsBefore
    <2>3. p \in Held(n) =>
              (Forecast!LockAt(r[1], n + 1)
                   <=> c /\ p \in Streaked(consecutive_samples - 1, n))
        BY LocksNow
    <2> HIDE DEF r
    <2>4. r \in Fired(n + 1) <=> (\E k \in 1 .. n : FiresAt(r, k)) \/ FiresAt(r, n + 1)
        <3>1. 1 .. n + 1 = (1 .. n) \cup {n + 1}
            OBVIOUS
        <3> QED
            BY <2>1, <3>1 DEF Fired
    <2>5. FiresAt(r, n + 1) <=> Forecast!LockAt(r[1], n + 1) /\ ~v /\ p \in Held(n)
        <3>1. (n + 1) - 1 = n
            OBVIOUS
        <3>2. p \in Held(n) <=> \A k \in 1 .. n : ~Ends(r, k)
            BY <2>2 DEF Held
        <3> QED
            BY <2>1, <3>1, <3>2 DEF FiresAt
    <2>6. p \in Fired(n) <=> \E k \in 1 .. n : FiresAt(r, k)
        BY <2>2 DEF Fired
    <2>7. p \in Streaked(consecutive_samples - 1, n) => p \in Held(n)
        BY DEF Streaked
    <2>8. r \in Fired(n + 1)
              <=> p \in Fired(n) \/ (c /\ ~v /\ p \in Streaked(consecutive_samples - 1, n))
        BY <2>3, <2>4, <2>5, <2>6, <2>7
    <2> QED
        BY <2>8 DEF r
<1>2. Fired(n) \subseteq Pairs(n) /\ Streaked(consecutive_samples - 1, n) \subseteq Pairs(n)
    BY DEF Fired, Streaked, Held
<1> QED
    BY <1>1, <1>2 DEF Before

(* A path that fired is none that is held.                                 *)
LEMMA FiredAreNotHeld == \A n \in Nat : Fired(n) \cap Held(n) = {}
<1> SUFFICES ASSUME NEW n \in Nat, NEW p \in Fired(n), p \in Held(n) PROVE FALSE
    OBVIOUS
<1>1. PICK k \in 1 .. n : FiresAt(p, k)
    BY DEF Fired
<1>2. Ends(p, k)
    BY <1>1 DEF FiresAt, Ends
<1> QED
    BY <1>2 DEF Held

LEMMA BeforeFresh ==
    ASSUME NEW n \in Nat
    PROVE  /\ Before(n, Streaked(0, n + 1), TRUE, TRUE) = {}
           /\ Before(n, Streaked(0, n + 1), FALSE, TRUE) = {}
           /\ Before(n, Streaked(0, n + 1), TRUE, FALSE) = {}
           /\ Before(n, Streaked(0, n + 1), FALSE, FALSE) = Held(n)
<1>1. ASSUME NEW p \in Pairs(n), NEW c \in BOOLEAN, NEW v \in BOOLEAN
      PROVE  EndsIn(Longer(n, p, c, v), n + 1, 0) <=> ~c
    <2>1. Longer(n, p, c, v)[1][n + 1] = c
        BY LongerFacts
    <2>2. (n + 1) - 0 = n + 1 /\ (n + 1) - 0 + 1 .. n + 1 = {} /\ 0 <= n + 1 /\ 0 < n + 1
        OBVIOUS
    <2> QED
        BY <2>1, <2>2 DEF EndsIn
<1>2. ASSUME NEW p \in Pairs(n), NEW c \in BOOLEAN, NEW v \in BOOLEAN
      PROVE  p \in Before(n, Streaked(0, n + 1), c, v)
                 <=> p \in Before(n, Held(n + 1), c, v) /\ ~c
    BY <1>1 DEF Before, Streaked
<1>3. \A c, v \in BOOLEAN : Before(n, Streaked(0, n + 1), c, v) \subseteq Pairs(n)
    BY DEF Before
<1>4. Held(n) \subseteq Pairs(n)
    BY DEF Held
<1> QED
    BY <1>2, <1>3, <1>4, BeforeHeld

LEMMA BeforeStreaked ==
    ASSUME NEW n \in Nat, NEW m \in 1 .. consecutive_samples - 1
    PROVE  /\ Before(n, Streaked(m, n + 1), TRUE, TRUE) = {}
           /\ Before(n, Streaked(m, n + 1), FALSE, TRUE) = {}
           /\ Before(n, Streaked(m, n + 1), FALSE, FALSE) = {}
           /\ Before(n, Streaked(m, n + 1), TRUE, FALSE) = Streaked(m - 1, n)
<1>0. m \in Nat /\ m >= 1 /\ m <= consecutive_samples - 1 /\ consecutive_samples \in Nat
    BY StreakLength
<1>1. ASSUME NEW p \in Pairs(n), NEW c \in BOOLEAN, NEW v \in BOOLEAN
      PROVE  EndsIn(Longer(n, p, c, v), n + 1, m) <=> c /\ EndsIn(p, n, m - 1)
    <2> DEFINE r == Longer(n, p, c, v)[1]
    <2>1. r[n + 1] = c /\ \A k \in 1 .. n : r[k] = p[1][k]
        <3>1. /\ Longer(n, p, c, v)[1][n + 1] = c
              /\ \A k \in 1 .. n : Longer(n, p, c, v)[1][k] = p[1][k]
            BY LongerFacts
        <3> QED
            BY <3>1
    <2> HIDE DEF r
    <2>2. ASSUME c, EndsIn(p, n, m - 1)
          PROVE  /\ m <= n + 1
                 /\ \A j \in (n + 1) - m + 1 .. n + 1 : r[j]
                 /\ m < n + 1 => ~r[(n + 1) - m]
        <3>1. m - 1 <= n /\ (\A j \in n - (m - 1) + 1 .. n : p[1][j])
              /\ (m - 1 < n => ~p[1][n - (m - 1)])
            BY <2>2 DEF EndsIn
        <3>2. ASSUME NEW j \in (n + 1) - m + 1 .. n + 1 PROVE r[j]
            <4>1. CASE j = n + 1
                BY <2>1, <2>2, <4>1
            <4>2. CASE j # n + 1
                <5>1. j \in n - (m - 1) + 1 .. n /\ j \in 1 .. n
                    BY <1>0, <3>1, <4>2
                <5> QED
                    BY <2>1, <3>1, <5>1
            <4> QED
                BY <4>1, <4>2
        <3>3. ASSUME m < n + 1 PROVE ~r[(n + 1) - m]
            <4>1. m - 1 < n /\ (n + 1) - m = n - (m - 1) /\ n - (m - 1) \in 1 .. n
                BY <1>0, <3>3
            <4> QED
                BY <2>1, <3>1, <4>1
        <3> QED
            BY <1>0, <3>1, <3>2, <3>3
    <2>3. ASSUME m <= n + 1, \A j \in (n + 1) - m + 1 .. n + 1 : r[j],
                 m < n + 1 => ~r[(n + 1) - m]
          PROVE  c /\ EndsIn(p, n, m - 1)
        <3>1. n + 1 \in (n + 1) - m + 1 .. n + 1
            BY <1>0
        <3>2. c
            BY <2>1, <2>3, <3>1
        <3>3. ASSUME NEW j \in n - (m - 1) + 1 .. n PROVE p[1][j]
            <4>1. j \in (n + 1) - m + 1 .. n + 1 /\ j \in 1 .. n
                BY <1>0, <2>3
            <4> QED
                BY <2>1, <2>3, <4>1
        <3>4. ASSUME m - 1 < n PROVE ~p[1][n - (m - 1)]
            <4>1. m < n + 1 /\ (n + 1) - m = n - (m - 1) /\ n - (m - 1) \in 1 .. n
                BY <1>0, <3>4
            <4> QED
                BY <2>1, <2>3, <4>1
        <3>5. m - 1 <= n
            BY <1>0, <2>3
        <3> QED
            BY <3>2, <3>3, <3>4, <3>5 DEF EndsIn
    <2>4. EndsIn(Longer(n, p, c, v), n + 1, m)
              <=> /\ m <= n + 1
                  /\ \A j \in (n + 1) - m + 1 .. n + 1 : r[j]
                  /\ m < n + 1 => ~r[(n + 1) - m]
        BY DEF EndsIn, r
    <2> QED
        BY <2>2, <2>3, <2>4
<1>2. ASSUME NEW p \in Held(n), EndsIn(p, n, m - 1)
      PROVE  p \notin Streaked(consecutive_samples - 1, n)
    <2>1. n - (m - 1) \in n - (consecutive_samples - 1) + 1 .. n
        BY <1>0
    <2>2. CASE m - 1 < n
        <3>1. ~p[1][n - (m - 1)]
            BY <1>2, <2>2 DEF EndsIn
        <3> QED
            BY <2>1, <3>1 DEF Streaked, EndsIn
    <2>3. CASE ~(m - 1 < n)
        <3>1. ~(consecutive_samples - 1 <= n)
            BY <1>0, <1>2, <2>3 DEF EndsIn
        <3> QED
            BY <3>1 DEF Streaked, EndsIn
    <2> QED
        BY <2>2, <2>3
<1>3. ASSUME NEW p \in Pairs(n), NEW c \in BOOLEAN, NEW v \in BOOLEAN
      PROVE  p \in Before(n, Streaked(m, n + 1), c, v)
                 <=> p \in Before(n, Held(n + 1), c, v) /\ c /\ EndsIn(p, n, m - 1)
    BY <1>1 DEF Before, Streaked
<1>4. \A c, v \in BOOLEAN : Before(n, Streaked(m, n + 1), c, v) \subseteq Pairs(n)
    BY DEF Before
<1>5. Held(n) \subseteq Pairs(n)
    BY DEF Held
<1>6. Streaked(m - 1, n) = {p \in Held(n) : EndsIn(p, n, m - 1)}
    BY DEF Streaked
<1> QED
    BY <1>2, <1>3, <1>4, <1>5, <1>6, BeforeHeld

(* One sample more: the parts of each kind of path.                        *)
LEMMA FactorsAre ==
    ASSUME NEW q \in Int, NEW x \in Int
    PROVE  /\ Factor(q, x, TRUE, TRUE) = q * x
           /\ Factor(q, x, TRUE, FALSE) = q * (SURE - x)
           /\ Factor(q, x, FALSE, TRUE) = (Forecast!SurePair - q) * x
           /\ Factor(q, x, FALSE, FALSE) = (Forecast!SurePair - q) * (SURE - x)
BY DEF Factor

(* The lemmas below share their hypotheses: the parts of the samples so    *)
(* far, and the same with one sample more, whose own parts are q and x.    *)
OneMore(n, qs, xs, rs, ys, q, x) ==
    /\ PartsOf(qs, xs, n) /\ PartsOf(rs, ys, n + 1) /\ Grown(rs, qs, n) /\ Grown(ys, xs, n)
    /\ q = rs[n + 1] /\ x = ys[n + 1]

LEMMA OneMoreIsInt ==
    ASSUME NEW n \in Nat, NEW qs, NEW xs, NEW rs, NEW ys, NEW q, NEW x,
           OneMore(n, qs, xs, rs, ys, q, x)
    PROVE  q \in Int /\ x \in Int /\ PartsOf(qs, xs, n)
BY DEF OneMore, PartsOf

(* What each of the four ways adds to the sum over A.                      *)
Adds(n, qs, xs, rs, ys, q, x, A) ==
    LET before(c, v) == SumOn(Law(qs, xs, n), Before(n, A, c, v)) IN
    SumOn(Law(rs, ys, n + 1), A)
        = (q * x * before(TRUE, TRUE) + q * (SURE - x) * before(TRUE, FALSE))
          + ((Forecast!SurePair - q) * x * before(FALSE, TRUE)
             + (Forecast!SurePair - q) * (SURE - x) * before(FALSE, FALSE))

LEMMA SumOneMore ==
    ASSUME NEW n \in Nat, NEW qs, NEW xs, NEW rs, NEW ys, NEW q, NEW x,
           OneMore(n, qs, xs, rs, ys, q, x), NEW A \in SUBSET Pairs(n + 1)
    PROVE  Adds(n, qs, xs, rs, ys, q, x, A)
<1>1. /\ PartsOf(qs, xs, n) /\ PartsOf(rs, ys, n + 1) /\ Grown(rs, qs, n) /\ Grown(ys, xs, n)
      /\ q = rs[n + 1] /\ x = ys[n + 1]
    BY DEF OneMore
<1>2. q \in Int /\ x \in Int
    BY OneMoreIsInt
<1>3. Split(n, qs, xs, rs, ys, A)
    BY <1>1, SumBySample
<1> QED
    BY <1>1, <1>2, <1>3, FactorsAre DEF Split, Adds

LEMMA Kinds ==
    ASSUME NEW n \in Nat
    PROVE  /\ Held(n) \in SUBSET Pairs(n) /\ Fired(n) \in SUBSET Pairs(n)
           /\ \A m : Streaked(m, n) \in SUBSET Held(n) /\ Streaked(m, n) \in SUBSET Pairs(n)
BY DEF Held, Fired, Streaked

LEMMA HeldGrow ==
    ASSUME NEW n \in Nat, NEW qs, NEW xs, NEW rs, NEW ys, NEW q, NEW x,
           OneMore(n, qs, xs, rs, ys, q, x),
           NEW h, h = SumOn(Law(qs, xs, n), Held(n)),
           NEW k, k = SumOn(Law(qs, xs, n), Streaked(consecutive_samples - 1, n))
    PROVE  SumOn(Law(rs, ys, n + 1), Held(n + 1)) = (SURE - x) * (Forecast!SurePair * h - q * k)
<1> DEFINE law == Law(qs, xs, n)
           K == Streaked(consecutive_samples - 1, n)
           H == Held(n)
<1>1. q \in Int /\ x \in Int /\ PartsOf(qs, xs, n) /\ SURE \in Int /\ Forecast!SurePair \in Int
    BY OneMoreIsInt, SureIsInt
<1>2. H \in SUBSET Pairs(n) /\ K \in SUBSET Pairs(n) /\ K \in SUBSET H /\ H \ K \in SUBSET Pairs(n)
    BY Kinds
<1>3. IsFiniteSet(H \ K) /\ IsFiniteSet(K) /\ Ints(law, H \ K) /\ Ints(law, K)
      /\ SumOn(law, H \ K) \in Int /\ SumOn(law, K) \in Int /\ SumOn(law, H) \in Int
    BY <1>1, <1>2, LawSumIsInt
<1> HIDE DEF law
<1>4. SumOn(law, H) = SumOn(law, H \ K) + SumOn(law, K)
    <2> HIDE DEF H, K
    <2> DEFINE B == H \ K
    <2>1. H = B \cup K /\ B \cap K = {}
        BY <1>2
    <2>2. IsFiniteSet(B) /\ IsFiniteSet(K) /\ Ints(law, B) /\ Ints(law, K)
        BY <1>3
    <2> HIDE DEF B
    <2>3. SumOn(law, H) = SumOn(law, B) + SumOn(law, K)
        BY <2>1, <2>2, SumOfUnion
    <2> QED
        BY <2>3 DEF B
<1>5. h = SumOn(law, H) /\ k = SumOn(law, K)
    BY DEF law
<1>6. PICK b \in Int : b = SumOn(law, H \ K)
    BY <1>3
<1>7. Held(n + 1) \in SUBSET Pairs(n + 1)
    BY Kinds
<1>8. SumOn(Law(rs, ys, n + 1), Held(n + 1))
          = (q * x * SumOn(law, {}) + q * (SURE - x) * SumOn(law, H \ K))
            + ((Forecast!SurePair - q) * x * SumOn(law, {})
               + (Forecast!SurePair - q) * (SURE - x) * SumOn(law, H))
    <2>1. Adds(n, qs, xs, rs, ys, q, x, Held(n + 1))
        BY <1>7, SumOneMore
    <2> QED
        BY <2>1, BeforeHeld DEF Adds, law
<1>9. SumOn(law, {}) = 0
    BY SumEmpty
<1> HIDE DEF H, K
<1>10. h \in Int /\ k \in Int /\ h = b + k
    BY <1>3, <1>4, <1>5, <1>6
<1>11. SumOn(Law(rs, ys, n + 1), Held(n + 1))
           = (q * x * 0 + q * (SURE - x) * b)
             + ((Forecast!SurePair - q) * x * 0 + (Forecast!SurePair - q) * (SURE - x) * h)
    BY <1>5, <1>6, <1>8, <1>9
<1>12. ASSUME NEW P \in Int, NEW S \in Int
       PROVE  (q * x * 0 + q * (S - x) * b) + ((P - q) * x * 0 + (P - q) * (S - x) * h)
                  = (S - x) * (P * h - q * k)
    BY <1>1, <1>10
<1> QED
    BY <1>1, <1>11, <1>12

LEMMA FiredGrow ==
    ASSUME NEW n \in Nat, NEW qs, NEW xs, NEW rs, NEW ys, NEW q, NEW x,
           OneMore(n, qs, xs, rs, ys, q, x),
           NEW f, f = SumOn(Law(qs, xs, n), Fired(n)),
           NEW k, k = SumOn(Law(qs, xs, n), Streaked(consecutive_samples - 1, n))
    PROVE  SumOn(Law(rs, ys, n + 1), Fired(n + 1))
               = f * Forecast!SurePair * SURE + k * q * (SURE - x)
<1> DEFINE law == Law(qs, xs, n)
           K == Streaked(consecutive_samples - 1, n)
           F == Fired(n)
<1>1. q \in Int /\ x \in Int /\ PartsOf(qs, xs, n) /\ SURE \in Int /\ Forecast!SurePair \in Int
    BY OneMoreIsInt, SureIsInt
<1>2. F \in SUBSET Pairs(n) /\ K \in SUBSET Pairs(n)
    BY Kinds
<1>3. IsFiniteSet(F) /\ IsFiniteSet(K) /\ Ints(law, F) /\ Ints(law, K)
      /\ SumOn(law, F) \in Int /\ SumOn(law, K) \in Int
    BY <1>1, <1>2, LawSumIsInt
<1> HIDE DEF law
<1>4. SumOn(law, F \cup K) = SumOn(law, F) + SumOn(law, K)
    <2>1. F \cap K = {}
        BY Kinds, FiredAreNotHeld
    <2> HIDE DEF F, K
    <2> QED
        BY <1>3, <2>1, SumOfUnion
<1>5. f = SumOn(law, F) /\ k = SumOn(law, K)
    BY DEF law
<1>6. Fired(n + 1) \in SUBSET Pairs(n + 1)
    BY Kinds
<1>7. SumOn(Law(rs, ys, n + 1), Fired(n + 1))
          = (q * x * SumOn(law, F) + q * (SURE - x) * SumOn(law, F \cup K))
            + ((Forecast!SurePair - q) * x * SumOn(law, F)
               + (Forecast!SurePair - q) * (SURE - x) * SumOn(law, F))
    <2>1. Adds(n, qs, xs, rs, ys, q, x, Fired(n + 1))
        BY <1>6, SumOneMore
    <2> QED
        BY <2>1, BeforeFired DEF Adds, law
<1> HIDE DEF F, K
<1>8. f \in Int /\ k \in Int
    BY <1>3, <1>5
<1>9. SumOn(Law(rs, ys, n + 1), Fired(n + 1))
          = (q * x * f + q * (SURE - x) * (f + k))
            + ((Forecast!SurePair - q) * x * f + (Forecast!SurePair - q) * (SURE - x) * f)
    BY <1>4, <1>5, <1>7
<1>10. ASSUME NEW P \in Int, NEW S \in Int
       PROVE  (q * x * f + q * (S - x) * (f + k)) + ((P - q) * x * f + (P - q) * (S - x) * f)
                  = f * P * S + k * q * (S - x)
    BY <1>1, <1>8
<1> QED
    BY <1>1, <1>9, <1>10

LEMMA FreshGrow ==
    ASSUME NEW n \in Nat, NEW qs, NEW xs, NEW rs, NEW ys, NEW q, NEW x,
           OneMore(n, qs, xs, rs, ys, q, x)
    PROVE  SumOn(Law(rs, ys, n + 1), Streaked(0, n + 1))
               = (Forecast!SurePair - q) * (SURE - x) * SumOn(Law(qs, xs, n), Held(n))
<1> DEFINE law == Law(qs, xs, n)
<1>1. q \in Int /\ x \in Int /\ PartsOf(qs, xs, n) /\ SURE \in Int /\ Forecast!SurePair \in Int
    BY OneMoreIsInt, SureIsInt
<1>2. PICK h \in Int : h = SumOn(law, Held(n))
    BY <1>1, Kinds, LawSumIsInt
<1>3. Streaked(0, n + 1) \in SUBSET Pairs(n + 1)
    BY Kinds
<1>4. SumOn(Law(rs, ys, n + 1), Streaked(0, n + 1))
          = (q * x * SumOn(law, {}) + q * (SURE - x) * SumOn(law, {}))
            + ((Forecast!SurePair - q) * x * SumOn(law, {})
               + (Forecast!SurePair - q) * (SURE - x) * SumOn(law, Held(n)))
    <2>1. Adds(n, qs, xs, rs, ys, q, x, Streaked(0, n + 1))
        BY <1>3, SumOneMore
    <2> QED
        BY <2>1, BeforeFresh DEF Adds
<1> HIDE DEF law
<1>5. SumOn(law, {}) = 0
    BY SumEmpty
<1>6. ASSUME NEW P \in Int, NEW S \in Int
      PROVE  (q * x * 0 + q * (S - x) * 0) + ((P - q) * x * 0 + (P - q) * (S - x) * h)
                 = (P - q) * (S - x) * h
    BY <1>1, <1>2
<1>7. SumOn(Law(rs, ys, n + 1), Streaked(0, n + 1))
          = (Forecast!SurePair - q) * (SURE - x) * h
    BY <1>1, <1>2, <1>4, <1>5, <1>6
<1> QED
    BY <1>2, <1>7 DEF law

LEMMA StreaksGrow ==
    ASSUME NEW n \in Nat, NEW qs, NEW xs, NEW rs, NEW ys, NEW q, NEW x,
           OneMore(n, qs, xs, rs, ys, q, x), NEW m \in 1 .. consecutive_samples - 1
    PROVE  SumOn(Law(rs, ys, n + 1), Streaked(m, n + 1))
               = q * (SURE - x) * SumOn(Law(qs, xs, n), Streaked(m - 1, n))
<1> DEFINE law == Law(qs, xs, n)
<1>1. q \in Int /\ x \in Int /\ PartsOf(qs, xs, n) /\ SURE \in Int /\ Forecast!SurePair \in Int
    BY OneMoreIsInt, SureIsInt
<1>2. PICK h \in Int : h = SumOn(law, Streaked(m - 1, n))
    BY <1>1, Kinds, LawSumIsInt
<1>3. Streaked(m, n + 1) \in SUBSET Pairs(n + 1)
    BY Kinds
<1>4. SumOn(Law(rs, ys, n + 1), Streaked(m, n + 1))
          = (q * x * SumOn(law, {}) + q * (SURE - x) * SumOn(law, Streaked(m - 1, n)))
            + ((Forecast!SurePair - q) * x * SumOn(law, {})
               + (Forecast!SurePair - q) * (SURE - x) * SumOn(law, {}))
    <2>1. Adds(n, qs, xs, rs, ys, q, x, Streaked(m, n + 1))
        BY <1>3, SumOneMore
    <2> QED
        BY <2>1, BeforeStreaked DEF Adds
<1> HIDE DEF law
<1>5. SumOn(law, {}) = 0
    BY SumEmpty
<1>6. ASSUME NEW P \in Int, NEW S \in Int
      PROVE  (q * x * 0 + q * (S - x) * h) + ((P - q) * x * 0 + (P - q) * (S - x) * 0)
                 = q * (S - x) * h
    BY <1>1, <1>2
<1>7. SumOn(Law(rs, ys, n + 1), Streaked(m, n + 1)) = q * (SURE - x) * h
    BY <1>1, <1>2, <1>4, <1>5, <1>6
<1> QED
    BY <1>2, <1>7 DEF law

LEMMA AllGrow ==
    ASSUME NEW n \in Nat, NEW qs, NEW xs, NEW rs, NEW ys, NEW q, NEW x,
           OneMore(n, qs, xs, rs, ys, q, x)
    PROVE  SumOn(Law(rs, ys, n + 1), Pairs(n + 1))
               = Forecast!SurePair * SURE * SumOn(Law(qs, xs, n), Pairs(n))
<1> DEFINE law == Law(qs, xs, n)
<1>1. q \in Int /\ x \in Int /\ PartsOf(qs, xs, n) /\ SURE \in Int /\ Forecast!SurePair \in Int
    BY OneMoreIsInt, SureIsInt
<1>2. PICK h \in Int : h = SumOn(law, Pairs(n))
    BY <1>1, LawSumIsInt
<1>3. \A c, v \in BOOLEAN : Before(n, Pairs(n + 1), c, v) = Pairs(n)
    BY LongerFacts DEF Before
<1>4. SumOn(Law(rs, ys, n + 1), Pairs(n + 1))
          = (q * x * SumOn(law, Pairs(n)) + q * (SURE - x) * SumOn(law, Pairs(n)))
            + ((Forecast!SurePair - q) * x * SumOn(law, Pairs(n))
               + (Forecast!SurePair - q) * (SURE - x) * SumOn(law, Pairs(n)))
    <2> DEFINE A == Pairs(n + 1)
    <2>1. A \in SUBSET Pairs(n + 1)
        OBVIOUS
    <2> HIDE DEF A
    <2>2. Adds(n, qs, xs, rs, ys, q, x, A)
        BY <2>1, SumOneMore
    <2> QED
        BY <1>3, <2>2 DEF Adds, A
<1> HIDE DEF law
<1>5. ASSUME NEW P \in Int, NEW S \in Int
      PROVE  (q * x * h + q * (S - x) * h) + ((P - q) * x * h + (P - q) * (S - x) * h)
                 = P * S * h
    BY <1>1, <1>2
<1>6. SumOn(Law(rs, ys, n + 1), Pairs(n + 1)) = Forecast!SurePair * SURE * h
    BY <1>1, <1>2, <1>4, <1>5
<1> QED
    BY <1>2, <1>6 DEF law

(* The streak distribution moves up by one.                                *)
LEMMA ShiftedSum ==
    ASSUME NEW l \in Nat, l >= 1, NEW s, s \in [0 .. l - 1 -> Int],
           NEW t, t \in [0 .. l - 1 -> Int], NEW q \in Int,
           \A m \in 1 .. l - 1 : t[m] = s[m - 1] * q
    PROVE  SumOn(t, 0 .. l - 1) = t[0] + q * (SumOn(s, 0 .. l - 1) - s[l - 1])
<1> DEFINE All == 0 .. l - 1
           Lower == 0 .. l - 2
           e == [m \in Lower |-> m + 1]
<1>1. IsFiniteSet(All) /\ IsFiniteSet(Lower) /\ Ints(s, All) /\ Ints(t, All) /\ Ints(s, Lower)
    BY FS_Interval DEF Ints
<1>2. 0 \in All /\ l - 1 \in All /\ All \ {l - 1} = Lower /\ All \ {0} = {e[m] : m \in Lower}
    <2>1. \A m \in Lower : e[m] = m + 1
        OBVIOUS
    <2>2. ASSUME NEW k \in All \ {0} PROVE k - 1 \in Lower /\ (k - 1) + 1 = k
        OBVIOUS
    <2>3. ASSUME NEW m \in Lower PROVE m + 1 \in All \ {0}
        OBVIOUS
    <2>4. 0 \in All /\ l - 1 \in All /\ All \ {l - 1} = Lower
        OBVIOUS
    <2> HIDE DEF All, Lower, e
    <2>5. \A k \in All \ {0} : \E m \in Lower : k = e[m]
        BY <2>1, <2>2
    <2>6. \A m \in Lower : e[m] \in All \ {0}
        BY <2>1, <2>3
    <2>7. All \ {0} = {e[m] : m \in Lower}
        BY <2>5, <2>6
    <2> QED
        BY <2>4, <2>7
<1>3. SumOn(t, {e[m] : m \in Lower}) = q * SumOn(s, Lower)
    <2>1. Injects(e, Lower)
        BY DEF Injects
    <2>2. Scales(t, s, e, q, Lower)
        <3> SUFFICES ASSUME NEW m \in Lower PROVE t[e[m]] = q * s[m]
            BY DEF Scales
        <3>1. m + 1 \in 1 .. l - 1 /\ (m + 1) - 1 = m /\ e[m] = m + 1 /\ s[m] \in Int
            OBVIOUS
        <3>2. t[m + 1] = s[m] * q
            BY <3>1
        <3>3. s[m] * q = q * s[m]
            BY <3>1
        <3> QED
            BY <3>1, <3>2, <3>3
    <2>3. IsFiniteSet(Lower) /\ Ints(s, Lower)
        BY <1>1
    <2> HIDE DEF e, Lower, All
    <2>4. /\ IsFiniteSet({e[m] : m \in Lower}) /\ Ints(t, {e[m] : m \in Lower})
          /\ SumOn(t, {e[m] : m \in Lower}) = q * SumOn(s, Lower)
        BY <2>1, <2>2, <2>3, SumOfImage
    <2> QED
        BY <2>4
<1> HIDE DEF All, Lower, e
<1>4. SumOn(t, All) = t[0] + SumOn(t, All \ {0})
    BY <1>1, <1>2, SumTakesOut
<1>5. SumOn(s, All) = s[l - 1] + SumOn(s, All \ {l - 1})
    <2> DEFINE y == l - 1
    <2>1. y \in All
        BY <1>2
    <2> HIDE DEF y
    <2>2. SumOn(s, All) = s[y] + SumOn(s, All \ {y})
        BY <1>1, <2>1, SumTakesOut
    <2> QED
        BY <2>2 DEF y
<1>6. SumOn(s, Lower) \in Int /\ s[l - 1] \in Int /\ t[0] \in Int
    BY <1>1, <1>2, SumIsInt DEF Ints
<1>7. PICK a \in Int : a = SumOn(s, Lower)
    BY <1>6
<1>8. SumOn(s, All) - s[l - 1] = a
    <2>1. PICK b \in Int : b = s[l - 1]
        BY <1>6
    <2>2. SumOn(s, All) = b + a
        BY <1>2, <1>5, <1>7, <2>1
    <2>3. (b + a) - b = a
        OBVIOUS
    <2> QED
        BY <2>1, <2>2, <2>3
<1>9. SumOn(t, All) = t[0] + q * a
    BY <1>2, <1>3, <1>4, <1>7
<1> QED
    BY <1>8, <1>9 DEF All

(* The parts of certainty over n samples.                                  *)
Certain(n, w) == Forecast!Product([k \in 1 .. n |-> w])

LEMMA CertainGrows ==
    ASSUME NEW n \in Nat, NEW w \in Int
    PROVE  Certain(n + 1, w) = w * Certain(n, w) /\ Certain(n, w) \in Int
<1> DEFINE f == [k \in 1 .. n + 1 |-> w]
           g == [k \in 1 .. n |-> w]
           S == 1 .. n + 1
           y == n + 1
<1>1. /\ IsFiniteSet(S) /\ S = DOMAIN f /\ Ints(f, S) /\ y \in S /\ DOMAIN g = S \ {y}
      /\ \A k \in S \ {y} : g[k] = f[k]
    <2>1. IsFiniteSet(S)
        BY FS_Interval
    <2>2. S = DOMAIN f /\ Ints(f, S)
        BY DEF Ints
    <2>3. y \in S /\ DOMAIN g = S \ {y} /\ \A k \in S \ {y} : g[k] = f[k]
        OBVIOUS
    <2> QED
        BY <2>1, <2>2, <2>3
<1>2. f[y] = w
    OBVIOUS
<1> HIDE DEF f, g, S, y
<1>3. Forecast!Product(f) = f[y] * Forecast!Product(g) /\ Forecast!Product(g) \in Int
    BY <1>1, ProductTakesOut
<1> QED
    BY <1>2, <1>3 DEF Certain, f, g

LEMMA PartsAreInt ==
    ASSUME NEW s \in Nominals
    PROVE  Forecast!candidate(s) \in Int /\ \A k : Forecast!violation(k, s) \in Int
<1>1. /\ s.phase \in Forecast!Slacks /\ s.reference \in Forecast!Slacks
      /\ s.separation \in Forecast!Slacks
    BY DEF Nominals
<1>2. \A z \in Forecast!Slacks : Phi[z] \in Int /\ Phi[-z] \in Int
    BY ForecastParameters DEF Forecast!ForecastAssumption, Forecast!Slacks
<1>3. \A c : \A z \in Forecast!Slacks : Forecast!threshold_probability(c, z) \in Int
    BY <1>2, SureIsInt DEF Forecast!threshold_probability
<1>4. PICK a \in Int : a = Forecast!threshold_probability("phase", s.phase)
    BY <1>1, <1>3
<1>5. PICK b \in Int : b = Forecast!threshold_probability("reference", s.reference)
    BY <1>1, <1>3
<1>6. Forecast!candidate(s) = a * b
    BY <1>4, <1>5 DEF Forecast!candidate
<1>7. a * b \in Int
    OBVIOUS
<1>8. \A k : Forecast!violation(k, s) \in Int
    <2> SUFFICES ASSUME NEW k PROVE Forecast!violation(k, s) \in Int
        OBVIOUS
    <2> DEFINE S == {run \in Draws \X Draws : Forecast!Trips(k, s, run[1], run[2])}
    <2>1. IsFiniteSet(Draws \X Draws) /\ S \subseteq Draws \X Draws
        BY DrawFacts
    <2>2. Cardinality(S) \in Nat
        BY <2>1, FS_Subset, FS_CardinalityType
    <2> QED
        BY <2>2, SameSets DEF Forecast!violation
<1> QED
    BY <1>6, <1>7, <1>8

(* What the recursion holds, in terms of the law.                          *)
CandidateParts == [k \in 1 .. Len(nominal) |-> Forecast!candidate(nominal[k])]
ViolationParts == [k \in 1 .. Len(nominal) |-> Forecast!violation(k, nominal[k])]
PathLaw == Law(CandidateParts, ViolationParts, Len(nominal))

ForecastTypeOK ==
    /\ NominalTypeOK
    /\ states \in [0 .. consecutive_samples - 1 -> Int]
    /\ locked \in Int /\ survival \in Int /\ fire_probability \in Int

StreaksAreLaw ==
    \A m \in 0 .. consecutive_samples - 1 :
        states[m] * survival = SumOn(PathLaw, Streaked(m, Len(nominal)))

PairIsShared == Forecast!Unlocked + locked = Certain(Len(nominal), Forecast!SurePair)

HoldIsLaw ==
    (Certain(Len(nominal), Forecast!SurePair) - locked) * survival
        = SumOn(PathLaw, Held(Len(nominal)))

FireIsLaw == fire_probability = SumOn(PathLaw, Fired(Len(nominal)))

LawIsWhole ==
    Certain(Len(nominal), Forecast!SurePair * SURE) = SumOn(PathLaw, Pairs(Len(nominal)))

ForecastInv ==
    ForecastTypeOK /\ StreaksAreLaw /\ PairIsShared /\ HoldIsLaw /\ FireIsLaw /\ LawIsWhole

LEMMA UnlockedIsSum ==
    ASSUME ForecastTypeOK
    PROVE  /\ Forecast!Unlocked = SumOn(states, 0 .. consecutive_samples - 1)
           /\ Forecast!Unlocked \in Int
<1>1. DOMAIN states = 0 .. consecutive_samples - 1
    BY DEF ForecastTypeOK
<1>2. Forecast!Unlocked = SumOn(states, DOMAIN states)
    BY DEF Forecast!Unlocked, Forecast!SumFunction, Forecast!SumFunctionOnSet, SumOn
<1>3. IsFiniteSet(0 .. consecutive_samples - 1) /\ Ints(states, 0 .. consecutive_samples - 1)
    BY StreakLength, FS_Interval DEF Ints, ForecastTypeOK
<1> QED
    BY <1>1, <1>2, <1>3, SumIsInt

LEMMA PartsTyped ==
    ASSUME NominalTypeOK PROVE PartsOf(CandidateParts, ViolationParts, Len(nominal))
<1>1. \A k \in 1 .. Len(nominal) : nominal[k] \in Nominals
    BY DEF NominalTypeOK
<1> QED
    BY <1>1, PartsAreInt DEF PartsOf, CandidateParts, ViolationParts

(* A round of the propagation adds one sample.                             *)
LEMMA RoundIsOneMore ==
    ASSUME NominalTypeOK, NEW s \in Nominals, nominal' = Append(nominal, s), noise' = noise
    PROVE  /\ Len(nominal) \in Nat /\ Len(nominal') = Len(nominal) + 1
           /\ OneMore(Len(nominal), CandidateParts, ViolationParts,
                      CandidateParts', ViolationParts',
                      Forecast!candidate(s), Forecast!violation(Len(nominal) + 1, s))
<1> DEFINE n == Len(nominal)
           rs == [k \in 1 .. n + 1 |-> Forecast!candidate(nominal'[k])]
           ys == [k \in 1 .. n + 1 |-> Forecast!violation(k, nominal'[k])]
<1>1. /\ n \in Nat /\ Len(nominal') = n + 1 /\ nominal'[n + 1] = s
      /\ \A k \in 1 .. n : nominal'[k] = nominal[k] /\ nominal[k] \in Nominals
      /\ \A k \in 1 .. n + 1 : nominal'[k] \in Nominals
    BY DEF NominalTypeOK
<1>2. CandidateParts' = rs /\ ViolationParts' = ys
    BY <1>1 DEF CandidateParts, ViolationParts, Forecast!candidate, Forecast!violation,
                Forecast!threshold_probability, Forecast!Trips
<1>3. PartsOf(rs, ys, n + 1)
    BY <1>1, PartsAreInt DEF PartsOf
<1>4. PartsOf(CandidateParts, ViolationParts, n)
    BY PartsTyped
<1>5. Grown(rs, CandidateParts, n) /\ Grown(ys, ViolationParts, n)
    BY <1>1 DEF Grown, CandidateParts, ViolationParts
<1>6. rs[n + 1] = Forecast!candidate(s) /\ ys[n + 1] = Forecast!violation(n + 1, s)
    BY <1>1
<1>7. OneMore(n, CandidateParts, ViolationParts, rs, ys,
              Forecast!candidate(s), Forecast!violation(n + 1, s))
    <2> HIDE DEF rs, ys, n
    <2> QED
        BY <1>3, <1>4, <1>5, <1>6 DEF OneMore
<1> QED
    BY <1>1, <1>2, <1>7

LEMMA SumOfZeros ==
    ASSUME NEW S, IsFiniteSet(S), NEW f, \A x \in S : f[x] = 0
    PROVE  SumOn(f, S) = 0
<1> DEFINE e == [x \in S |-> x]
<1>1. Ints(f, S) /\ Injects(e, S)
    BY DEF Ints, Injects
<1>2. Scales(f, f, e, 0, S)
    BY DEF Scales
<1>3. {e[x] : x \in S} = S
    OBVIOUS
<1> HIDE DEF e
<1>4. 0 \in Int
    OBVIOUS
<1>5. /\ IsFiniteSet({e[x] : x \in S}) /\ Ints(f, {e[x] : x \in S})
      /\ SumOn(f, {e[x] : x \in S}) = 0 * SumOn(f, S)
    BY <1>1, <1>2, <1>4, SumOfImage
<1>6. SumOn(f, S) \in Int
    BY <1>1, SumIsInt
<1> QED
    BY <1>3, <1>5, <1>6

(* Before the first sample there is one path, held and with no candidate.  *)
EmptyPath == <<[k \in 1 .. 0 |-> TRUE], [k \in 1 .. 0 |-> TRUE]>>

LEMMA NoSamples ==
    /\ Pairs(0) = {EmptyPath} /\ Held(0) = {EmptyPath} /\ Fired(0) = {}
    /\ Streaked(0, 0) = {EmptyPath} /\ \A m \in Nat \ {0} : Streaked(m, 0) = {}
<1>1. EmptyPath \in Pairs(0)
    <2>1. [k \in 1 .. 0 |-> TRUE] \in [1 .. 0 -> BOOLEAN]
        OBVIOUS
    <2> QED
        BY <2>1 DEF EmptyPath, Pairs, PathsOf
<1>2. ASSUME NEW p \in Pairs(0) PROVE p = EmptyPath
    <2>1. p[1] \in [1 .. 0 -> BOOLEAN] /\ p[2] \in [1 .. 0 -> BOOLEAN] /\ p = <<p[1], p[2]>>
        BY PairFacts
    <2>2. \A f \in [1 .. 0 -> BOOLEAN] : f = [k \in 1 .. 0 |-> TRUE]
        OBVIOUS
    <2> QED
        BY <2>1, <2>2 DEF EmptyPath
<1>3. Pairs(0) = {EmptyPath}
    BY <1>1, <1>2
<1>4. Held(0) = {EmptyPath}
    BY <1>3 DEF Held
<1>5. Fired(0) = {}
    BY DEF Fired
<1>6. EndsIn(EmptyPath, 0, 0) /\ \A m \in Nat \ {0} : ~EndsIn(EmptyPath, 0, m)
    BY DEF EndsIn
<1> QED
    BY <1>3, <1>4, <1>5, <1>6 DEF Streaked

LEMMA ForecastInitially == Forecast!ForecastInit => ForecastInv
<1> SUFFICES ASSUME Forecast!ForecastInit PROVE ForecastInv
    OBVIOUS
<1> DEFINE L == consecutive_samples
<1>1. /\ nominal = <<>> /\ Len(nominal) = 0 /\ locked = 0 /\ survival = 1 /\ fire_probability = 0
      /\ states = [m \in 0 .. L - 1 |-> IF m = 0 THEN 1 ELSE 0]
    BY DEF Forecast!ForecastInit
<1>2. ForecastTypeOK
    BY <1>1, NominalInitially DEF ForecastTypeOK
<1>3. Certain(0, Forecast!SurePair) = 1 /\ Certain(0, Forecast!SurePair * SURE) = 1
    <2>1. \A w : DOMAIN [k \in 1 .. 0 |-> w] = {}
        OBVIOUS
    <2> QED
        BY <2>1, ProductEmpty DEF Certain
<1>4. PathLaw[EmptyPath] = 1
    <2>1. EmptyPath \in Pairs(0)
        BY NoSamples
    <2> DEFINE f == [k \in 1 .. 0 |-> Term(CandidateParts, ViolationParts, EmptyPath, k)]
    <2>2. PathLaw[EmptyPath] = Forecast!Product(f)
        BY <1>1, <2>1 DEF PathLaw, Law
    <2>3. DOMAIN f = {}
        OBVIOUS
    <2> HIDE DEF f
    <2> QED
        BY <2>2, <2>3, ProductEmpty
<1>5. SumOn(PathLaw, {EmptyPath}) = 1 /\ SumOn(PathLaw, {}) = 0
    <2> DEFINE S == {EmptyPath}
    <2>1. IsFiniteSet(S) /\ EmptyPath \in S /\ S \ {EmptyPath} = {} /\ Ints(PathLaw, S)
        <3>1. IsFiniteSet(S)
            BY FS_Singleton
        <3>2. Ints(PathLaw, S)
            BY <1>4 DEF Ints
        <3> QED
            BY <3>1, <3>2
    <2> HIDE DEF S
    <2>2. SumOn(PathLaw, S) = PathLaw[EmptyPath] + SumOn(PathLaw, S \ {EmptyPath})
        BY <2>1, SumTakesOut
    <2>3. SumOn(PathLaw, {}) = 0
        BY SumEmpty
    <2> QED
        BY <1>4, <2>1, <2>2, <2>3 DEF S
<1>6. L \in Nat /\ L >= 1
    BY StreakLength
<1>7. StreaksAreLaw
    <2> SUFFICES ASSUME NEW m \in 0 .. L - 1
                 PROVE  states[m] * survival = SumOn(PathLaw, Streaked(m, 0))
        BY <1>1 DEF StreaksAreLaw
    <2>1. CASE m = 0
        <3>1. states[m] * survival = 1
            BY <1>1, <1>6, <2>1
        <3>2. SumOn(PathLaw, Streaked(m, 0)) = 1
            BY <1>5, <2>1, NoSamples
        <3> QED
            BY <3>1, <3>2
    <2>2. CASE m # 0
        <3>1. m \in Nat \ {0}
            BY <1>6, <2>2
        <3>2. Streaked(m, 0) = {}
            BY <3>1, NoSamples
        <3> QED
            BY <1>1, <1>5, <2>2, <3>2
    <2> QED
        BY <2>1, <2>2
<1>8. Forecast!Unlocked = 1
    <2> DEFINE All == 0 .. L - 1
    <2>1. 0 \in All /\ IsFiniteSet(All) /\ Ints(states, All)
        BY <1>1, <1>6, FS_Interval DEF Ints
    <2>2. \A m \in All \ {0} : states[m] = 0
        BY <1>1
    <2>3. states[0] = 1 /\ Forecast!Unlocked = SumOn(states, All)
        BY <1>1, <1>2, <2>1, UnlockedIsSum
    <2> HIDE DEF All
    <2>4. SumOn(states, All) = states[0] + SumOn(states, All \ {0})
        BY <2>1, SumTakesOut
    <2>5. SumOn(states, All \ {0}) = 0
        BY <2>1, <2>2, FS_Subset, SumOfZeros
    <2> QED
        BY <2>3, <2>4, <2>5
<1>9. PairIsShared
    BY <1>1, <1>3, <1>8 DEF PairIsShared
<1>10. HoldIsLaw
    <2>1. (Certain(Len(nominal), Forecast!SurePair) - locked) * survival = 1
        BY <1>1, <1>3
    <2>2. SumOn(PathLaw, Held(Len(nominal))) = 1
        BY <1>1, <1>5, NoSamples
    <2> QED
        BY <2>1, <2>2 DEF HoldIsLaw
<1>11. FireIsLaw
    BY <1>1, <1>5, NoSamples DEF FireIsLaw
<1>12. LawIsWhole
    BY <1>1, <1>3, <1>5, NoSamples DEF LawIsWhole
<1> QED
    BY <1>2, <1>7, <1>9, <1>10, <1>11, <1>12 DEF ForecastInv

(* One round of the propagation, with its sample and its two parts.        *)
Round(s, q, x) ==
    /\ s \in Nominals /\ q = Forecast!candidate(s)
    /\ x = Forecast!violation(Len(nominal) + 1, s)
    /\ nominal' = Append(nominal, s) /\ noise' = noise
    /\ states' = [m \in DOMAIN states |->
                     IF m = 0 THEN Forecast!Unlocked * (Forecast!SurePair - q)
                     ELSE states[m - 1] * q]
    /\ locked' = locked * Forecast!SurePair + states[consecutive_samples - 1] * q
    /\ survival' = survival * (SURE - x)
    /\ fire_probability' = fire_probability * Forecast!SurePair * SURE
                           + states[consecutive_samples - 1] * q * survival * (SURE - x)

LEMMA PropagateIsRound == Forecast!propagate => \E s, q, x : Round(s, q, x)
<1> SUFFICES ASSUME Forecast!propagate PROVE \E s, q, x : Round(s, q, x)
    OBVIOUS
<1>1. PICK phase \in Forecast!Slacks, reference \in Forecast!Slacks,
           separation \in Forecast!Slacks :
         LET s == [phase |-> phase, reference |-> reference, separation |-> separation] IN
         /\ Forecast!Recursion(s, Forecast!candidate(s),
                               Forecast!violation(Len(nominal) + 1, s))
         /\ Forecast!Approach(s, Forecast!candidate(s))
    BY DEF Forecast!propagate
<1> DEFINE s == [phase |-> phase, reference |-> reference, separation |-> separation]
           q == Forecast!candidate(s)
           x == Forecast!violation(Len(nominal) + 1, s)
<1>2. s \in Nominals
    BY DEF Nominals
<1>3. noise' = noise
    BY DEF Forecast!propagate
<1>4. /\ nominal' = Append(nominal, s) /\ Forecast!advance(q)
      /\ survival' = survival * (SURE - x)
      /\ fire_probability' = fire_probability * Forecast!SurePair * SURE + Forecast!FireHere(q, x)
    BY <1>1 DEF Forecast!Recursion
<1>5. q = Forecast!candidate(s) /\ x = Forecast!violation(Len(nominal) + 1, s)
    OBVIOUS
<1> HIDE DEF s, q, x
<1>6. Round(s, q, x)
    BY <1>2, <1>3, <1>4, <1>5
       DEF Round, Forecast!advance, Forecast!FireHere, Forecast!Absorbed
<1> QED
    BY <1>6

LEMMA RoundFacts ==
    ASSUME ForecastInv, NEW s, NEW q, NEW x, Round(s, q, x)
    PROVE  /\ Len(nominal) \in Nat /\ Len(nominal') = Len(nominal) + 1
           /\ q \in Int /\ x \in Int
           /\ OneMore(Len(nominal), CandidateParts, ViolationParts,
                      CandidateParts', ViolationParts', q, x)
           /\ PathLaw = Law(CandidateParts, ViolationParts, Len(nominal))
           /\ PathLaw' = Law(CandidateParts', ViolationParts', Len(nominal) + 1)
<1>1. NominalTypeOK /\ s \in Nominals /\ nominal' = Append(nominal, s) /\ noise' = noise
      /\ q = Forecast!candidate(s) /\ x = Forecast!violation(Len(nominal) + 1, s)
    BY DEF ForecastInv, ForecastTypeOK, Round
<1>2. /\ Len(nominal) \in Nat /\ Len(nominal') = Len(nominal) + 1
      /\ OneMore(Len(nominal), CandidateParts, ViolationParts,
                 CandidateParts', ViolationParts', q, x)
    BY <1>1, RoundIsOneMore
<1>3. q \in Int /\ x \in Int
    BY <1>1, PartsAreInt
<1>4. PathLaw' = Law(CandidateParts', ViolationParts', Len(nominal'))
    BY DEF PathLaw
<1> QED
    BY <1>2, <1>3, <1>4 DEF PathLaw

LEMMA RoundKeepsTypes ==
    ASSUME ForecastInv, NEW s, NEW q, NEW x, Round(s, q, x)
    PROVE  ForecastTypeOK'
<1>1. q \in Int /\ x \in Int /\ SURE \in Int /\ Forecast!SurePair \in Int
    BY RoundFacts, SureIsInt
<1>2. /\ NominalTypeOK /\ states \in [0 .. consecutive_samples - 1 -> Int]
      /\ locked \in Int /\ survival \in Int /\ fire_probability \in Int
      /\ Forecast!Unlocked \in Int
    BY UnlockedIsSum DEF ForecastInv, ForecastTypeOK
<1>3. NominalTypeOK'
    BY <1>2 DEF Round, NominalTypeOK
<1>4. consecutive_samples \in Nat /\ consecutive_samples >= 1
    BY StreakLength
<1>5. states' \in [0 .. consecutive_samples - 1 -> Int]
    <2>1. ASSUME NEW m \in 0 .. consecutive_samples - 1
          PROVE  (IF m = 0 THEN Forecast!Unlocked * (Forecast!SurePair - q)
                  ELSE states[m - 1] * q) \in Int
        <3>1. CASE m = 0
            BY <1>1, <1>2, <3>1
        <3>2. CASE m # 0
            <4>1. m - 1 \in 0 .. consecutive_samples - 1
                BY <1>4, <3>2
            <4>2. states[m - 1] \in Int
                BY <1>2, <4>1
            <4>3. states[m - 1] * q \in Int
                BY <1>1, <4>2
            <4> QED
                BY <3>2, <4>3
        <3> QED
            BY <3>1, <3>2
    <2>2. DOMAIN states = 0 .. consecutive_samples - 1
        BY <1>2
    <2>3. states' = [m \in 0 .. consecutive_samples - 1 |->
                        IF m = 0 THEN Forecast!Unlocked * (Forecast!SurePair - q)
                        ELSE states[m - 1] * q]
        BY <2>2 DEF Round
    <2> QED
        BY <2>1, <2>3
<1>6. PICK a \in Int : a = states[consecutive_samples - 1]
    BY <1>2, <1>4
<1>7. /\ locked' = locked * Forecast!SurePair + a * q
      /\ survival' = survival * (SURE - x)
      /\ fire_probability' = fire_probability * Forecast!SurePair * SURE
                             + a * q * survival * (SURE - x)
    BY <1>6 DEF Round
<1>8. locked' \in Int /\ survival' \in Int
    BY <1>1, <1>2, <1>7
<1>9. fire_probability' \in Int
    BY <1>1, <1>2, <1>7
<1> QED
    BY <1>3, <1>5, <1>8, <1>9 DEF ForecastTypeOK

LEMMA RoundKeepsStreaks ==
    ASSUME ForecastInv, NEW s, NEW q, NEW x, Round(s, q, x)
    PROVE  StreaksAreLaw'
<1> DEFINE n == Len(nominal)
<1>1. /\ n \in Nat /\ Len(nominal') = n + 1 /\ q \in Int /\ x \in Int
      /\ OneMore(n, CandidateParts, ViolationParts, CandidateParts', ViolationParts', q, x)
      /\ PathLaw = Law(CandidateParts, ViolationParts, n)
      /\ PathLaw' = Law(CandidateParts', ViolationParts', n + 1)
    BY RoundFacts
<1>2. /\ states \in [0 .. consecutive_samples - 1 -> Int]
      /\ locked \in Int /\ survival \in Int /\ Forecast!Unlocked \in Int
      /\ SURE \in Int /\ Forecast!SurePair \in Int
    BY UnlockedIsSum, SureIsInt DEF ForecastInv, ForecastTypeOK
<1>3. consecutive_samples \in Nat /\ consecutive_samples >= 1
    BY StreakLength
<1>4. survival' = survival * (SURE - x)
    BY DEF Round
<1>5. \A m \in 0 .. consecutive_samples - 1 :
          states'[m] = IF m = 0 THEN Forecast!Unlocked * (Forecast!SurePair - q)
                       ELSE states[m - 1] * q
    <2>1. DOMAIN states = 0 .. consecutive_samples - 1
        BY <1>2
    <2> QED
        BY <2>1 DEF Round
<1>6. ASSUME NEW m \in 0 .. consecutive_samples - 1
      PROVE  states'[m] * survival' = SumOn(PathLaw', Streaked(m, n + 1))
    <2>1. CASE m = 0
        <3>1. SumOn(PathLaw', Streaked(0, n + 1))
                  = (Forecast!SurePair - q) * (SURE - x) * SumOn(PathLaw, Held(n))
            BY <1>1, FreshGrow
        <3>2. SumOn(PathLaw, Held(n)) = Forecast!Unlocked * survival
            <4>1. PICK c \in Int : c = Certain(n, Forecast!SurePair)
                BY <1>1, <1>2, CertainGrows
            <4>2. Forecast!Unlocked + locked = c /\ (c - locked) * survival = SumOn(PathLaw, Held(n))
                BY <4>1 DEF ForecastInv, PairIsShared, HoldIsLaw
            <4>3. c - locked = Forecast!Unlocked
                BY <1>2, <4>2
            <4> QED
                BY <4>2, <4>3
        <3>3. states'[0] = Forecast!Unlocked * (Forecast!SurePair - q)
            BY <1>3, <1>5
        <3>4. ASSUME NEW u \in Int, NEW P \in Int, NEW S \in Int
              PROVE  (u * (P - q)) * (survival * (S - x)) = (P - q) * (S - x) * (u * survival)
            BY <1>1, <1>2
        <3> QED
            BY <1>2, <1>4, <2>1, <3>1, <3>2, <3>3, <3>4
    <2>2. CASE m # 0
        <3>1. m \in 1 .. consecutive_samples - 1 /\ m - 1 \in 0 .. consecutive_samples - 1
            BY <1>3, <2>2
        <3>2. SumOn(PathLaw', Streaked(m, n + 1))
                  = q * (SURE - x) * SumOn(PathLaw, Streaked(m - 1, n))
            BY <1>1, <3>1, StreaksGrow
        <3>3. SumOn(PathLaw, Streaked(m - 1, n)) = states[m - 1] * survival
            BY <3>1 DEF ForecastInv, StreaksAreLaw
        <3>4. PICK a \in Int : a = states[m - 1]
            BY <1>2, <3>1
        <3>5. states'[m] = a * q
            BY <1>5, <2>2, <3>4
        <3>6. ASSUME NEW S \in Int
              PROVE  (a * q) * (survival * (S - x)) = q * (S - x) * (a * survival)
            BY <1>1, <1>2
        <3> QED
            BY <1>2, <1>4, <3>2, <3>3, <3>4, <3>5, <3>6
    <2> QED
        BY <2>1, <2>2
<1>7. StreaksAreLaw' <=>
          \A m \in 0 .. consecutive_samples - 1 :
              states'[m] * survival' = SumOn(PathLaw', Streaked(m, Len(nominal')))
    BY DEF StreaksAreLaw
<1> QED
    BY <1>1, <1>6, <1>7

LEMMA RoundKeepsPair ==
    ASSUME ForecastInv, NEW s, NEW q, NEW x, Round(s, q, x)
    PROVE  PairIsShared'
<1> DEFINE n == Len(nominal)
           L == consecutive_samples
<1>1. n \in Nat /\ Len(nominal') = n + 1 /\ q \in Int
    BY RoundFacts
<1>2. /\ states \in [0 .. L - 1 -> Int] /\ locked \in Int /\ Forecast!Unlocked \in Int
      /\ Forecast!Unlocked = SumOn(states, 0 .. L - 1) /\ Forecast!SurePair \in Int
    BY UnlockedIsSum, SureIsInt DEF ForecastInv, ForecastTypeOK
<1>3. L \in Nat /\ L >= 1
    BY StreakLength
<1>4. ForecastTypeOK'
    BY RoundKeepsTypes
<1>5. states' \in [0 .. L - 1 -> Int] /\ Forecast!Unlocked' = SumOn(states', 0 .. L - 1)
    <2>1. states' \in [0 .. L - 1 -> Int]
        BY <1>4 DEF ForecastTypeOK
    <2>2. DOMAIN states' = 0 .. L - 1
        BY <2>1
    <2>3. Forecast!Unlocked' = SumOn(states', DOMAIN states')
        <3>1. ASSUME NEW t PROVE Forecast!SumFunction(t) = SumOn(t, DOMAIN t)
            BY DEF Forecast!SumFunction, Forecast!SumFunctionOnSet, SumOn
        <3>2. Forecast!Unlocked' = Forecast!SumFunction(states')
            BY DEF Forecast!Unlocked
        <3> QED
            BY <3>1, <3>2
    <2> QED
        BY <2>1, <2>2, <2>3
<1>6. /\ states'[0] = Forecast!Unlocked * (Forecast!SurePair - q)
      /\ \A m \in 1 .. L - 1 : states'[m] = states[m - 1] * q
    <2>1. DOMAIN states = 0 .. L - 1
        BY <1>2
    <2> QED
        BY <1>3, <2>1 DEF Round
<1>7. SumOn(states', 0 .. L - 1) = states'[0] + q * (SumOn(states, 0 .. L - 1) - states[L - 1])
    BY <1>1, <1>2, <1>3, <1>5, <1>6, ShiftedSum
<1>8. PICK a \in Int : a = states[L - 1]
    BY <1>2, <1>3
<1>9. locked' = locked * Forecast!SurePair + a * q
    BY <1>8 DEF Round
<1>10. PICK c \in Int : c = Certain(n, Forecast!SurePair)
    BY <1>1, <1>2, CertainGrows
<1>11. Certain(n + 1, Forecast!SurePair) = Forecast!SurePair * c
    BY <1>1, <1>2, <1>10, CertainGrows
<1>12. Forecast!Unlocked + locked = c
    BY <1>10 DEF ForecastInv, PairIsShared
<1>13. Forecast!Unlocked' = Forecast!Unlocked * (Forecast!SurePair - q) + q * (Forecast!Unlocked - a)
    BY <1>2, <1>5, <1>6, <1>7, <1>8
<1>14. ASSUME NEW u \in Int, NEW P \in Int, u + locked = c
       PROVE  (u * (P - q) + q * (u - a)) + (locked * P + a * q) = P * c
    <2>1. (u * (P - q) + q * (u - a)) + (locked * P + a * q) = P * (u + locked)
        BY <1>1, <1>2
    <2> QED
        BY <1>14, <2>1
<1>15. Forecast!Unlocked' + locked' = Forecast!SurePair * c
    BY <1>2, <1>9, <1>12, <1>13, <1>14
<1>16. PairIsShared' <=>
           Forecast!Unlocked' + locked' = Certain(Len(nominal'), Forecast!SurePair)
    BY DEF PairIsShared
<1> QED
    BY <1>1, <1>11, <1>15, <1>16

LEMMA RoundKeepsHold ==
    ASSUME ForecastInv, NEW s, NEW q, NEW x, Round(s, q, x)
    PROVE  HoldIsLaw'
<1> DEFINE n == Len(nominal)
           L == consecutive_samples
<1>1. /\ n \in Nat /\ Len(nominal') = n + 1 /\ q \in Int /\ x \in Int
      /\ OneMore(n, CandidateParts, ViolationParts, CandidateParts', ViolationParts', q, x)
      /\ PathLaw = Law(CandidateParts, ViolationParts, n)
      /\ PathLaw' = Law(CandidateParts', ViolationParts', n + 1)
    BY RoundFacts
<1>2. /\ states \in [0 .. L - 1 -> Int] /\ locked \in Int /\ survival \in Int
      /\ SURE \in Int /\ Forecast!SurePair \in Int
    BY SureIsInt DEF ForecastInv, ForecastTypeOK
<1>3. L \in Nat /\ L >= 1
    BY StreakLength
<1>4. PICK a \in Int : a = states[L - 1]
    BY <1>2, <1>3
<1>5. locked' = locked * Forecast!SurePair + a * q /\ survival' = survival * (SURE - x)
    BY <1>4 DEF Round
<1>6. PICK c \in Int : c = Certain(n, Forecast!SurePair)
    BY <1>1, <1>2, CertainGrows
<1>7. Certain(n + 1, Forecast!SurePair) = Forecast!SurePair * c
    BY <1>1, <1>2, <1>6, CertainGrows
<1>8. SumOn(PathLaw, Held(n)) = (c - locked) * survival
    BY <1>6 DEF ForecastInv, HoldIsLaw
<1>9. SumOn(PathLaw, Streaked(L - 1, n)) = a * survival
    <2>1. L - 1 \in 0 .. L - 1
        BY <1>3
    <2> QED
        BY <1>4, <2>1 DEF ForecastInv, StreaksAreLaw
<1>10. SumOn(PathLaw', Held(n + 1))
           = (SURE - x) * (Forecast!SurePair * ((c - locked) * survival) - q * (a * survival))
    <2>1. PICK h : h = SumOn(PathLaw, Held(n))
        OBVIOUS
    <2>2. PICK k : k = SumOn(PathLaw, Streaked(L - 1, n))
        OBVIOUS
    <2>3. SumOn(PathLaw', Held(n + 1)) = (SURE - x) * (Forecast!SurePair * h - q * k)
        BY <1>1, <2>1, <2>2, HeldGrow
    <2> QED
        BY <1>8, <1>9, <2>1, <2>2, <2>3
<1>11. ASSUME NEW P \in Int, NEW S \in Int
       PROVE  (P * c - (locked * P + a * q)) * (survival * (S - x))
                  = (S - x) * (P * ((c - locked) * survival) - q * (a * survival))
    BY <1>1, <1>2
<1>12. (Certain(n + 1, Forecast!SurePair) - locked') * survival' = SumOn(PathLaw', Held(n + 1))
    BY <1>2, <1>5, <1>7, <1>10, <1>11
<1>13. HoldIsLaw' <=>
           (Certain(Len(nominal'), Forecast!SurePair) - locked') * survival'
               = SumOn(PathLaw', Held(Len(nominal')))
    BY DEF HoldIsLaw
<1> QED
    BY <1>1, <1>12, <1>13

LEMMA RoundKeepsFire ==
    ASSUME ForecastInv, NEW s, NEW q, NEW x, Round(s, q, x)
    PROVE  FireIsLaw'
<1> DEFINE n == Len(nominal)
           L == consecutive_samples
<1>1. /\ n \in Nat /\ Len(nominal') = n + 1 /\ q \in Int /\ x \in Int
      /\ OneMore(n, CandidateParts, ViolationParts, CandidateParts', ViolationParts', q, x)
      /\ PathLaw = Law(CandidateParts, ViolationParts, n)
      /\ PathLaw' = Law(CandidateParts', ViolationParts', n + 1)
    BY RoundFacts
<1>2. /\ states \in [0 .. L - 1 -> Int] /\ survival \in Int /\ fire_probability \in Int
      /\ SURE \in Int /\ Forecast!SurePair \in Int
    BY SureIsInt DEF ForecastInv, ForecastTypeOK
<1>3. L \in Nat /\ L >= 1
    BY StreakLength
<1>4. PICK a \in Int : a = states[L - 1]
    BY <1>2, <1>3
<1>5. fire_probability' = fire_probability * Forecast!SurePair * SURE
                          + a * q * survival * (SURE - x)
    BY <1>4 DEF Round
<1>6. PICK k : k = SumOn(PathLaw, Streaked(L - 1, n))
    OBVIOUS
<1>7. k = a * survival
    <2>1. L - 1 \in 0 .. L - 1
        BY <1>3
    <2> QED
        BY <1>4, <1>6, <2>1 DEF ForecastInv, StreaksAreLaw
<1>8. fire_probability = SumOn(PathLaw, Fired(n))
    BY DEF ForecastInv, FireIsLaw
<1>9. PICK f : f = SumOn(PathLaw, Fired(n))
    OBVIOUS
<1>10. SumOn(PathLaw', Fired(n + 1)) = f * Forecast!SurePair * SURE + k * q * (SURE - x)
    BY <1>1, <1>6, <1>9, FiredGrow
<1>11. ASSUME NEW S \in Int
       PROVE  (a * survival) * q * (S - x) = a * q * survival * (S - x)
    BY <1>1, <1>2
<1>12. fire_probability' = SumOn(PathLaw', Fired(n + 1))
    BY <1>2, <1>5, <1>7, <1>8, <1>9, <1>10, <1>11
<1>13. FireIsLaw' <=> fire_probability' = SumOn(PathLaw', Fired(Len(nominal')))
    BY DEF FireIsLaw
<1> QED
    BY <1>1, <1>12, <1>13

LEMMA RoundKeepsWhole ==
    ASSUME ForecastInv, NEW s, NEW q, NEW x, Round(s, q, x)
    PROVE  LawIsWhole'
<1> DEFINE n == Len(nominal)
<1>1. /\ n \in Nat /\ Len(nominal') = n + 1
      /\ OneMore(n, CandidateParts, ViolationParts, CandidateParts', ViolationParts', q, x)
      /\ PathLaw = Law(CandidateParts, ViolationParts, n)
      /\ PathLaw' = Law(CandidateParts', ViolationParts', n + 1)
    BY RoundFacts
<1>2. PICK w \in Int : w = Forecast!SurePair * SURE
    BY SureIsInt
<1>3. Certain(n + 1, w) = w * Certain(n, w)
    BY <1>1, CertainGrows
<1>4. SumOn(PathLaw', Pairs(n + 1)) = w * SumOn(PathLaw, Pairs(n))
    BY <1>1, <1>2, AllGrow
<1>5. Certain(n, w) = SumOn(PathLaw, Pairs(n))
    BY <1>2 DEF ForecastInv, LawIsWhole
<1>6. Certain(n + 1, w) = SumOn(PathLaw', Pairs(n + 1))
    BY <1>3, <1>4, <1>5
<1>7. LawIsWhole' <=>
          Certain(Len(nominal'), Forecast!SurePair * SURE)
              = SumOn(PathLaw', Pairs(Len(nominal')))
    BY DEF LawIsWhole
<1> QED
    BY <1>1, <1>2, <1>6, <1>7

LEMMA ForecastStep == ForecastInv /\ [TriggerNext]_triggerVars => ForecastInv'
<1>1. ASSUME ForecastInv, Forecast!propagate PROVE ForecastInv'
    <2>1. PICK s, q, x : Round(s, q, x)
        BY <1>1, PropagateIsRound
    <2> QED
        BY <1>1, <2>1, RoundKeepsTypes, RoundKeepsStreaks, RoundKeepsPair, RoundKeepsHold,
           RoundKeepsFire, RoundKeepsWhole DEF ForecastInv
<1>2. ASSUME ForecastInv, UNCHANGED forecastVars PROVE ForecastInv'
    <2>1. /\ noise' = noise /\ nominal' = nominal /\ states' = states /\ locked' = locked
          /\ survival' = survival /\ fire_probability' = fire_probability
        BY <1>2 DEF forecastVars
    <2>2. CandidateParts' = CandidateParts /\ ViolationParts' = ViolationParts
        BY <2>1 DEF CandidateParts, ViolationParts, Forecast!candidate, Forecast!violation,
                    Forecast!threshold_probability, Forecast!Trips
    <2>3. PathLaw' = PathLaw
        BY <2>1, <2>2 DEF PathLaw
    <2>4. Forecast!Unlocked' = Forecast!Unlocked
        BY <2>1 DEF Forecast!Unlocked
    <2> QED
        BY <1>2, <2>1, <2>3, <2>4
           DEF ForecastInv, ForecastTypeOK, NominalTypeOK, StreaksAreLaw, PairIsShared,
               HoldIsLaw, FireIsLaw, LawIsWhole
<1> QED
    BY <1>1, <1>2 DEF TriggerNext, triggerVars

(* The reference of the model, in terms of the kinds of path.              *)
LEMMA PathFacts ==
    ASSUME NominalTypeOK
    PROVE  /\ Len(nominal) \in Nat /\ DOMAIN nominal = 1 .. Len(nominal)
           /\ Forecast!Paths \X Forecast!Paths = Pairs(Len(nominal))
           /\ Forecast!PairPart = Certain(Len(nominal), Forecast!SurePair)
           /\ Forecast!Everything = Certain(Len(nominal), Forecast!SurePair * SURE)
<1>1. Len(nominal) \in Nat /\ DOMAIN nominal = 1 .. Len(nominal)
    BY DEF NominalTypeOK
<1> QED
    BY <1>1 DEF Forecast!Paths, Pairs, PathsOf, Forecast!PairPart, Forecast!Everything, Certain

LEMMA WeightIsLaw ==
    ASSUME NominalTypeOK, NEW p \in Pairs(Len(nominal))
    PROVE  Forecast!IndependentWeight(p[1], p[2]) = PathLaw[p]
<1> DEFINE n == Len(nominal)
           f == [k \in DOMAIN nominal |->
                    (IF p[1][k] THEN Forecast!candidate(nominal[k])
                     ELSE Forecast!SurePair - Forecast!candidate(nominal[k]))
                    * (IF p[2][k] THEN Forecast!violation(k, nominal[k])
                       ELSE SURE - Forecast!violation(k, nominal[k]))]
           g == [k \in 1 .. n |-> Term(CandidateParts, ViolationParts, p, k)]
<1>1. DOMAIN nominal = 1 .. n
    BY PathFacts
<1>2. \A k \in 1 .. n : f[k] = g[k]
    BY <1>1 DEF Term, Factor, CandidateParts, ViolationParts
<1>3. f = g
    BY <1>1, <1>2
<1>4. Forecast!IndependentWeight(p[1], p[2]) = Forecast!Product(f)
    BY DEF Forecast!IndependentWeight
<1>5. PathLaw[p] = Forecast!Product(g)
    BY DEF PathLaw, Law
<1> QED
    BY <1>3, <1>4, <1>5

LEMMA ChanceIsSum ==
    ASSUME NominalTypeOK, NEW decided
    PROVE  /\ Forecast!Decided(decided) \in SUBSET Pairs(Len(nominal))
           /\ Forecast!IndependentChance(decided) = SumOn(PathLaw, Forecast!Decided(decided))
<1> DEFINE f == [path \in Forecast!Paths \X Forecast!Paths |-> Forecast!IndependentWeight(path[1], path[2])]
           D == Forecast!Decided(decided)
<1>1. Forecast!Paths \X Forecast!Paths = Pairs(Len(nominal))
    BY PathFacts
<1>2. D \in SUBSET Pairs(Len(nominal))
    BY <1>1 DEF Forecast!Decided
<1>3. \A p \in Pairs(Len(nominal)) : f[p] = PathLaw[p]
    BY <1>1, WeightIsLaw
<1>4. Forecast!IndependentChance(decided) = SumOn(f, D)
    BY DEF Forecast!IndependentChance, SumOn
<1>5. IsFiniteSet(D) /\ Ints(PathLaw, D)
    BY <1>2, PathFacts, PartsTyped, LawSumIsInt DEF PathLaw
<1>6. \A p \in D : PathLaw[p] = f[p]
    BY <1>2, <1>3
<1> HIDE DEF f, D
<1>7. SumOn(PathLaw, D) = SumOn(f, D)
    BY <1>5, <1>6, SumIsLocal
<1> QED
    BY <1>2, <1>4, <1>7 DEF D

(* How the causal trigger decides on a path, by its kind.                  *)
LEMMA CausalByKind ==
    ASSUME NEW n \in Nat, NEW p \in Pairs(n)
    PROVE  /\ Forecast!Causal(p[1], p[2]).decision = "HOLD_NO_LOCK" <=> p \in Held(n)
           /\ Forecast!Causal(p[1], p[2]).decision = "FIRE" <=> p \in Fired(n)
           /\ Forecast!Causal(p[1], p[2]).decision = "ABORT_UNSAFE"
                  <=> p \notin Held(n) /\ p \notin Fired(n)
<1> DEFINE ends == {k \in DOMAIN p[1] : Forecast!LockAt(p[1], k) \/ p[2][k]}
           run == Forecast!Causal(p[1], p[2])
           first == Forecast!First(ends)
<1>1. DOMAIN p[1] = 1 .. n
    BY PairFacts
<1>2. ends = {k \in 1 .. n : Ends(p, k)} /\ ends \in SUBSET Nat
    BY <1>1 DEF Ends
<1>3. run = IF ends = {} THEN [decision |-> "HOLD_NO_LOCK", at |-> Forecast!Never]
            ELSE IF p[2][first] THEN [decision |-> "ABORT_UNSAFE", at |-> first]
            ELSE [decision |-> "FIRE", at |-> first]
    BY DEF Forecast!Causal
<1> HIDE DEF ends, run
<1>4. CASE ends = {}
    <2>1. run.decision = "HOLD_NO_LOCK"
        BY <1>3, <1>4
    <2>2. p \in Held(n)
        BY <1>2, <1>4 DEF Held
    <2>3. p \notin Fired(n)
        BY <2>2, FiredAreNotHeld
    <2> QED
        BY <2>1, <2>2, <2>3 DEF run
<1>5. CASE ends # {}
    <2>1. first \in ends /\ \A j \in ends : first <= j
        BY <1>2, <1>5, FirstIsFirst
    <2> HIDE DEF first
    <2>2. p \notin Held(n)
        BY <1>2, <1>5 DEF Held
    <2>3. first \in 1 .. n /\ Ends(p, first) /\ \A j \in 1 .. first - 1 : ~Ends(p, j)
        <3>1. first \in 1 .. n /\ Ends(p, first)
            BY <1>2, <2>1
        <3>2. ASSUME NEW j \in 1 .. first - 1, Ends(p, j) PROVE FALSE
            <4>1. j \in ends
                BY <1>2, <3>1, <3>2
            <4> QED
                BY <2>1, <3>1, <4>1
        <3> QED
            BY <3>1, <3>2
    <2>4. ASSUME p[2][first] PROVE p \notin Fired(n)
        <3> SUFFICES ASSUME NEW k \in 1 .. n, FiresAt(p, k) PROVE FALSE
            BY DEF Fired
        <3>1. k \in ends
            BY <1>2 DEF FiresAt, Ends
        <3>2. first <= k /\ first # k
            BY <2>1, <2>4, <3>1 DEF FiresAt
        <3>3. first \in 1 .. k - 1
            BY <2>3, <3>2
        <3> QED
            BY <2>3, <3>3 DEF FiresAt
    <2>5. ASSUME ~p[2][first] PROVE p \in Fired(n)
        BY <2>3, <2>5 DEF Fired, FiresAt, Ends
    <2>6. CASE p[2][first]
        <3>1. run.decision = "ABORT_UNSAFE"
            BY <1>3, <1>5, <2>6
        <3> QED
            BY <2>2, <2>4, <2>6, <3>1 DEF run
    <2>7. CASE ~p[2][first]
        <3>1. run.decision = "FIRE"
            BY <1>3, <1>5, <2>7
        <3> QED
            BY <2>2, <2>5, <2>7, <3>1 DEF run
    <2> QED
        BY <2>6, <2>7
<1> QED
    BY <1>4, <1>5

LEMMA DecidedKinds ==
    ASSUME NominalTypeOK
    PROVE  /\ Forecast!Decided("FIRE") = Fired(Len(nominal))
           /\ Forecast!Decided("HOLD_NO_LOCK") = Held(Len(nominal))
           /\ Forecast!Decided("ABORT_UNSAFE")
                  = Pairs(Len(nominal)) \ (Fired(Len(nominal)) \cup Held(Len(nominal)))
<1> DEFINE n == Len(nominal)
<1>1. n \in Nat /\ Forecast!Paths \X Forecast!Paths = Pairs(n)
    BY PathFacts
<1>2. \A d : Forecast!Decided(d) = {p \in Pairs(n) : Forecast!Causal(p[1], p[2]).decision = d}
    BY <1>1 DEF Forecast!Decided
<1>3. Fired(n) \in SUBSET Pairs(n) /\ Held(n) \in SUBSET Pairs(n)
    BY <1>1, Kinds
<1> HIDE DEF n
<1>4. \A p \in Pairs(n) :
          /\ Forecast!Causal(p[1], p[2]).decision = "HOLD_NO_LOCK" <=> p \in Held(n)
          /\ Forecast!Causal(p[1], p[2]).decision = "FIRE" <=> p \in Fired(n)
          /\ Forecast!Causal(p[1], p[2]).decision = "ABORT_UNSAFE"
                 <=> p \notin Held(n) /\ p \notin Fired(n)
    BY <1>1, CausalByKind
<1>5. Forecast!Decided("FIRE") = Fired(n)
    BY <1>2, <1>3, <1>4
<1>6. Forecast!Decided("HOLD_NO_LOCK") = Held(n)
    BY <1>2, <1>3, <1>4
<1>7. Forecast!Decided("ABORT_UNSAFE") = Pairs(n) \ (Fired(n) \cup Held(n))
    BY <1>2, <1>3, <1>4
<1> QED
    BY <1>5, <1>6, <1>7 DEF n

LEMMA LawIsExact == ForecastInv => Forecast!LawOfIndependentChecks
<1> SUFFICES ASSUME ForecastInv PROVE Forecast!LawOfIndependentChecks
    OBVIOUS
<1> DEFINE n == Len(nominal)
           F == Fired(n)
           H == Held(n)
           A == Pairs(n) \ (F \cup H)
<1>1. NominalTypeOK /\ fire_probability \in Int /\ locked \in Int /\ survival \in Int
    BY DEF ForecastInv, ForecastTypeOK
<1>2. /\ n \in Nat /\ Forecast!PairPart = Certain(n, Forecast!SurePair)
      /\ Forecast!Everything = Certain(n, Forecast!SurePair * SURE)
    BY <1>1, PathFacts
<1>3. /\ Forecast!IndependentChance("FIRE") = SumOn(PathLaw, F)
      /\ Forecast!IndependentChance("HOLD_NO_LOCK") = SumOn(PathLaw, H)
      /\ Forecast!IndependentChance("ABORT_UNSAFE") = SumOn(PathLaw, A)
    BY <1>1, ChanceIsSum, DecidedKinds
<1>4. fire_probability = SumOn(PathLaw, F)
    BY DEF ForecastInv, FireIsLaw
<1>5. Forecast!hold_probability = SumOn(PathLaw, H)
    BY <1>2 DEF ForecastInv, HoldIsLaw, Forecast!hold_probability
<1>6. Forecast!Everything = SumOn(PathLaw, Pairs(n))
    BY <1>2 DEF ForecastInv, LawIsWhole
<1>7. /\ F \in SUBSET Pairs(n) /\ H \in SUBSET Pairs(n) /\ A \in SUBSET Pairs(n)
      /\ F \cup H \in SUBSET Pairs(n) /\ F \cap H = {}
    BY <1>2, Kinds, FiredAreNotHeld
<1>8. \A S \in SUBSET Pairs(n) :
          IsFiniteSet(S) /\ Ints(PathLaw, S) /\ SumOn(PathLaw, S) \in Int
    BY <1>1, <1>2, PartsTyped, LawSumIsInt DEF PathLaw
<1>9. Pairs(n) = (F \cup H) \cup A /\ (F \cup H) \cap A = {}
    BY <1>7
<1> HIDE DEF F, H, A, n
<1>10. SumOn(PathLaw, F \cup H) = SumOn(PathLaw, F) + SumOn(PathLaw, H)
    <2>1. IsFiniteSet(F) /\ IsFiniteSet(H) /\ Ints(PathLaw, F) /\ Ints(PathLaw, H)
        BY <1>7, <1>8
    <2> QED
        BY <1>7, <2>1, SumOfUnion
<1>11. SumOn(PathLaw, Pairs(n)) = SumOn(PathLaw, F \cup H) + SumOn(PathLaw, A)
    <2> DEFINE U == F \cup H
    <2>1. IsFiniteSet(U) /\ IsFiniteSet(A) /\ Ints(PathLaw, U) /\ Ints(PathLaw, A)
          /\ Pairs(n) = U \cup A /\ U \cap A = {}
        BY <1>7, <1>8, <1>9
    <2> HIDE DEF U
    <2>2. SumOn(PathLaw, U \cup A) = SumOn(PathLaw, U) + SumOn(PathLaw, A)
        BY <2>1, SumOfUnion
    <2> QED
        BY <2>1, <2>2 DEF U
<1>12. SumOn(PathLaw, F) \in Int /\ SumOn(PathLaw, H) \in Int /\ SumOn(PathLaw, A) \in Int
    BY <1>7, <1>8
<1>13. Forecast!Everything - fire_probability - Forecast!hold_probability = SumOn(PathLaw, A)
    BY <1>4, <1>5, <1>6, <1>10, <1>11, <1>12
<1> QED
    BY <1>3, <1>4, <1>5, <1>13
       DEF Forecast!LawOfIndependentChecks, Forecast!abort_unsafe_probability

(* Without noise all the weight is on the nominal path.                    *)
NominalViolations == [k \in DOMAIN nominal |-> nominal[k].separation < 0]
NominalPath == <<Forecast!Candidates, NominalViolations>>

LEMMA ProductHasFactor ==
    ASSUME NEW S, IsFiniteSet(S), NEW f, S = DOMAIN f, Ints(f, S), NEW y \in S
    PROVE  \E c \in Int : Forecast!Product(f) = f[y] * c
<1> DEFINE g == [k \in S \ {y} |-> f[k]]
<1>1. DOMAIN g = S \ {y} /\ \A k \in S \ {y} : g[k] = f[k]
    OBVIOUS
<1> HIDE DEF g
<1>2. Forecast!Product(f) = f[y] * Forecast!Product(g) /\ Forecast!Product(g) \in Int
    BY <1>1, ProductTakesOut
<1> QED
    BY <1>2

(* A channel without noise is certain, one way or the other.               *)
LEMMA NoiseFreeParts ==
    ASSUME NominalTypeOK, noise = {}, NEW k \in 1 .. Len(nominal)
    PROVE  /\ Forecast!Candidates[k] \in BOOLEAN /\ NominalViolations[k] \in BOOLEAN
           /\ CandidateParts[k] = IF Forecast!Candidates[k] THEN Forecast!SurePair ELSE 0
           /\ ViolationParts[k] = IF NominalViolations[k] THEN SURE ELSE 0
<1>1. nominal[k] \in Nominals /\ DOMAIN nominal = 1 .. Len(nominal)
    BY DEF NominalTypeOK
<1>2. nominal[k].phase \in Int /\ nominal[k].reference \in Int /\ nominal[k].separation \in Int
    BY <1>1, SlacksAreNumbers DEF Nominals
<1>3. Forecast!Candidates[k] <=> nominal[k].phase >= 0 /\ nominal[k].reference >= 0
    <2>1. Forecast!Candidates[k] = (Forecast!window_margin(k) >= 0)
        BY <1>1 DEF Forecast!Candidates
    <2>2. Forecast!window_margin(k) >= 0 <=> nominal[k].phase >= 0 /\ nominal[k].reference >= 0
        BY <1>2 DEF Forecast!window_margin, Forecast!Smaller
    <2> QED
        BY <2>1, <2>2
<1>4. Forecast!Candidates[k] \in BOOLEAN /\ NominalViolations[k] \in BOOLEAN
      /\ (NominalViolations[k] <=> nominal[k].separation < 0)
    <2>1. Forecast!Candidates[k] = (Forecast!window_margin(k) >= 0)
        BY <1>1 DEF Forecast!Candidates
    <2>2. NominalViolations[k] = (nominal[k].separation < 0)
        BY <1>1 DEF NominalViolations
    <2>3. (Forecast!window_margin(k) >= 0) \in BOOLEAN /\ (nominal[k].separation < 0) \in BOOLEAN
        OBVIOUS
    <2> QED
        BY <2>1, <2>2, <2>3
<1>5. PICK a \in Int : a = Forecast!threshold_probability("phase", nominal[k].phase)
                       /\ a = IF nominal[k].phase >= 0 THEN SURE ELSE 0
    BY SureIsInt DEF Forecast!threshold_probability
<1>6. PICK b \in Int : b = Forecast!threshold_probability("reference", nominal[k].reference)
                       /\ b = IF nominal[k].reference >= 0 THEN SURE ELSE 0
    BY SureIsInt DEF Forecast!threshold_probability
<1>7. CandidateParts[k] = a * b
    BY <1>5, <1>6 DEF CandidateParts, Forecast!candidate
<1>8. a * b = IF nominal[k].phase >= 0 /\ nominal[k].reference >= 0 THEN SURE * SURE ELSE 0
    <2>1. CASE nominal[k].phase >= 0 /\ nominal[k].reference >= 0
        BY <1>5, <1>6, <2>1
    <2>2. CASE ~(nominal[k].phase >= 0)
        <3>1. a = 0 /\ 0 * b = 0
            BY <1>5, <2>2
        <3> QED
            BY <2>2, <3>1
    <2>3. CASE ~(nominal[k].reference >= 0)
        <3>1. b = 0 /\ a * 0 = 0
            BY <1>6, <2>3
        <3> QED
            BY <2>3, <3>1
    <2> QED
        BY <2>1, <2>2, <2>3
<1>9. CandidateParts[k] = IF Forecast!Candidates[k] THEN Forecast!SurePair ELSE 0
    BY <1>3, <1>7, <1>8 DEF Forecast!SurePair
<1>10. ViolationParts[k] = IF NominalViolations[k] THEN SURE ELSE 0
    <2> DEFINE S == {run \in Draws \X Draws : Forecast!Trips(k, nominal[k], run[1], run[2])}
    <2>1. ViolationParts[k] = Cardinality(S)
        BY SameSets DEF ViolationParts, Forecast!violation
    <2>2. S = IF NominalViolations[k] THEN Draws \X Draws ELSE {}
        BY <1>4 DEF Forecast!Trips
    <2> HIDE DEF S
    <2> QED
        BY <2>1, <2>2, DrawFacts, FS_EmptySet
<1> QED
    BY <1>4, <1>9, <1>10

LEMMA NominalPathIsOne == NominalTypeOK => NominalPath \in Pairs(Len(nominal))
<1> SUFFICES ASSUME NominalTypeOK PROVE NominalPath \in Pairs(Len(nominal))
    OBVIOUS
<1>1. DOMAIN nominal = 1 .. Len(nominal)
    BY PathFacts
<1>2. Forecast!Candidates \in PathsOf(Len(nominal))
    BY <1>1 DEF Forecast!Candidates, PathsOf
<1>3. NominalViolations \in PathsOf(Len(nominal))
    BY <1>1 DEF NominalViolations, PathsOf
<1> QED
    BY <1>2, <1>3 DEF NominalPath, Pairs

LEMMA OtherPathsWeighNothing ==
    ASSUME NominalTypeOK, noise = {}, NEW p \in Pairs(Len(nominal)), p # NominalPath
    PROVE  PathLaw[p] = 0
<1> DEFINE n == Len(nominal)
           f == [k \in 1 .. n |-> Term(CandidateParts, ViolationParts, p, k)]
<1>1. n \in Nat /\ DOMAIN nominal = 1 .. n
    BY PathFacts
<1>2. PartsOf(CandidateParts, ViolationParts, n)
    BY PartsTyped
<1>3. p[1] \in [1 .. n -> BOOLEAN] /\ p[2] \in [1 .. n -> BOOLEAN] /\ p = <<p[1], p[2]>>
    BY <1>1, PairFacts
<1>4. \E k \in 1 .. n : p[1][k] # Forecast!Candidates[k] \/ p[2][k] # NominalViolations[k]
    <2> SUFFICES ASSUME \A k \in 1 .. n : /\ p[1][k] = Forecast!Candidates[k]
                                          /\ p[2][k] = NominalViolations[k]
                 PROVE  FALSE
        OBVIOUS
    <2>1. p[1] = Forecast!Candidates
        BY <1>1, <1>3 DEF Forecast!Candidates
    <2>2. p[2] = NominalViolations
        BY <1>1, <1>3 DEF NominalViolations
    <2> QED
        BY <1>3, <2>1, <2>2 DEF NominalPath
<1>5. PICK k \in 1 .. n : p[1][k] # Forecast!Candidates[k] \/ p[2][k] # NominalViolations[k]
    BY <1>4
<1>6. f[k] = Factor(CandidateParts[k], ViolationParts[k], p[1][k], p[2][k])
    BY DEF Term
<1>7. /\ CandidateParts[k] = IF Forecast!Candidates[k] THEN Forecast!SurePair ELSE 0
      /\ ViolationParts[k] = IF NominalViolations[k] THEN SURE ELSE 0
      /\ Forecast!Candidates[k] \in BOOLEAN /\ NominalViolations[k] \in BOOLEAN
    BY NoiseFreeParts
<1>8. p[1][k] \in BOOLEAN /\ p[2][k] \in BOOLEAN
    BY <1>3
<1>9. PICK a \in Int : a = IF p[1][k] THEN CandidateParts[k]
                           ELSE Forecast!SurePair - CandidateParts[k]
    BY <1>7, SureIsInt
<1>10. PICK b \in Int : b = IF p[2][k] THEN ViolationParts[k] ELSE SURE - ViolationParts[k]
    BY <1>7, SureIsInt
<1>11. f[k] = a * b
    BY <1>6, <1>9, <1>10 DEF Factor
<1>12. a = 0 \/ b = 0
    <2>1. CASE p[1][k] # Forecast!Candidates[k]
        <3>1. a = 0
            BY <1>7, <1>8, <1>9, <2>1, SureIsInt
        <3> QED
            BY <3>1
    <2>2. CASE p[2][k] # NominalViolations[k]
        <3>1. b = 0
            BY <1>7, <1>8, <1>10, <2>2, SureIsInt
        <3> QED
            BY <3>1
    <2> QED
        BY <1>5, <2>1, <2>2
<1>13. f[k] = 0
    <2>1. 0 * b = 0 /\ a * 0 = 0
        OBVIOUS
    <2> QED
        BY <1>11, <1>12, <2>1
<1>14. DOMAIN f = 1 .. n /\ Ints(f, 1 .. n)
    <2>1. \A j \in 1 .. n : f[j] \in Int
        BY <1>2, FactorIsInt DEF Term, PartsOf
    <2> QED
        BY <2>1 DEF Ints
<1>15. PathLaw[p] = Forecast!Product(f)
    BY DEF PathLaw, Law
<1> HIDE DEF f
<1>16. Forecast!Product(f) = 0
    <2> DEFINE S == 1 .. n
    <2>1. IsFiniteSet(S) /\ S = DOMAIN f /\ Ints(f, S) /\ k \in S
        BY <1>1, <1>14, FS_Interval
    <2> HIDE DEF S
    <2>2. PICK c \in Int : Forecast!Product(f) = f[k] * c
        BY <2>1, ProductHasFactor
    <2>3. 0 * c = 0
        OBVIOUS
    <2> QED
        BY <1>13, <2>2, <2>3
<1> QED
    BY <1>15, <1>16

LEMMA NoiseFreeIsCertain ==
    ASSUME ForecastInv, noise = {},
           Forecast!select_fire_time(TRUE, TRUE, "FIRST_LOCK") # Forecast!Never
    PROVE  fire_probability = Forecast!Everything
<1> DEFINE n == Len(nominal)
<1>1. NominalTypeOK /\ n \in Nat
    BY PathFacts DEF ForecastInv, ForecastTypeOK
<1>2. NominalPath \in Pairs(n)
    BY <1>1, NominalPathIsOne
<1>3. NominalPath \in Fired(n)
    <2>1. Forecast!PlanIsCausal
        BY <1>1, PlanFollowsCausal
    <2>2. Forecast!Causal(Forecast!Candidates, NominalViolations).decision = "FIRE"
        BY <2>1 DEF Forecast!PlanIsCausal, NominalViolations
    <2>3. NominalPath[1] = Forecast!Candidates /\ NominalPath[2] = NominalViolations
        BY DEF NominalPath
    <2> QED
        BY <1>1, <1>2, <2>2, <2>3, CausalByKind
<1>4. ASSUME NEW S \in SUBSET Pairs(n), NominalPath \in S
      PROVE  SumOn(PathLaw, S) = PathLaw[NominalPath]
    <2>1. IsFiniteSet(S) /\ Ints(PathLaw, S)
        BY <1>1, PartsTyped, LawSumIsInt DEF PathLaw
    <2>2. SumOn(PathLaw, S) = PathLaw[NominalPath] + SumOn(PathLaw, S \ {NominalPath})
        BY <1>4, <2>1, SumTakesOut
    <2>3. \A p \in S \ {NominalPath} : PathLaw[p] = 0
        BY <1>1, OtherPathsWeighNothing
    <2>4. SumOn(PathLaw, S \ {NominalPath}) = 0
        <3>1. IsFiniteSet(S \ {NominalPath})
            BY <2>1, FS_Subset
        <3> QED
            BY <2>3, <3>1, SumOfZeros
    <2>5. PathLaw[NominalPath] \in Int
        BY <1>4, <2>1 DEF Ints
    <2> QED
        BY <2>2, <2>4, <2>5
<1>5. Fired(n) \in SUBSET Pairs(n) /\ Pairs(n) \in SUBSET Pairs(n)
    BY <1>1, Kinds
<1>6. SumOn(PathLaw, Fired(n)) = SumOn(PathLaw, Pairs(n))
    <2>1. SumOn(PathLaw, Fired(n)) = PathLaw[NominalPath]
        BY <1>3, <1>4, <1>5
    <2>2. SumOn(PathLaw, Pairs(n)) = PathLaw[NominalPath]
        <3> DEFINE S == Pairs(n)
        <3>1. S \in SUBSET Pairs(n) /\ NominalPath \in S
            BY <1>2
        <3> HIDE DEF S
        <3>2. SumOn(PathLaw, S) = PathLaw[NominalPath]
            BY <1>4, <3>1
        <3> QED
            BY <3>2 DEF S
    <2> QED
        BY <2>1, <2>2
<1>7. fire_probability = SumOn(PathLaw, Fired(n))
    BY DEF ForecastInv, FireIsLaw
<1>8. Forecast!Everything = SumOn(PathLaw, Pairs(n))
    BY <1>1, PathFacts DEF ForecastInv, LawIsWhole
<1> QED
    BY <1>6, <1>7, <1>8

(* On checks drawn independently the forecast is the exact law of the      *)
(* decision: to the last part, the chances that the recursion and the      *)
(* product of survivals give are those that the causal trigger fires,      *)
(* holds or aborts, summed over every path of the checks.  For every       *)
(* streak length, every approach and every law of the errors.              *)
THEOREM ForecastsByTheLaw == TriggerSpec => []Forecast!LawOfIndependentChecks
<1>1. TriggerInit => ForecastInv
    BY ForecastInitially DEF TriggerInit
<1>2. ForecastInv /\ [TriggerNext]_triggerVars => ForecastInv'
    BY ForecastStep
<1> QED
    BY <1>1, <1>2, LawIsExact, PTL DEF TriggerSpec

=============================================================================
