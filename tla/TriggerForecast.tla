---------------------------- MODULE TriggerForecast ----------------------------
(***************************************************************************)
(* What the trigger is expected to do on a nominal approach, before it is  *)
(* flown: kinematic/trigger_probability.py propagates the sensor noise     *)
(* through the decision law, kinematic/fire_time.py picks the instant.     *)
(*                                                                         *)
(* A nominal sample is its slack in three directions: phase and reference  *)
(* error against the merge window, separation against the envelope.        *)
(* Probabilities are counted in parts of SURE per channel, and everything  *)
(* a recursion holds is scaled by the parts of the samples so far, so that *)
(* no rounding is involved.  Phi stands for the normal distribution: it is *)
(* increasing and symmetric, with slack 0 at its median.                   *)
(*                                                                         *)
(* A separation's error is one of finitely many, equally likely Draws, and *)
(* is read by two checks: its own, and, contracted, the next sample's.     *)
(* The propagation takes the checks for independent, which its docstring   *)
(* calls an approximation; a history of the draws tells how it errs.       *)
(***************************************************************************)
EXTENDS Integers, Sequences, FiniteSets, Functions

CONSTANTS streak_length,      \* consecutive_samples of the merge window
          SURE,               \* parts of certainty
          Phi,                \* slack -> parts
          Draws,              \* errors of a noisy separation
          CONTRACTION, UNIT,  \* the envelope keeps CONTRACTION / UNIT of one
          Noises,             \* sets of channels that may be noisy together
          MAX_APPROACH        \* bound on the samples of an approach

Channels == {"phase", "reference", "separation"}

ForecastAssumption ==
    /\ streak_length \in Nat \ {0} /\ MAX_APPROACH \in Nat
    /\ IsFiniteSet(Draws) /\ Draws \subseteq Int /\ Draws # {}
    /\ SURE = Cardinality(Draws) * Cardinality(Draws)
    /\ CONTRACTION \in Nat /\ UNIT \in Nat \ {0}
    /\ Noises \subseteq SUBSET Channels /\ DOMAIN Phi \subseteq Int
    /\ \A z \in DOMAIN Phi :
          -z \in DOMAIN Phi /\ Phi[z] \in 0 .. SURE /\ Phi[z] + Phi[-z] = SURE
    /\ \A y, z \in DOMAIN Phi : y < z => Phi[y] < Phi[z]

Slacks == DOMAIN Phi

VARIABLES
    noise,              \* the channels with a sigma above zero
    nominal,            \* the samples so far
    states, locked,     \* _StreakStateRecursion
    survival, fire_probability,
    survivors,          \* history: of a draw, the runs of draws that trip no check and end in it
    fired               \* history: the weight of all runs that fired

forecastVars == <<noise, nominal, states, locked, survival, fire_probability, survivors, fired>>

ForecastInit ==
    /\ noise \in Noises
    /\ nominal = <<>>
    /\ states = [n \in 0 .. streak_length - 1 |-> IF n = 0 THEN 1 ELSE 0] /\ locked = 0
    /\ survival = 1 /\ fire_probability = 0
    /\ survivors = [d \in Draws |-> 1] /\ fired = 0

-----------------------------------------------------------------------------
(* Probabilities that a measured value stays inside, and that it leaves.   *)
threshold_probability(channel, slack) ==
    IF channel \in noise THEN Phi[slack] ELSE IF slack >= 0 THEN SURE ELSE 0

candidate(s) == threshold_probability("phase", s.phase)
                * threshold_probability("reference", s.reference)

(* The k-th check trips on draw d, the draw before it being before: the    *)
(* initial margin on the first sample, the one-step slack afterwards.      *)
Trips(k, s, before, d) ==
    IF "separation" \notin noise THEN s.separation < 0
    ELSE IF k = 1 THEN d > s.separation
    ELSE UNIT * d - CONTRACTION * before > UNIT * s.separation

(* _exceedance_probability of the k-th check.                              *)
violation(k, s) == Cardinality({run \in Draws \X Draws : Trips(k, s, run[1], run[2])})

SurePair == SURE * SURE

(* advance: the streak grows or falls to zero; the full one is absorbed.   *)
Absorbed(q) == states[streak_length - 1] * q
Unlocked == SumFunction(states)

advance(q) ==
    /\ states' = [n \in DOMAIN states |->
                     IF n = 0 THEN Unlocked * (SurePair - q) ELSE states[n - 1] * q]
    /\ locked' = locked * SurePair + Absorbed(q)

(* Mutant: a violation only counts against later locks. *)
FireBeforeViolation(q, x) == Absorbed(q) * survival * SURE

(* The lock arrives here and no check through this sample tripped.         *)
FireHere(q, x) == Absorbed(q) * survival * (SURE - x)

(* One round of propagate_trigger_probabilities.                           *)
Recursion(s, q, x) ==
    /\ nominal' = Append(nominal, s)
    /\ advance(q)
    /\ survival' = survival * (SURE - x)
    /\ fire_probability' = fire_probability * SurePair * SURE + FireHere(q, x)

(* What the approach does itself: the draw of a sample goes on to the next *)
(* check, and a lock fires on the runs of draws that survived so far.      *)
Survivors == SumFunction(survivors)

Approach(s, q) ==
    LET k == Len(nominal) + 1 IN
    /\ survivors' = [d \in Draws |->
                        SumFunctionOnSet(survivors,
                                         {before \in Draws : ~Trips(k, s, before, d)})]
    /\ fired' = fired * SurePair * Cardinality(Draws) + Absorbed(q) * SumFunction(survivors')

propagate ==
    /\ Len(nominal) < MAX_APPROACH
    /\ \E phase \in Slacks, reference \in Slacks, separation \in Slacks :
          LET s == [phase |-> phase, reference |-> reference, separation |-> separation] IN
          Recursion(s, candidate(s), violation(Len(nominal) + 1, s)) /\ Approach(s, candidate(s))
    /\ UNCHANGED noise

ForecastSpec == ForecastInit /\ [][propagate]_forecastVars

(* The trace-level results, in parts of Everything.                        *)
Product(factors) == FoldFunction(LAMBDA x, y : x * y, 1, factors)

PairPart == Product([k \in DOMAIN nominal |-> SurePair])
Everything == Product([k \in DOMAIN nominal |-> SurePair * SURE])
hold_probability == (PairPart - locked) * survival
abort_unsafe_probability == Everything - fire_probability - hold_probability

-----------------------------------------------------------------------------
(* select_fire_time on the nominal trace, by position; Never if blocked.   *)
Never == 0

Smaller(x, y) == IF x < y THEN x ELSE y
window_margin(k) == Smaller(nominal[k].phase, nominal[k].reference)

LockAt(candidates, k) ==
    /\ k >= streak_length
    /\ \A j \in k - streak_length + 1 .. k : candidates[j]

First(S) == CHOOSE k \in S : \A j \in S : k <= j

Candidates == [k \in DOMAIN nominal |-> window_margin(k) >= 0]
Eligible == {k \in DOMAIN nominal : LockAt(Candidates, k)}
CertificatePassed == \A k \in DOMAIN nominal : nominal[k].separation >= 0
(* Mutant: the widest margin of any sample, inside a lock or not. *)
WidestAnywhere ==
    {k \in DOMAIN nominal : \A j \in DOMAIN nominal : window_margin(j) <= window_margin(k)}

Widest == {k \in Eligible : \A j \in Eligible : window_margin(j) <= window_margin(k)}

select_fire_time(armed, bank_feasible, policy) ==
    IF ~armed \/ ~CertificatePassed \/ ~bank_feasible \/ Eligible = {} THEN Never
    ELSE IF policy = "FIRST_LOCK" THEN First(Eligible) ELSE First(Widest)

-----------------------------------------------------------------------------
(* The causal trigger, armed and with a feasible bank, on measured         *)
(* candidates and violations: where it fires, or what it ends with.        *)
Causal(candidates, violations) ==
    LET ends == {k \in DOMAIN candidates : LockAt(candidates, k) \/ violations[k]} IN
    IF ends = {} THEN [decision |-> "HOLD_NO_LOCK", at |-> Never]
    ELSE IF violations[First(ends)] THEN [decision |-> "ABORT_UNSAFE", at |-> First(ends)]
    ELSE [decision |-> "FIRE", at |-> First(ends)]

Paths == [DOMAIN nominal -> BOOLEAN]

(* The weight of a path if every check were drawn for itself.              *)
IndependentWeight(candidates, violations) ==
    Product([k \in DOMAIN nominal |->
                (IF candidates[k] THEN candidate(nominal[k])
                 ELSE SurePair - candidate(nominal[k]))
                * (IF violations[k] THEN violation(k, nominal[k])
                   ELSE SURE - violation(k, nominal[k]))])

Decided(decision) ==
    {path \in Paths \X Paths : Causal(path[1], path[2]).decision = decision}

IndependentChance(decision) ==
    SumFunctionOnSet([path \in Paths \X Paths |-> IndependentWeight(path[1], path[2])],
                     Decided(decision))

(* Under the stated approximation the recursion and the product of         *)
(* survivals are the law of the causal trigger: what they give is, to the  *)
(* last part, the chance that it fires, aborts or holds, over every path,  *)
(* of samples whose checks are drawn independently.                        *)
LawOfIndependentChecks ==
    /\ fire_probability = IndependentChance("FIRE")
    /\ hold_probability = IndependentChance("HOLD_NO_LOCK")
    /\ abort_unsafe_probability = IndependentChance("ABORT_UNSAFE")

(* And the approximation errs to one side.  On the approach itself, where  *)
(* a check shares its draw with the next, no check trips so far with at    *)
(* most the chance given, and the trigger fires with at most the chance    *)
(* given: an abort is never less likely than the forecast has it.          *)
DrawPart == Product([k \in DOMAIN nominal |-> Cardinality(Draws)])

ErrsTowardsFire ==
    /\ Survivors * DrawPart <= survival * Cardinality(Draws)
    /\ fired * DrawPart <= fire_probability * Cardinality(Draws)

(* The planned instant is the one the causal trigger takes on the nominal  *)
(* approach, unless that is violated later; the other policy never fires   *)
(* where this one does not, nor outside a sustained lock, nor earlier, nor *)
(* with a smaller margin.                                                  *)
PlanIsCausal ==
    LET nominalRun == Causal(Candidates, [k \in DOMAIN nominal |-> nominal[k].separation < 0])
        first == select_fire_time(TRUE, TRUE, "FIRST_LOCK")
        widest == select_fire_time(TRUE, TRUE, "MAX_WINDOW_MARGIN")
    IN  /\ first # Never => nominalRun = [decision |-> "FIRE", at |-> first]
        /\ nominalRun.decision = "FIRE" /\ first = Never => ~CertificatePassed
        /\ (widest = Never) = (first = Never)
        /\ first # Never => /\ widest >= first /\ LockAt(Candidates, widest)
                            /\ window_margin(widest) >= window_margin(first)

(* The forecast is the law of the decision on independent checks, a bound  *)
(* on it for the checks of an approach, and without noise the decision.    *)
ForecastIsSound ==
    /\ LawOfIndependentChecks
    /\ ErrsTowardsFire
    /\ noise = {} /\ select_fire_time(TRUE, TRUE, "FIRST_LOCK") # Never =>
          fire_probability = Everything
=============================================================================
