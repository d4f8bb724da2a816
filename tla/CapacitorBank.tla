---------------------------- MODULE CapacitorBank ----------------------------
(***************************************************************************)
(* CapacitorBank of src/scpn_mif_core/lifecycle/capacitor_bank.py: a       *)
(* series RLC bank advanced by the Crank-Nicolson scheme, discharged into  *)
(* a prescribed load, and asked what it could do next.                     *)
(*                                                                         *)
(* The numbers are integers: C = L = 1 and the half step dt / 2 = 1, so    *)
(* that Z0 = 1, with a resistance R.  The 2 x 2 system is solved exactly;  *)
(* a step whose solution is no integer is left out (OnGrid).  Energies are *)
(* twice the code's.  A magnitude above RANGE stands for one whose energy  *)
(* is not finite: _build_state raises on it.                               *)
(***************************************************************************)
EXTENDS Integers, Sequences, SequencesExt

CONSTANTS R_VALUES,        \* series resistances tried
          VOLTAGE_MAX,     \* voltage_max_V
          POWER,           \* recharge_power_kW
          RANGE,           \* largest magnitude with a finite energy
          MAX_PEAK,        \* largest peak_current_A tried
          MAX_STEPS        \* most steps in one discharge

BankAssumption ==
    /\ R_VALUES \subseteq Nat /\ VOLTAGE_MAX \in Nat \ {0} /\ POWER \in Nat
    /\ RANGE \in Nat /\ VOLTAGE_MAX <= RANGE
    /\ MAX_PEAK \in Nat \ {0} /\ MAX_STEPS \in Nat \ {0}

VARIABLES R, v, i,
          report       \* what the last call, a discharge, returned

bankVars == <<R, v, i, report>>

Magnitude(x) == IF x < 0 THEN -x ELSE x
Larger(x, y) == IF x < y THEN y ELSE x
Energy(s) == s.v * s.v + s.i * s.i

Waveforms == {"rect", "half_sine", "exp_decay"}
PulseSpec == [peak : 1 .. MAX_PEAK, duration : 1 .. 2 * MAX_STEPS, waveform : Waveforms]

NoReport == [delivered |-> 0, drawn |-> 0, peak_v |-> 0, peak_i |-> 0]

BankInit == R \in R_VALUES /\ v \in 0 .. VOLTAGE_MAX /\ i = 0 /\ report = NoReport

-----------------------------------------------------------------------------
(* One Crank-Nicolson step: C(v' - v) = -(i + i') - 2 load and             *)
(* L(i' - i) = (v + v') - R(i + i').                                       *)
Determinant == 2 + R
RightV(s, load) == s.v - s.i - 2 * load
RightI(s) == s.v + (1 - R) * s.i
OnGrid(s, load) ==
    /\ ((1 + R) * RightV(s, load) - RightI(s)) % Determinant = 0
    /\ (RightV(s, load) + RightI(s)) % Determinant = 0

(* Mutant: the load is taken with the coefficient of a half step. *)
SolveHalfLoad(s, load) ==
    LET right == s.v - s.i - load IN
    [v |-> ((1 + R) * right - RightI(s)) \div Determinant,
     i |-> (right + RightI(s)) \div Determinant]

Solve(s, load) ==
    [v |-> ((1 + R) * RightV(s, load) - RightI(s)) \div Determinant,
     i |-> (RightV(s, load) + RightI(s)) \div Determinant]

(* _build_state *)
Finite(s) == Magnitude(s.v) <= RANGE /\ Magnitude(s.i) <= RANGE

Loads == -1 .. 1     \* load currents tried on a step of its own

step ==
    \E load \in Loads :
        /\ OnGrid([v |-> v, i |-> i], load)
        /\ LET next == Solve([v |-> v, i |-> i], load) IN
           /\ Finite(next)
           /\ v' = next.v /\ i' = next.i
    /\ report' = NoReport /\ UNCHANGED R

reset ==
    /\ v' \in 0 .. VOLTAGE_MAX /\ i' = 0
    /\ report' = NoReport /\ UNCHANGED R

-----------------------------------------------------------------------------
(* _sample_waveform at the centre of the k-th interval, time 2k - 1.  Of   *)
(* the sine and the decay only the range is kept.                          *)
Samples(pulse, k) ==
    IF 2 * k - 1 > pulse.duration THEN {0}
    ELSE IF pulse.waveform = "rect" THEN {pulse.peak}
    ELSE 0 .. pulse.peak

(* What load and resistance draw in one step, by the circuit and not by    *)
(* the books.                                                              *)
Drawn(s, next, load) ==
    2 * load * (s.v + next.v) + R * (s.i + next.i) * (s.i + next.i)

(* One round of the loop of discharge; a step that raises leaves it.       *)
Round(s, load) ==
    LET next == Solve(s, load) IN
    IF s.how # "ran" THEN s
    ELSE IF ~OnGrid(s, load) THEN [s EXCEPT !.how = "off_grid"]
    ELSE IF ~Finite(next) THEN [s EXCEPT !.how = "raised"]
    ELSE [v |-> next.v, i |-> next.i, how |-> "ran",
          drawn |-> s.drawn + Drawn(s, next, load),
          peak_v |-> Larger(s.peak_v, Magnitude(next.v)),
          peak_i |-> Larger(s.peak_i, Magnitude(next.i))]

Rounds(start, loads) == FoldLeft(Round, start, loads)

(* A round that raises keeps the rounds before it, and there is no report. *)
discharge ==
    \E pulse \in PulseSpec, n_steps \in 1 .. MAX_STEPS :
    \E loads \in [1 .. n_steps -> 0 .. MAX_PEAK] :
        /\ \A k \in 1 .. n_steps : loads[k] \in Samples(pulse, k)
        /\ LET start == [v |-> v, i |-> i, how |-> "ran", drawn |-> 0,
                         peak_v |-> Magnitude(v), peak_i |-> Magnitude(i)]
               end == Rounds(start, loads)
           IN /\ end.how # "off_grid"
              /\ v' = end.v /\ i' = end.i
              /\ report' = IF end.how = "raised" THEN NoReport
                           ELSE [delivered |-> Energy(start) - Energy(end),
                                 drawn |-> end.drawn,
                                 peak_v |-> end.peak_v, peak_i |-> end.peak_i]
        /\ UNCHANGED R

BankNext == step \/ reset \/ discharge

BankSpec == BankInit /\ [][BankNext]_bankVars

-----------------------------------------------------------------------------
(* feasibility: the natural peak, then the rough resistive loss (twice the *)
(* energy, with the mean square of the waveform in tenths).                *)
natural_peak_current == Magnitude(v)

MeanSquareTenths == [rect |-> 10, half_sine |-> 5, exp_decay |-> 1]

Feasible(pulse) ==
    /\ v > 0 => pulse.peak <= natural_peak_current
    /\ 2 * R * pulse.peak * pulse.peak * MeanSquareTenths[pulse.waveform] * pulse.duration
         <= 10 * (v * v + i * i)

(* recharge_status: the projected energy after time t.                     *)
ProjectedEnergy(t) ==
    IF POWER = 0 THEN v * v
    ELSE IF 2 * POWER * t >= Larger(VOLTAGE_MAX * VOLTAGE_MAX - v * v, 0)
    THEN VOLTAGE_MAX * VOLTAGE_MAX ELSE v * v + 2 * POWER * t

-----------------------------------------------------------------------------
(* What a discharge reports as delivered is what the load took and the     *)
(* resistance burnt, whatever the bank's charge and current were, also     *)
(* when the load pumped energy back; and the peaks it reports bound the    *)
(* energy that is left.                                                    *)
DischargeAccounts ==
    /\ report.delivered = report.drawn
    /\ report.delivered <= report.peak_v * report.peak_v + report.peak_i * report.peak_i

(* A recharge projection promises no energy that the supply has not paid   *)
(* for, also from a bank that rang to the wrong polarity or past its       *)
(* maximum.                                                                *)
ProjectionIsPaidFor ==
    \A t \in 0 .. VOLTAGE_MAX * VOLTAGE_MAX :
        ProjectedEnergy(t) <= v * v + 2 * POWER * t

(* Less is never harder: a pulse with a lower peak or a shorter time than  *)
(* one that passes the test passes it too, at either polarity.             *)
FeasibilityIsMonotone ==
    \A p, q \in PulseSpec :
        Feasible(p) /\ q.waveform = p.waveform /\ q.peak <= p.peak /\ q.duration <= p.duration
            => Feasible(q)

(* The bank's books: what it reports it gave, what it promises to have,    *)
(* and what it says it can give.                                           *)
BankAccounts == DischargeAccounts /\ ProjectionIsPaidFor /\ FeasibilityIsMonotone
=============================================================================
