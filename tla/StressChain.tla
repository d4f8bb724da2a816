------------------------------ MODULE StressChain ------------------------------
(***************************************************************************)
(* MIF-017 to MIF-008: diagnostics/stress_inject.py degrades a diagnostic  *)
(* stream frame by frame, and cosim/stress_to_fabric.py digitises what is  *)
(* left and counts the spikes of every window with a fresh rate-code       *)
(* reference.  Beside the degraded stream run the same windows of the      *)
(* stream with noise but without losses, of the clean stream, and of a     *)
(* quantiser that is never restarted, as in the RTL.                       *)
(*                                                                         *)
(* The generator's draws are choices: whether a frame drops its channel,   *)
(* the noise added to it, and its jitter.                                  *)
(***************************************************************************)
EXTENDS Integers, Sequences

CONSTANTS Codes,                \* ADC codes of the clean stream
          ADC_MAX,              \* the ADC range is -ADC_MAX - 1 .. ADC_MAX
          NoiseSteps,           \* rounded noise values the sigma admits
          MIN_JITTER, MAX_JITTER,
          Spacings,             \* values of dt_ns offered to the chain
          RATE_THRESHOLD, WINDOW, FRAMES,
          SPIKE_COUNT_MAX       \* of the fabric's counter

StressAssumption ==
    /\ MIN_JITTER \in Nat /\ MAX_JITTER \in Nat /\ MIN_JITTER <= MAX_JITTER
    /\ WINDOW \in Nat \ {0} /\ FRAMES \in Nat /\ RATE_THRESHOLD \in Nat \ {0}
    /\ ADC_MAX \in Nat /\ Codes \subseteq -ADC_MAX - 1 .. ADC_MAX
    /\ NoiseSteps \subseteq Int /\ 0 \in NoiseSteps
    /\ Spacings \subseteq Nat /\ SPIKE_COUNT_MAX \in Nat

VARIABLES
    dt_ns, frame_index,
    emitted_t_ns,             \* of the last two frames, oldest first
    degraded, undropped, clean, hardware,     \* quantisers: accumulator and spike count
    noise_charge,             \* history: what noise can have added in this window
    woken,                    \* history: silent samples that noise made count in it
    carry                     \* history: what hardware brought into this window

vars == <<dt_ns, frame_index, emitted_t_ns, degraded, undropped, clean, hardware,
          noise_charge, woken, carry>>

Fresh == [accumulator |-> 0, spike_count |-> 0]

Init ==
    /\ dt_ns \in Spacings /\ frame_index = 0 /\ emitted_t_ns = <<>>
    /\ degraded = Fresh /\ undropped = Fresh /\ clean = Fresh /\ hardware = Fresh
    /\ noise_charge = 0 /\ woken = 0 /\ carry = 0

-----------------------------------------------------------------------------
Magnitude(code) == IF code < 0 THEN -code ELSE code

Clamped(code) == IF code > ADC_MAX THEN ADC_MAX
                 ELSE IF code < -ADC_MAX - 1 THEN -ADC_MAX - 1 ELSE code

(* One code through the rate-code reference of MIF-007: at most one spike, *)
(* whatever the charge.                                                    *)
Quantise(q, code) ==
    LET charge == q.accumulator + Magnitude(code)
        spike == charge >= RATE_THRESHOLD /\ code # 0
    IN  [accumulator |-> IF spike THEN charge - RATE_THRESHOLD ELSE charge,
         spike_count |-> IF spike THEN q.spike_count + 1 ELSE q.spike_count]

(* Mutant: a dropped sample is replaced by full scale. *)
SubstitutesDropped(q, code, dropped) == Quantise(q, IF dropped THEN ADC_MAX ELSE code)

(* A dropped sample is omitted from its window.                            *)
Evidence(q, code, dropped) == IF dropped THEN q ELSE Quantise(q, code)

(* run_adc_to_spike_reference starts from zero in every window.            *)
Restarted(q) == Fresh

(* The count that goes into the fabric's stimulus.                         *)
Reported(q) == IF q.spike_count > SPIKE_COUNT_MAX THEN SPIKE_COUNT_MAX ELSE q.spike_count

(* _jitter_ns: nothing, or a magnitude with either sign.                   *)
Jitters == {0} \cup (MIN_JITTER .. MAX_JITTER) \cup {-j : j \in MIN_JITTER .. MAX_JITTER}

(* The first frame lies past the jitter.                                   *)
base_t_ns == IF dt_ns > MAX_JITTER THEN dt_ns ELSE MAX_JITTER + 1

WindowStarts == frame_index % WINDOW = 0

(* _degrade_frame for the next frame, then its ADC code.                   *)
DegradeFrame(code, noise, dropped, jitter_ns) ==
    LET stressed == Clamped(code + noise)
        From(q) == IF WindowStarts THEN Restarted(q) ELSE q
        carried == IF WindowStarts THEN [hardware EXCEPT !.spike_count = 0] ELSE hardware
        t == base_t_ns + frame_index * dt_ns + jitter_ns
    IN  /\ degraded' = Evidence(From(degraded), stressed, dropped)
        /\ undropped' = Quantise(From(undropped), stressed)
        /\ clean' = Quantise(From(clean), code)
        /\ hardware' = IF dropped THEN carried ELSE Quantise(carried, stressed)
        /\ emitted_t_ns' = IF emitted_t_ns = <<>> THEN <<t>>
                           ELSE <<emitted_t_ns[Len(emitted_t_ns)], t>>
        /\ noise_charge' = (IF WindowStarts THEN 0 ELSE noise_charge)
                           + (IF dropped THEN 0 ELSE Magnitude(noise))
        /\ woken' = (IF WindowStarts THEN 0 ELSE woken)
                    + (IF ~dropped /\ code = 0 /\ stressed # 0 THEN 1 ELSE 0)
        /\ carry' = IF WindowStarts THEN hardware.accumulator ELSE carry

apply ==
    /\ frame_index < FRAMES
    /\ frame_index' = frame_index + 1
    /\ \E code \in Codes, noise \in NoiseSteps, dropped \in BOOLEAN, jitter_ns \in Jitters :
          DegradeFrame(code, noise, dropped, jitter_ns)
    /\ UNCHANGED dt_ns

Next == apply

Spec == Init /\ [][Next]_vars

-----------------------------------------------------------------------------
(* The check of evaluate_phase_lock_stability_campaigns, which the chain   *)
(* to the fabric does not make.                                            *)
Spaced(dt) == dt > 2 * MAX_JITTER

(* Signed jitter never takes a time below zero, where a frame is refused,  *)
(* and reorders no two frames that are spaced.  (The codes of the chain    *)
(* stay in frame order whatever the times say.)                            *)
FramesStayOrdered ==
    /\ \A i \in DOMAIN emitted_t_ns : emitted_t_ns[i] >= 0
    /\ Spaced(dt_ns) /\ Len(emitted_t_ns) = 2 => emitted_t_ns[1] < emitted_t_ns[2]

(* Lost samples never add to the evidence of a window.                     *)
LossAddsNothing == Reported(degraded) <= Reported(undropped)

(* Noise, and only noise, can: of the spikes over those of the clean       *)
(* window, all but one for each silent sample it woke are paid for by its  *)
(* charge, up to a part of a threshold.                                    *)
NoiseIsPaidFor ==
    RATE_THRESHOLD * (Reported(degraded) - Reported(clean) - woken - 1) < noise_charge

(* A window never shows more evidence than the quantiser that runs on, and *)
(* less by no more than what that one brought into the window.             *)
RestartCostsCarry ==
    /\ Reported(degraded) <= Reported(hardware)
    /\ RATE_THRESHOLD * (Reported(hardware) - Reported(degraded) - 1) < carry

(* A fault takes evidence away, or adds what its noise is worth.           *)
FaultsAreBounded ==
    FramesStayOrdered /\ LossAddsNothing /\ NoiseIsPaidFor /\ RestartCostsCarry
=============================================================================
