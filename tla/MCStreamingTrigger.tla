-------------------------- MODULE MCStreamingTrigger --------------------------
(* Three ways to a trigger decision that share no state: the streaming     *)
(* session on exact separations, the stress campaign that degrades the     *)
(* samples on their way to the spike count, and the forecast made from a   *)
(* nominal approach.  One of them runs.                                    *)
(*                                                                         *)
(* Separations lie inside the tolerance, at the bound of the first sample  *)
(* (a violation after 0 and none after itself), and beyond the bounds of   *)
(* the samples that follow, at two distinct times.  The ADC codes are the most negative one, which is worth two     *)
(* spikes and leaves a charge, silence, and half a threshold; noise wakes  *)
(* silence and saturates.  Frames come spaced, or closer than the jitter.  *)
(* A forecast's slacks are inside, at and outside the bound, and two of    *)
(* the channels are noisy or none; an error is one of two draws.           *)
EXTENDS StreamingTrigger

CONSTANTS Codes, ADC_MAX, NoiseSteps, MIN_JITTER, MAX_JITTER, Spacings,
          RATE_THRESHOLD, WINDOW, FRAMES, SPIKE_COUNT_MAX,
          SURE, Phi, Draws, Noises, MAX_APPROACH

VARIABLES
    running,                  \* the session, the campaign or the forecast
    dt_ns, frame_index, emitted_t_ns, degraded, undropped, clean, hardware,
    noise_charge, woken, carry,
    noise, nominal, states, locked, survival, fire_probability, survivors, fired

Stress == INSTANCE StressChain
Forecast == INSTANCE TriggerForecast WITH streak_length <- consecutive_samples

ASSUME CampaignParameters == Stress!StressAssumption
ASSUME ForecastParameters == Forecast!ForecastAssumption

MCSeparations == {0, 3, 5, 7}
MCTimes == 1 .. 2
MCCodes == {-4, 0, 1}
MCNoiseSteps == {-1, 0, 2}
MCPhi == [z \in -1 .. 1 |-> z + 2]
MCDraws == {-1, 1}
MCNoises == {{}, {"phase", "separation"}}

stressVars == <<dt_ns, frame_index, emitted_t_ns, degraded, undropped, clean, hardware,
                noise_charge, woken, carry>>
forecastVars == <<noise, nominal, states, locked, survival, fire_probability,
                 survivors, fired>>
triggerVars == <<running, vars, stressVars, forecastVars>>

TriggerInit ==
    /\ running \in {"session", "campaign", "forecast"}
    /\ Init /\ Stress!Init /\ Forecast!ForecastInit
    /\ running # "campaign" => \A dt \in Spacings : dt_ns <= dt
    /\ running # "session" => ~armed /\ ~bank_feasible
    /\ running # "forecast" => noise = {}

TriggerNext ==
    \/ running = "session" /\ Next /\ UNCHANGED <<running, stressVars, forecastVars>>
    \/ running = "campaign" /\ Stress!Next /\ UNCHANGED <<running, vars, forecastVars>>
    \/ running = "forecast" /\ Forecast!propagate /\ UNCHANGED <<running, vars, stressVars>>

TriggerSpec == TriggerInit /\ [][TriggerNext]_triggerVars

(* Injected faults take evidence away, or add what their noise is worth.   *)
FaultsAreBounded == Stress!FaultsAreBounded
(* The planned instant is one the causal trigger takes, in a lock.         *)
PlanIsCausal == Forecast!PlanIsCausal
(* The forecast is the exact law of the decision.                          *)
ForecastIsSound == Forecast!ForecastIsSound
=============================================================================
