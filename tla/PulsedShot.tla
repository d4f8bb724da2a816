------------------------------ MODULE PulsedShot ------------------------------
(***************************************************************************)
(* PulsedShotFSM of src/scpn_mif_core/lifecycle/pulsed_shot_fsm.py: the    *)
(* eight-state ring of one pulsed shot, stepped by samples of plasma and   *)
(* bank or moved by hand to the adjacent state.                            *)
(*                                                                         *)
(* A sample is the set of thresholds it passes.  Of the timestamps only    *)
(* differences are read, so `since' is the time from the last recorded     *)
(* transition to the last sample (the minimum burn is the only duration it *)
(* is compared with, and caps it).  A call that raises changes nothing.    *)
(***************************************************************************)
EXTENDS Integers, Sequences

CONSTANTS MIN_BURN,        \* min_burn_duration_s in ticks
          MAX_ELAPSE       \* longest time between two samples tried

ShotAssumption == MIN_BURN \in Nat /\ MAX_ELAPSE \in Nat \ {0}

Ring == <<"idle", "ramp_up", "flat_top", "burn",
          "expansion", "dump", "recharge", "cool_down">>
ShotState == {Ring[n] : n \in 1 .. 8}

(* The thresholds each state waits for, in plasma and bank telemetry.      *)
GuardTests ==
    [s \in ShotState |->
        CASE s = "idle"      -> {"precharge energy"}
          [] s = "ramp_up"   -> {"ramp current"}
          [] s = "flat_top"  -> {"phase", "position", "burn temperature"}
          [] s = "burn"      -> {"fusion power"}
          [] s = "expansion" -> {"radial velocity"}
          [] s = "dump"      -> {"energy floor"}
          [] s = "recharge"  -> {"voltage fraction"}
          [] s = "cool_down" -> {"cooled", "current cleared"}]

NEXT_STATE(s) ==
    CASE s = "idle" -> "ramp_up"       [] s = "ramp_up" -> "flat_top"
      [] s = "flat_top" -> "burn"      [] s = "burn" -> "expansion"
      [] s = "expansion" -> "dump"     [] s = "dump" -> "recharge"
      [] s = "recharge" -> "cool_down" [] s = "cool_down" -> "idle"

VARIABLES
    state,
    sampled,      \* _last_sample_t_s is not None
    since,        \* last sample less last transition, up to MIN_BURN
    audit_log,    \* the transitions since the shot last left idle
    stay,         \* history: sampled time spent in this state, capped
    burn          \* history: how long the shot's burn was, and who ended it

shotVars == <<state, sampled, since, audit_log, stay, burn>>

Capped(n) == IF n > MIN_BURN THEN MIN_BURN ELSE n

TransitionRecord == [from_state : ShotState, to_state : ShotState]
NotBurnt == [held |-> 0, ended |-> "not_yet"]

ShotInit ==
    /\ state = "idle" /\ sampled = FALSE
    /\ since = 0 /\ stay = 0 /\ audit_log = <<>> /\ burn = NotBurnt

-----------------------------------------------------------------------------
(* _validate_timestamp: time moves on strictly, except before the first    *)
(* sample, which may carry any time that is not negative.                  *)
Elapses(dt) == dt \in 0 .. MAX_ELAPSE /\ (sampled => dt > 0)

Guard(passed, dwell) ==
    /\ GuardTests[state] \subseteq passed
    /\ state = "burn" => dwell >= MIN_BURN

(* The log starts anew when a shot leaves idle; the burn is noted as it ends. *)
Note(dt, how) ==
    /\ stay' = 0
    /\ burn' = CASE state = "burn" -> [held |-> Capped(stay + dt), ended |-> how]
                  [] state = "idle" -> NotBurnt
                  [] OTHER          -> burn

(* Mutants: the transition time is not recorded; it is taken anew with     *)
(* every sample.                                                           *)
RecordKeepsTime(dt, how) ==
    /\ state' = NEXT_STATE(state)
    /\ since' = Capped(since + dt)
    /\ audit_log' = Append(IF state = "idle" THEN <<>> ELSE audit_log,
                           [from_state |-> state, to_state |-> NEXT_STATE(state)])
    /\ Note(dt, how)
DwellFromSample(dt) ==
    since' = 0 /\ stay' = Capped(stay + dt) /\ UNCHANGED <<state, audit_log, burn>>

RecordTransition(dt, how) ==
    /\ state' = NEXT_STATE(state)
    /\ since' = 0
    /\ audit_log' = Append(IF state = "idle" THEN <<>> ELSE audit_log,
                           [from_state |-> state, to_state |-> NEXT_STATE(state)])
    /\ Note(dt, how)

Dwell(dt) ==
    /\ since' = Capped(since + dt) /\ stay' = Capped(stay + dt)
    /\ UNCHANGED <<state, audit_log, burn>>

StepWith(dt, passed) ==
    /\ Elapses(dt)
    /\ IF Guard(passed, since + dt) THEN RecordTransition(dt, "by_guard") ELSE Dwell(dt)
    /\ sampled' = TRUE

step == \E dt \in 0 .. MAX_ELAPSE : \E passed \in SUBSET GuardTests[state] :
            StepWith(dt, passed)

(* The only target it accepts is the next state; no guard is asked.        *)
transition_to ==
    \E dt \in 0 .. MAX_ELAPSE :
        Elapses(dt) /\ RecordTransition(dt, "by_hand") /\ sampled' = TRUE

reset ==
    /\ state' = "idle" /\ sampled' = FALSE
    /\ since' = 0 /\ stay' = 0 /\ audit_log' = <<>> /\ burn' = NotBurnt

ShotNext == step \/ transition_to \/ reset

ShotSpec == ShotInit /\ [][ShotNext]_shotVars

(* The caller keeps sampling, and now and then a sample passes what the    *)
(* present state waits for.                                                *)
NominalStep == \E dt \in 1 .. MAX_ELAPSE : StepWith(dt, GuardTests[state])

-----------------------------------------------------------------------------
(* The log is one lap of the ring from idle to where the shot is, whatever *)
(* mixture of samples, manual steps and resets came before: no state was   *)
(* skipped, and a new lap starts only after cool-down.                     *)
AuditIsLap ==
    /\ Len(audit_log) <= 8
    /\ \A n \in 1 .. Len(audit_log) :
          /\ audit_log[n].from_state = Ring[n]
          /\ audit_log[n].to_state = NEXT_STATE(Ring[n])
    /\ state = IF Len(audit_log) \in {0, 8} THEN "idle" ELSE Ring[Len(audit_log) + 1]

(* Unless an operator cut it short, a burn lasted min_burn_duration_s in   *)
(* sampled time, also when it was entered by hand or after a reset.        *)
BurnHeldMinimum == burn.ended = "by_guard" => burn.held = MIN_BURN

(* A shot in progress comes back to idle.                                  *)
ShotCompletes == state # "idle" ~> state = "idle"

(* Both: a lawful log, and a burn that was held or cut short by hand.      *)
ShotIsLawful == AuditIsLap /\ BurnHeldMinimum
=============================================================================
