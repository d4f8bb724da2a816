---------------------------- MODULE PlasmoidMerger ----------------------------
(***************************************************************************)
(* PlasmoidMergerPetriNet of src/scpn_mif_core/lifecycle/                  *)
(* plasmoid_merger_petri_net.py: one token moves from approach to phase    *)
(* lock, a stage at a time, each time its guard has held for the stage's   *)
(* delay; an unsafe observation sends it to the abort sink.                *)
(*                                                                         *)
(* An observation is the set of the threshold tests it passes.  A spec     *)
(* with firing_probability < 1 draws a random number once the delay is     *)
(* over and may hold the token back; the generator is left out and either  *)
(* outcome is possible.                                                    *)
(***************************************************************************)
EXTENDS Integers, Sequences

CONSTANTS contact_delay_ticks, reconnection_delay_ticks,
          coalescence_delay_ticks, phase_lock_delay_ticks,
          Longest      \* no delay is longer: where dwell and histories stop

Transitions == {"detect_contact", "form_reconnection_layer",
                "coalesce_plasmoids", "achieve_phase_lock", "abort_unstable"}

_delay_ticks ==
    [t \in Transitions |->
        CASE t = "detect_contact" -> contact_delay_ticks
          [] t = "form_reconnection_layer" -> reconnection_delay_ticks
          [] t = "coalesce_plasmoids" -> coalescence_delay_ticks
          [] t = "achieve_phase_lock" -> phase_lock_delay_ticks
          [] t = "abort_unstable" -> 1]

ASSUME DelayAssumption ==
    /\ Longest \in Nat
    /\ \A t \in Transitions : _delay_ticks[t] \in 1 .. Longest

VARIABLES
    stochastic,      \* the frozen spec has firing_probability < 1
    place, pending, dwell,
    tick,            \* the parity of the tick counter
    audit,           \* the transitions of the audit log
    held_for,        \* history: ticks in a row each guard has held
    in_place,        \* history: ticks since the token came here
    nominal          \* history: the last tick passed every test

state == <<place, pending, dwell, tick, audit>>
history == <<held_for, in_place, nominal>>
vars == <<stochastic, state, history>>

Productive == <<"approach", "contact", "reconnection", "coalescence", "phase_locked">>
Places == {"approach", "contact", "reconnection", "coalescence", "phase_locked", "abort"}
Terminal == {"phase_locked", "abort"}
None == "none"

Tests == {"unsafe", "near", "closing", "reconnecting", "balanced", "aligned"}
Observations == SUBSET Tests

target ==
    [t \in Transitions |->
        CASE t = "detect_contact" -> "contact"
          [] t = "form_reconnection_layer" -> "reconnection"
          [] t = "coalesce_plasmoids" -> "coalescence"
          [] t = "achieve_phase_lock" -> "phase_locked"
          [] t = "abort_unstable" -> "abort"]

(* The transition that leaves a place along the merge. *)
onward ==
    [p \in Places \ Terminal |->
        CASE p = "approach" -> "detect_contact"
          [] p = "contact" -> "form_reconnection_layer"
          [] p = "reconnection" -> "coalesce_plasmoids"
          [] p = "coalescence" -> "achieve_phase_lock"]

needs ==
    [t \in Transitions |->
        CASE t = "detect_contact" -> {"near", "closing"}
          [] t = "form_reconnection_layer" -> {"reconnecting"}
          [] t = "coalesce_plasmoids" -> {"reconnecting", "balanced"}
          [] t = "achieve_phase_lock" -> {"aligned", "near", "balanced"}
          [] t = "abort_unstable" -> {"unsafe"}]

(* An unsafe observation satisfies the guard of the abort and no other.    *)
Satisfies(o, t) ==
    /\ needs[t] \subseteq o
    /\ "unsafe" \in o => t = "abort_unstable"

TypeOK ==
    /\ stochastic \in BOOLEAN
    /\ place \in Places
    /\ pending \in Transitions \cup {None} /\ dwell \in 0 .. Longest
    /\ pending = None <=> dwell = 0
    /\ tick \in 0 .. 1 /\ audit \in Seq(Transitions)
    /\ held_for \in [Transitions -> 0 .. Longest]
    /\ in_place \in 0 .. Longest /\ nominal \in BOOLEAN

Init ==
    /\ stochastic \in BOOLEAN
    /\ place = "approach" /\ pending = None /\ dwell = 0
    /\ tick = 0 /\ audit = <<>>
    /\ held_for = [t \in Transitions |-> 0] /\ in_place = 0 /\ nominal = FALSE

-----------------------------------------------------------------------------
(* Mutant: the stage's guard is looked at before safety. *)
EnabledGuardFirst(o) ==
    IF place \in Terminal THEN {}
    ELSE IF needs[onward[place]] \subseteq o THEN {onward[place]}
    ELSE IF "unsafe" \in o THEN {"abort_unstable"} ELSE {}

(* enabled_transition, as a set of at most one element.                    *)
enabled_transition(o) ==
    IF place \in Terminal THEN {}
    ELSE IF "unsafe" \in o THEN {"abort_unstable"}
    ELSE IF needs[onward[place]] \subseteq o THEN {onward[place]} ELSE {}

Up(n) == IF n = Longest THEN n ELSE n + 1

Dwell(t) == IF pending = t THEN Up(dwell) ELSE 1

(* What the histories record of a tick that leaves the token where it is,  *)
(* or moves it.                                                            *)
Record(o, moved) ==
    /\ held_for' = [t \in Transitions |->
                       IF Satisfies(o, t) THEN Up(held_for[t]) ELSE 0]
    /\ in_place' = IF moved THEN 0 ELSE Up(in_place)
    /\ nominal' = (o = Tests \ {"unsafe"})

(* No transition is enabled: the dwell is lost.                            *)
Stall(o) ==
    /\ enabled_transition(o) = {}
    /\ pending' = None /\ dwell' = 0
    /\ UNCHANGED <<place, audit>>
    /\ Record(o, FALSE)

(* Mutant: the pending transition is not remembered. *)
WaitForgets(o) ==
    \E t \in enabled_transition(o) :
        /\ Dwell(t) < _delay_ticks[t]
        /\ UNCHANGED <<place, pending, dwell, audit>>
        /\ Record(o, FALSE)

(* The delay is not over.                                                  *)
Wait(o) ==
    \E t \in enabled_transition(o) :
        /\ Dwell(t) < _delay_ticks[t]
        /\ pending' = t /\ dwell' = Dwell(t)
        /\ UNCHANGED <<place, audit>>
        /\ Record(o, FALSE)

(* The delay is over and the draw holds the token back.                    *)
Hold(o) ==
    \E t \in enabled_transition(o) :
        /\ stochastic
        /\ Dwell(t) >= _delay_ticks[t]
        /\ pending' = t /\ dwell' = Dwell(t)
        /\ UNCHANGED <<place, audit>>
        /\ Record(o, FALSE)

Fire(o) ==
    \E t \in enabled_transition(o) :
        /\ Dwell(t) >= _delay_ticks[t]
        /\ place' = target[t] /\ audit' = Append(audit, t)
        /\ pending' = None /\ dwell' = 0
        /\ Record(o, TRUE)

step ==
    /\ \E o \in Observations : Stall(o) \/ Wait(o) \/ Hold(o) \/ Fire(o)
    /\ tick' = 1 - tick
    /\ UNCHANGED stochastic

reset ==
    /\ place' = "approach" /\ pending' = None /\ dwell' = 0
    /\ tick' = 0 /\ audit' = <<>>
    /\ held_for' = [t \in Transitions |-> 0] /\ in_place' = 0 /\ nominal' = FALSE
    /\ UNCHANGED stochastic

Next == step \/ reset

Spec == Init /\ [][Next]_vars

FairSpec == Spec /\ WF_vars(step)

-----------------------------------------------------------------------------
(* The token of a one-safe net has one past: the audit log is a path from  *)
(* approach to where the token is, no stage skipped, nothing after a sink. *)
AuditIsPath ==
    LET stages == Len(audit) - (IF place = "abort" THEN 1 ELSE 0)
    IN  /\ stages \in 0 .. 4
        /\ \A i \in 1 .. stages : audit[i] = onward[Productive[i]]
        /\ IF place = "abort" THEN stages < 4 /\ audit[stages + 1] = "abort_unstable"
                              ELSE place = Productive[stages + 1]

(* A stage is left only after its guard has held, without an unsafe tick   *)
(* in between, for the whole delay in this place.                          *)
LeavesAfterDelay ==
    [][\A t \in Transitions :
          step /\ audit' = Append(audit, t) =>
              held_for'[t] >= _delay_ticks[t] /\ Up(in_place) >= _delay_ticks[t]]_vars

(* And with firing_probability = 1 no later: a guard that has held for its *)
(* delay has fired, an unsafe observation in the very tick that shows it.  *)
SustainedGuardFires ==
    ~stochastic /\ place \notin Terminal =>
        \A t \in {onward[place], "abort_unstable"} :
            held_for[t] < _delay_ticks[t] \/ in_place < _delay_ticks[t]

(* The liveness campaign of the code, for every draw sequence of a fair    *)
(* generator: nominal observations from some tick on bring the merge to an *)
(* end, and to phase lock unless it had aborted before.                    *)
Holds == \E o \in Observations : Hold(o)
Fires == \E o \in Observations : Fire(o)
FairDraws == []<><<Holds>>_vars => []<><<Fires>>_vars
MergeCompletes == FairDraws /\ <>[]nominal => <>[](place \in Terminal)

(* A stage is left neither before its delay nor, in a deterministic net,   *)
(* after it, and the log tells the way the token went.                     *)
LeavesOnTime == LeavesAfterDelay /\ [](SustainedGuardFires /\ AuditIsPath)
=============================================================================
