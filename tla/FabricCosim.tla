----------------------------- MODULE FabricCosim -----------------------------
(***************************************************************************)
(* The RTL of TriggerFabric in lockstep with its golden references, as     *)
(* cosim/mif008_trigger_fabric.py and cosim/fast_veto_gate.py compare      *)
(* them: tools/trigger_fabric_reference.py, a Mealy machine of its own,    *)
(* and tools/fast_veto_gate_reference.py.                                  *)
(*                                                                         *)
(* The harness releases reset once, drives one stimulus a cycle with the   *)
(* clock, and samples every output ahead of the edge.  When the trace ends *)
(* the reference is put away and the RTL runs on with every input it can   *)
(* meet: resets, and wires that move between edges.                        *)
(***************************************************************************)
EXTENDS TriggerFabric, FiniteSets

CONSTANT MAX_CYCLES           \* length of the longest trace

ASSUME CosimAssumption == MAX_CYCLES \in Nat

VARIABLES
    cycle_index,              \* MAX_CYCLES + 1 once the trace has ended
    ref_hold, ref_fired,      \* hold_counter and fired of the reference
    trigger_count, first_trigger_cycle,     \* its report; -1 for None
    past_fires                \* history: cycles in which the actuator fired

reference == <<cycle_index, ref_hold, ref_fired, trigger_count, first_trigger_cycle, past_fires>>
cosimVars == <<vars, reference>>

(* hold_counter_width and reload_value: the hold cut to its bit length.    *)
hold_counter_width ==
    CHOOSE w \in 1 .. LOCK_HOLD_CYCLES : 2^w > LOCK_HOLD_CYCLES
                                      /\ \A u \in 1 .. w - 1 : 2^u <= LOCK_HOLD_CYCLES
reload_value == LOCK_HOLD_CYCLES % 2^hold_counter_width

(* A number is below the power of two of its bit length. *)
ASSUME WidthAssumption == 2^hold_counter_width \in Nat
                          /\ LOCK_HOLD_CYCLES < 2^hold_counter_width

CosimInit ==
    /\ Init /\ cycle_index = 0
    /\ ref_hold = reload_value /\ ref_fired = FALSE
    /\ trigger_count = 0 /\ first_trigger_cycle = -1 /\ past_fires = {}

-----------------------------------------------------------------------------
ref_lock_now(i) ==
    /\ i.arm /\ i.bank_ready /\ ~i.safety_veto
    /\ i.spike_count >= SPIKE_THRESHOLD
    /\ i.confidence_q8_8 >= CONFIDENCE_THRESHOLD_Q8_8
ref_trigger(i) == ref_lock_now(i) /\ ref_hold = 1 /\ ~ref_fired

(* Mutant: a broken lock clears the one-shot of the reference. *)
AdvanceForgets(i) ==
    IF ~i.arm \/ ~ref_lock_now(i) THEN ref_hold' = reload_value /\ ref_fired' = FALSE
    ELSE ref_hold' = (IF ref_hold # 0 THEN ref_hold - 1 ELSE 0) /\ ref_fired' = (ref_fired \/ ref_trigger(i))

(* _advance *)
Advance(i) ==
    \/ /\ ~i.arm
       /\ ref_hold' = reload_value /\ ref_fired' = FALSE
    \/ /\ i.arm /\ ~ref_lock_now(i)
       /\ ref_hold' = reload_value /\ ref_fired' = ref_fired
    \/ /\ i.arm /\ ref_lock_now(i)
       /\ ref_hold' = (IF ref_hold # 0 THEN ref_hold - 1 ELSE 0)
       /\ ref_fired' = (ref_fired \/ ref_trigger(i))

(* One cycle: both machines take the stimulus, the ledger counts.          *)
Cycle ==
    /\ rst_n /\ cycle_index < MAX_CYCLES
    /\ ClockEdge /\ Advance(in)
    /\ cycle_index' = cycle_index + 1
    /\ IF ref_trigger(in)
       THEN /\ trigger_count' = trigger_count + 1
            /\ first_trigger_cycle' = IF first_trigger_cycle = -1 THEN cycle_index
                                      ELSE first_trigger_cycle
       ELSE UNCHANGED <<trigger_count, first_trigger_cycle>>
    /\ past_fires' = IF fast_fire THEN past_fires \cup {cycle_index} ELSE past_fires

Release == ReleaseReset /\ UNCHANGED reference

tracing == cycle_index <= MAX_CYCLES

EndTrace ==
    /\ cycle_index = MAX_CYCLES /\ cycle_index' = MAX_CYCLES + 1
    /\ ref_hold' = reload_value /\ ref_fired' = FALSE
    /\ trigger_count' = 0 /\ first_trigger_cycle' = -1 /\ past_fires' = {}
    /\ UNCHANGED vars

RtlAlone(A) == ~tracing /\ A /\ UNCHANGED reference

CosimNext == (tracing /\ (Cycle \/ Release)) \/ EndTrace \/ RtlAlone(Next)

CosimSpec == CosimInit /\ [][CosimNext]_cosimVars

-----------------------------------------------------------------------------
(* evaluate_fast_veto_gate, a composition with the reference's trigger as  *)
(* qualified_fire.                                                         *)
ref_fast_permit(i) ==
    /\ i.arm /\ i.bank_ready /\ ~i.safety_veto
    /\ i.spike_count >= SPIKE_THRESHOLD
    /\ i.confidence_q8_8 >= CONFIDENCE_THRESHOLD_Q8_8
ref_fast_fire(i) == ref_trigger(i) /\ ref_fast_permit(i)

(* The tuples the two cosimulations compare.                               *)
RtlSample == <<trigger, lock_now, fired_q, hold_counter, PermitWith(in), fast_fire>>
ReferenceCycle == <<ref_trigger(in), ref_lock_now(in), ref_fired, ref_hold,
                    ref_fast_permit(in), ref_fast_fire(in)>>

(* On every stimulus the references and the RTL agree in every output and  *)
(* register, and the report of the reference counts exactly the pulses     *)
(* that reached the actuator and dates the first of them.                  *)
CosimBitTrue ==
    tracing =>
    /\ rst_n => RtlSample = ReferenceCycle
    /\ first_trigger_cycle = (IF past_fires = {} THEN -1
                              ELSE CHOOSE c \in past_fires : \A d \in past_fires : c <= d)
    /\ trigger_count = Cardinality(past_fires)
=============================================================================
