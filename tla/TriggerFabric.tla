---------------------------- MODULE TriggerFabric ----------------------------
(***************************************************************************)
(* The clocked compression trigger of hdl/src/triggers/                    *)
(* mif_trigger_fabric.sv with the registerless veto gate of                *)
(* mif_fast_veto_gate.sv behind it, as ADR 0008 composes them.             *)
(*                                                                         *)
(* The registers are hold_counter and fired_q.  The input wires are the    *)
(* record `in'.  Every output is a state function of both, because the     *)
(* RTL drives its outputs combinationally.                                 *)
(*                                                                         *)
(* The wires may move with a clock edge, as the formal harness drives      *)
(* them, and between two edges, as an asynchronous veto does; `settled'    *)
(* tells the armings of the first kind.  The actuator sees fast_fire.      *)
(***************************************************************************)
EXTENDS Integers

CONSTANTS LOCK_HOLD_CYCLES,              \* length of the sustained lock
          SPIKE_THRESHOLD,
          CONFIDENCE_THRESHOLD_Q8_8,
          SpikeCounts,                   \* values the spike_count port takes
          Confidences                    \* values the confidence_q8_8 port takes

ASSUME HoldAssumption == LOCK_HOLD_CYCLES \in Nat \ {0}
ASSUME EvidenceAssumption ==
    /\ SPIKE_THRESHOLD \in Nat /\ CONFIDENCE_THRESHOLD_Q8_8 \in Nat
    /\ SpikeCounts \subseteq Nat /\ Confidences \subseteq Nat

VARIABLES
    rst_n,          \* active-low asynchronous reset
    in,             \* the input wires
    hold_counter,   \* registered debounce countdown
    fired_q,        \* registered one-shot
    consec,         \* history: consecutive edges that sampled a lock, capped
    settled,        \* history: wires moved with edges only in this arming
    pulses          \* history: fire pulses in this arming, capped at 2

regs == <<hold_counter, fired_q>>
history == <<consec, settled, pulses>>
vars == <<rst_n, in, regs, history>>

Inputs == [arm : BOOLEAN, spike_count : SpikeCounts,
           confidence_q8_8 : Confidences, bank_ready : BOOLEAN,
           safety_veto : BOOLEAN]

(* Mutant: the counter is one bit too narrow for a hold that is a power of *)
(* two.                                                                    *)
RELOADTruncated ==
    IF \E w \in 0 .. LOCK_HOLD_CYCLES : LOCK_HOLD_CYCLES = 2^w
    THEN 0 ELSE LOCK_HOLD_CYCLES

RELOAD == LOCK_HOLD_CYCLES

EvidenceClears(i) == /\ i.spike_count >= SPIKE_THRESHOLD
                     /\ i.confidence_q8_8 >= CONFIDENCE_THRESHOLD_Q8_8

(* Mutant: the veto is left to the gate. *)
LockDespiteVeto(i) == i.arm /\ i.bank_ready /\ EvidenceClears(i)

LockWith(i) == i.arm /\ i.bank_ready /\ ~i.safety_veto /\ EvidenceClears(i)

lock_now == LockWith(in)
PulseWith(i) == LockWith(i) /\ hold_counter = 1 /\ ~fired_q
fire_pulse == PulseWith(in)
trigger == fire_pulse

PermitWith(i) == i.arm /\ i.bank_ready /\ ~i.safety_veto /\ EvidenceClears(i)
FastFireWith(i) == PulseWith(i) /\ PermitWith(i)
fast_fire == FastFireWith(in)

TypeOK ==
    /\ rst_n \in BOOLEAN
    /\ in \in Inputs
    /\ hold_counter \in 0..RELOAD
    /\ fired_q \in BOOLEAN
    /\ consec \in 0..LOCK_HOLD_CYCLES + 1
    /\ settled \in BOOLEAN
    /\ pulses \in 0..2

Capped(n, cap) == IF n > cap THEN cap ELSE n

Init ==
    /\ rst_n = FALSE
    /\ in \in Inputs
    /\ hold_counter = RELOAD
    /\ fired_q = FALSE
    /\ consec = 0 /\ settled = TRUE /\ pulses = 0

-----------------------------------------------------------------------------

HoldNext == IF ~lock_now THEN RELOAD
            ELSE IF hold_counter # 0 THEN hold_counter - 1
            ELSE hold_counter

(* Mutant: a broken lock re-arms. *)
FiredUntilBreak == lock_now /\ (fired_q \/ fire_pulse)

FiredNext == in.arm /\ (fired_q \/ fire_pulse)

(* What the histories record at an edge: the sampled lock, and the pulse   *)
(* the ending cycle carried.  A disarmed cycle starts a new arming.        *)
RecordEdge ==
    /\ consec' = IF rst_n /\ lock_now
                 THEN Capped(consec + 1, LOCK_HOLD_CYCLES + 1) ELSE 0
    /\ pulses' = IF ~in.arm THEN 0
                 ELSE IF fast_fire THEN Capped(pulses + 1, 2) ELSE pulses
    /\ settled' = (settled \/ ~in.arm)

(* A positive edge samples the wires, then the wires of the next cycle     *)
(* appear.                                                                 *)
ClockEdge ==
    /\ IF rst_n
       THEN hold_counter' = HoldNext /\ fired_q' = FiredNext
       ELSE hold_counter' = RELOAD /\ fired_q' = FALSE
    /\ RecordEdge
    /\ in' \in Inputs
    /\ UNCHANGED rst_n

AssertReset ==
    /\ rst_n
    /\ rst_n' = FALSE
    /\ hold_counter' = RELOAD
    /\ fired_q' = FALSE
    /\ consec' = 0 /\ settled' = TRUE /\ pulses' = 0
    /\ UNCHANGED in

ReleaseReset ==
    /\ ~rst_n
    /\ rst_n' = TRUE
    /\ UNCHANGED <<in, regs, history>>

(* The wires move between two edges.  A pulse that ends here was real at   *)
(* the actuator although no edge sampled it.                               *)
WiresMove ==
    /\ in' \in Inputs
    /\ pulses' = IF fast_fire /\ ~FastFireWith(in')
                 THEN Capped(pulses + 1, 2) ELSE pulses
    /\ settled' = FALSE
    /\ UNCHANGED <<rst_n, regs, consec>>

Next == ClockEdge \/ WiresMove \/ AssertReset \/ ReleaseReset

Spec == Init /\ [][Next]_vars

FairSpec == Spec /\ WF_vars(ClockEdge)

-----------------------------------------------------------------------------
(* The sustained-lock rule read as an exact instant, while the wires keep  *)
(* to the clock: the actuator sees a fire in precisely the cycle that      *)
(* completes LOCK_HOLD_CYCLES sampled locks, if this arming has not pulsed *)
(* yet.  The gate behind the fabric takes nothing away from it.            *)
ExactFireInstant ==
    settled => (fast_fire <=> /\ lock_now
                              /\ consec = LOCK_HOLD_CYCLES - 1
                              /\ pulses = 0)

(* The one-shot: one continuous arming emits at most one pulse, whatever   *)
(* locks, vetoes and bank dropouts happen in it.                           *)
AtMostOnePulsePerArming == settled => pulses <= 1

(* MIF-010 N2: a lock sampled for LOCK_HOLD_CYCLES edges in a row has      *)
(* fired, so the lock-to-trigger latency is bounded by the hold.           *)
BoundedLatency == consec < LOCK_HOLD_CYCLES \/ fired_q

(* Even with wires that move between edges a fire is preceded by           *)
(* LOCK_HOLD_CYCLES - 1 sampled locks: a glitch cannot shorten the hold.   *)
FireNeedsSampledLock == fast_fire => consec = LOCK_HOLD_CYCLES - 1

(* A lock that persists while the fabric is out of reset ends in the       *)
(* one-shot being latched.                                                 *)
PersistentLockFires ==
    (rst_n /\ lock_now) ~> (fired_q \/ ~lock_now \/ ~rst_n)

(* ADR 0008 calls the trigger a registered output that the veto influences *)
(* only through the next clock edge: moving the wires would then leave it  *)
(* alone.                                                                  *)
TriggerIsRegistered == [][WiresMove => (trigger <=> trigger')]_vars

(* A fire is earned and paid out at one instant: preceded by a full hold   *)
(* of sampled locks even under glitches, in exactly the cycle that         *)
(* completes the hold, and never withheld after it.                        *)
FiresAtHold == FireNeedsSampledLock /\ ExactFireInstant /\ BoundedLatency
=============================================================================
