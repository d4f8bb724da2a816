-------------------------------- MODULE LaneProof -------------------------------
(***************************************************************************)
(* Proofs about the parts of the hardware lane that share no wire.         *)
(*                                                                         *)
(* TriggerFabric, for every hold length and every threshold.  The argument *)
(* is one correspondence: hold_counter counts down exactly what the        *)
(* history consec counts up, and fired_q is the pulse of this arming.  The *)
(* first half holds for wires that move at any time, the second for        *)
(* settled armings and a hold of at least two.                             *)
(*                                                                         *)
(* Then its references, the quantiser with its own, and the synchroniser:  *)
(* in each a reference is in the state of the RTL after every cycle of a   *)
(* trace, which is what a comparison of outputs alone can only sample.     *)
(***************************************************************************)
EXTENDS MCLaneParts, TLAPS, FiniteSetTheorems

(* hold_counter is what is left of the hold after consec sampled locks.    *)
CountdownInv ==
    /\ hold_counter = IF consec >= LOCK_HOLD_CYCLES THEN 0
                      ELSE LOCK_HOLD_CYCLES - consec
    /\ ~rst_n => consec = 0

HoldInv == TypeOK /\ CountdownInv

(* fired_q remembers the pulse of this arming, and a completed hold has    *)
(* fired.                                                                  *)
OneShotInv ==
    /\ settled => pulses = IF fired_q THEN 1 ELSE 0
    /\ consec >= LOCK_HOLD_CYCLES => fired_q
    /\ ~rst_n => ~fired_q

LEMMA CappedCases ==
    ASSUME NEW n \in Nat, NEW cap \in Nat
    PROVE  /\ Capped(n, cap) \in 0 .. cap
           /\ n <= cap => Capped(n, cap) = n
           /\ n > cap => Capped(n, cap) = cap
    BY DEF Capped

LEMMA ReloadFacts == RELOAD = LOCK_HOLD_CYCLES /\ RELOAD \in Nat /\ RELOAD >= 1
    BY HoldAssumption DEF RELOAD

LEMMA InitHold == Init => HoldInv
<1> SUFFICES ASSUME Init PROVE HoldInv
    OBVIOUS
<1>1. TypeOK
    <2>1. RELOAD \in 0 .. RELOAD /\ 0 \in 0 .. LOCK_HOLD_CYCLES + 1 /\ 0 \in 0 .. 2
        BY ReloadFacts
    <2> QED
        BY <2>1 DEF Init, TypeOK
<1>2. CountdownInv
    BY ReloadFacts DEF Init, CountdownInv
<1> QED
    BY <1>1, <1>2 DEF HoldInv

(* One clock edge keeps the countdown and the sampled streak together. *)
LEMMA EdgeHold == HoldInv /\ ClockEdge => HoldInv'
<1> SUFFICES ASSUME HoldInv, ClockEdge PROVE HoldInv'
    OBVIOUS
<1>1. /\ LOCK_HOLD_CYCLES \in Nat /\ LOCK_HOLD_CYCLES >= 1
      /\ RELOAD = LOCK_HOLD_CYCLES
      /\ consec \in 0 .. LOCK_HOLD_CYCLES + 1 /\ hold_counter \in 0 .. RELOAD
      /\ pulses \in 0 .. 2 /\ fired_q \in BOOLEAN /\ rst_n \in BOOLEAN
      /\ in \in Inputs
    BY ReloadFacts DEF HoldInv, TypeOK
<1>2. /\ rst_n' = rst_n /\ in' \in Inputs
      /\ consec' = IF rst_n /\ lock_now
                   THEN Capped(consec + 1, LOCK_HOLD_CYCLES + 1) ELSE 0
    BY DEF ClockEdge, RecordEdge
<1>3. consec' \in 0 .. LOCK_HOLD_CYCLES + 1
    BY <1>1, <1>2, CappedCases
<1>4. pulses' \in 0 .. 2
    <2>1. pulses' = IF ~in.arm THEN 0
                    ELSE IF fast_fire THEN Capped(pulses + 1, 2) ELSE pulses
        BY DEF ClockEdge, RecordEdge
    <2>2. Capped(pulses + 1, 2) \in 0 .. 2
        BY <1>1, CappedCases
    <2> QED
        BY <1>1, <2>1, <2>2
<1>5. fired_q' \in BOOLEAN /\ settled' \in BOOLEAN
    <2>1. in.arm \in BOOLEAN /\ settled \in BOOLEAN
        BY <1>1 DEF Inputs, HoldInv, TypeOK
    <2>2. fired_q' \in BOOLEAN
        BY <1>1, <2>1, Zenon DEF ClockEdge, FiredNext, fire_pulse, PulseWith
    <2>3. settled' = (settled \/ ~in.arm)
        BY DEF ClockEdge, RecordEdge
    <2> QED
        BY <2>1, <2>2, <2>3
<1>6. CountdownInv'
    <2>1. CASE rst_n /\ lock_now
        <3>1. consec' = Capped(consec + 1, LOCK_HOLD_CYCLES + 1)
            BY <1>2, <2>1
        <3>2. hold_counter' = IF hold_counter # 0 THEN hold_counter - 1
                                                  ELSE hold_counter
            BY <2>1 DEF ClockEdge, HoldNext
        <3>3. hold_counter = IF consec >= LOCK_HOLD_CYCLES THEN 0
                             ELSE LOCK_HOLD_CYCLES - consec
            BY DEF HoldInv, CountdownInv
        <3>4. /\ consec <= LOCK_HOLD_CYCLES => consec' = consec + 1
              /\ consec > LOCK_HOLD_CYCLES => consec' = LOCK_HOLD_CYCLES + 1
            BY <1>1, <3>1 DEF Capped
        <3> QED
            BY <1>1, <1>2, <2>1, <3>2, <3>3, <3>4 DEF CountdownInv
    <2>2. CASE ~(rst_n /\ lock_now)
        <3>1. consec' = 0 /\ hold_counter' = LOCK_HOLD_CYCLES
            BY <1>1, <1>2, <2>2 DEF ClockEdge, HoldNext
        <3> QED
            BY <1>1, <3>1 DEF CountdownInv
    <2> QED
        BY <2>1, <2>2
<1>7. hold_counter' \in 0 .. RELOAD
    <2>1. hold_counter' = IF consec' >= LOCK_HOLD_CYCLES THEN 0
                          ELSE LOCK_HOLD_CYCLES - consec'
        BY <1>6 DEF CountdownInv
    <2>2. CASE consec' >= LOCK_HOLD_CYCLES
        BY <1>1, <2>1, <2>2
    <2>3. CASE ~(consec' >= LOCK_HOLD_CYCLES)
        <3>1. hold_counter' = LOCK_HOLD_CYCLES - consec'
            BY <2>1, <2>3
        <3>2. LOCK_HOLD_CYCLES - consec' \in 0 .. LOCK_HOLD_CYCLES
            <4>1. LOCK_HOLD_CYCLES \in Nat /\ consec' \in Nat
                BY <1>1, <1>3
            <4>2. consec' < LOCK_HOLD_CYCLES
                BY <2>3, <4>1
            <4>3. \A a, b \in Nat : b < a => a - b \in 0 .. a
                OBVIOUS
            <4> QED
                BY <4>1, <4>2, <4>3
        <3> QED
            BY <1>1, <3>1, <3>2
    <2> QED
        BY <2>2, <2>3
<1> QED
    BY <1>1, <1>2, <1>3, <1>4, <1>5, <1>6, <1>7 DEF HoldInv, TypeOK

LEMMA AssertHold == HoldInv /\ AssertReset => HoldInv'
<1>1. /\ RELOAD \in 0 .. RELOAD /\ 0 \in 0 .. LOCK_HOLD_CYCLES + 1 /\ 0 \in 0 .. 2
      /\ RELOAD = LOCK_HOLD_CYCLES - 0 /\ ~(0 >= LOCK_HOLD_CYCLES)
    BY ReloadFacts
<1> QED
    BY <1>1 DEF AssertReset, HoldInv, TypeOK, CountdownInv

LEMMA ReleaseHold == HoldInv /\ ReleaseReset => HoldInv'
    BY DEF ReleaseReset, HoldInv, TypeOK, CountdownInv, regs, history

(* Wires that move disturb neither register. *)
LEMMA WiresHold == HoldInv /\ WiresMove => HoldInv'
<1> SUFFICES ASSUME HoldInv, WiresMove PROVE HoldInv'
    OBVIOUS
<1>1. pulses' \in 0 .. 2
    <2>1. pulses \in 0 .. 2
        BY DEF HoldInv, TypeOK
    <2>2. Capped(pulses + 1, 2) \in 0 .. 2
        BY <2>1, CappedCases
    <2> QED
        BY <2>1, <2>2 DEF WiresMove
<1> QED
    BY <1>1 DEF WiresMove, HoldInv, TypeOK, CountdownInv, regs

LEMMA AlwaysHold == Spec => []HoldInv
<1>1. HoldInv /\ UNCHANGED vars => HoldInv'
    BY DEF vars, regs, history, HoldInv, TypeOK, CountdownInv
<1>2. HoldInv /\ [Next]_vars => HoldInv'
    BY <1>1, EdgeHold, AssertHold, ReleaseHold, WiresHold DEF Next
<1> QED
    BY <1>2, InitHold, PTL DEF Spec

(* Wires that move between two edges, an asynchronous veto among them,     *)
(* cannot shorten the hold: the actuator sees a fire only in the cycle     *)
(* that follows LOCK_HOLD_CYCLES - 1 sampled locks.  For every hold.       *)
THEOREM GlitchKeepsHold == Spec => []FireNeedsSampledLock
<1>1. HoldInv => FireNeedsSampledLock
    <2> SUFFICES ASSUME HoldInv, fast_fire PROVE consec = LOCK_HOLD_CYCLES - 1
        BY DEF FireNeedsSampledLock
    <2>1. hold_counter = 1
        BY DEF fast_fire, FastFireWith, PulseWith
    <2> QED
        BY <2>1, ReloadFacts DEF HoldInv, CountdownInv, TypeOK
<1> QED
    BY <1>1, AlwaysHold, PTL

(* The registers keep their ranges; in particular the countdown never      *)
(* underflows.                                                             *)
THEOREM TypeCorrect == Spec => []TypeOK
<1>1. HoldInv => TypeOK
    BY DEF HoldInv
<1> QED
    BY <1>1, AlwaysHold, PTL

-----------------------------------------------------------------------------
(* What a hold of at least two cycles adds: no pulse in reset. *)

LEMMA GateIsTransparent == (fast_fire <=> fire_pulse) /\ (fire_pulse => lock_now)
    BY DEF fast_fire, FastFireWith, fire_pulse, PulseWith, lock_now,
           LockWith, PermitWith

LEMMA OneShotStep ==
    ASSUME LOCK_HOLD_CYCLES >= 2, HoldInv, OneShotInv, [Next]_vars
    PROVE  OneShotInv'
<1>1. /\ LOCK_HOLD_CYCLES \in Nat /\ RELOAD = LOCK_HOLD_CYCLES
      /\ consec \in 0 .. LOCK_HOLD_CYCLES + 1
      /\ pulses \in 0 .. 2 /\ fired_q \in BOOLEAN
    BY ReloadFacts DEF HoldInv, TypeOK
<1>2. /\ hold_counter = IF consec >= LOCK_HOLD_CYCLES THEN 0
                        ELSE LOCK_HOLD_CYCLES - consec
      /\ ~rst_n => consec = 0
    BY DEF HoldInv, CountdownInv
<1>3. CASE ClockEdge
    <2>1. /\ rst_n' = rst_n
          /\ consec' = IF rst_n /\ lock_now
                       THEN Capped(consec + 1, LOCK_HOLD_CYCLES + 1) ELSE 0
          /\ pulses' = IF ~in.arm THEN 0
                       ELSE IF fast_fire THEN Capped(pulses + 1, 2) ELSE pulses
          /\ settled' = (settled \/ ~in.arm)
          /\ fired_q' = IF rst_n THEN FiredNext ELSE FALSE
        BY <1>3 DEF ClockEdge, RecordEdge
    <2>2. fire_pulse => rst_n /\ lock_now /\ ~fired_q
        BY <1>1, <1>2, GateIsTransparent DEF fire_pulse, PulseWith
    <2>3. lock_now => in.arm
        BY DEF lock_now, LockWith
    <2>4. settled' => pulses' = IF fired_q' THEN 1 ELSE 0
        <3>1. CASE ~in.arm
            BY <2>1, <3>1 DEF FiredNext
        <3>2. CASE in.arm /\ fire_pulse
            <4>1. Capped(0 + 1, 2) = 1
                BY DEF Capped
            <4>2. fired_q' /\ (settled => pulses = 0)
                BY <2>1, <2>2, <3>2 DEF FiredNext, OneShotInv
            <4> QED
                BY <2>1, <3>2, <4>1, <4>2, GateIsTransparent
        <3>3. CASE in.arm /\ ~fire_pulse
            <4>1. fired_q' <=> fired_q
                BY <2>1, <3>3 DEF FiredNext, OneShotInv
            <4>2. pulses' = pulses /\ (settled' => settled)
                BY <2>1, <3>3, GateIsTransparent
            <4>3. settled => pulses = IF fired_q THEN 1 ELSE 0
                BY DEF OneShotInv
            <4>4. CASE fired_q
                BY <4>1, <4>2, <4>3, <4>4
            <4>5. CASE ~fired_q
                BY <4>1, <4>2, <4>3, <4>5
            <4> QED
                BY <4>4, <4>5
        <3> QED
            BY <3>1, <3>2, <3>3
    <2>5. consec' >= LOCK_HOLD_CYCLES => fired_q'
        <3> SUFFICES ASSUME consec' >= LOCK_HOLD_CYCLES PROVE fired_q'
            OBVIOUS
        <3>1. rst_n /\ lock_now
            BY <1>1, <2>1
        <3>2. consec >= LOCK_HOLD_CYCLES - 1
            BY <1>1, <2>1, <3>1 DEF Capped
        <3>3. fired_q \/ hold_counter = 1
            BY <1>1, <1>2, <3>2 DEF OneShotInv
        <3>4. fired_q \/ fire_pulse
            BY <3>1, <3>3 DEF fire_pulse, PulseWith, lock_now
        <3> QED
            BY <2>1, <2>3, <3>1, <3>4 DEF FiredNext
    <2> QED
        BY <2>1, <2>4, <2>5 DEF OneShotInv
<1>4. CASE AssertReset
    BY <1>1, <1>4 DEF AssertReset, OneShotInv
<1>5. CASE ReleaseReset
    BY <1>5 DEF ReleaseReset, regs, history, OneShotInv
<1>6. CASE WiresMove
    BY <1>6 DEF WiresMove, regs, OneShotInv
<1>7. CASE UNCHANGED vars
    BY <1>7 DEF vars, regs, history, OneShotInv
<1> QED
    BY <1>3, <1>4, <1>5, <1>6, <1>7 DEF Next

LEMMA AlwaysOneShot ==
    ASSUME LOCK_HOLD_CYCLES >= 2
    PROVE  Spec => [](HoldInv /\ OneShotInv)
<1>1. Init => OneShotInv
    BY ReloadFacts DEF Init, OneShotInv
<1>2. HoldInv /\ OneShotInv /\ [Next]_vars => OneShotInv'
    BY OneShotStep
<1> QED
    BY <1>1, <1>2, AlwaysHold, PTL DEF Spec

(* One continuous arming emits at most one pulse, for every hold of at     *)
(* least two cycles and inputs that change on the clock edge.  (For a hold *)
(* of one the property is false: a run shows it.)                          *)
THEOREM OnePulse ==
    ASSUME LOCK_HOLD_CYCLES >= 2
    PROVE  Spec => []AtMostOnePulsePerArming
<1>1. OneShotInv => AtMostOnePulsePerArming
    BY DEF OneShotInv, AtMostOnePulsePerArming
<1> QED
    BY <1>1, AlwaysOneShot, PTL

(* The trigger is high in exactly the cycle that completes the hold.       *)
THEOREM FireInstant ==
    ASSUME LOCK_HOLD_CYCLES >= 2
    PROVE  Spec => []ExactFireInstant
<1>1. HoldInv /\ OneShotInv => ExactFireInstant
    <2> SUFFICES ASSUME HoldInv, OneShotInv PROVE ExactFireInstant
        OBVIOUS
    <2>1. hold_counter = 1 <=> consec = LOCK_HOLD_CYCLES - 1
        BY ReloadFacts DEF HoldInv, CountdownInv, TypeOK
    <2>2. settled => (~fired_q <=> pulses = 0)
        BY DEF OneShotInv
    <2> QED
        BY <2>1, <2>2, GateIsTransparent
           DEF ExactFireInstant, fire_pulse, PulseWith, lock_now
<1> QED
    BY <1>1, AlwaysOneShot, PTL

(* A hold completed at LOCK_HOLD_CYCLES consecutive edges has fired.       *)
THEOREM LatencyIsBounded ==
    ASSUME LOCK_HOLD_CYCLES >= 2
    PROVE  Spec => []BoundedLatency
<1>1. HoldInv /\ OneShotInv => BoundedLatency
    BY ReloadFacts DEF HoldInv, TypeOK, OneShotInv, BoundedLatency
<1> QED
    BY <1>1, AlwaysOneShot, PTL

(* The firing instant, with glitches, stale latches and all.               *)
THEOREM FiringInstant ==
    ASSUME LOCK_HOLD_CYCLES >= 2
    PROVE  Spec => []FiresAtHold
<1>1. FireNeedsSampledLock /\ ExactFireInstant /\ BoundedLatency => FiresAtHold
    BY DEF FiresAtHold
<1> QED
    BY <1>1, GlitchKeepsHold, FireInstant, LatencyIsBounded, PTL

-----------------------------------------------------------------------------
(* The fabric and its references. *)

LEMMA ReloadIsHold == reload_value = LOCK_HOLD_CYCLES
<1>1. \A n, m \in Nat : n < m => n % m = n
    OBVIOUS
<1> QED
    BY <1>1, WidthAssumption, HoldAssumption DEF reload_value
(* The reference keeps the registers of the RTL, in reset too, and its     *)
(* report dates a real pulse that no other precedes.                       *)
FabricInv ==
    /\ in \in Inputs /\ fired_q \in BOOLEAN /\ cycle_index \in Nat
    /\ tracing =>
          /\ ref_hold = hold_counter /\ ref_fired = fired_q
          /\ past_fires \in SUBSET (0 .. cycle_index - 1)
          /\ trigger_count = Cardinality(past_fires)
          /\ IF past_fires = {} THEN first_trigger_cycle = -1
             ELSE /\ first_trigger_cycle \in past_fires
                  /\ \A d \in past_fires : first_trigger_cycle <= d
    /\ ~rst_n => hold_counter = RELOAD /\ ~fired_q

(* The two machines say the same of one stimulus. *)
LEMMA SameOutputs ==
    ASSUME ref_hold = hold_counter, ref_fired = fired_q
    PROVE  /\ ref_lock_now(in) = lock_now
           /\ ref_trigger(in) = trigger /\ ref_trigger(in) = fire_pulse
           /\ ref_fast_permit(in) = PermitWith(in)
           /\ ref_fast_fire(in) = fast_fire /\ fast_fire = ref_trigger(in)
<1>1. /\ ref_lock_now(in) = lock_now /\ ref_fast_permit(in) = PermitWith(in)
      /\ PermitWith(in) = lock_now
    BY DEF ref_lock_now, lock_now, LockWith, EvidenceClears, ref_fast_permit, PermitWith
<1>2. ref_trigger(in) = fire_pulse
    BY <1>1 DEF ref_trigger, fire_pulse, PulseWith, lock_now
<1>3. fast_fire = fire_pulse
    BY <1>1 DEF fast_fire, FastFireWith, fire_pulse, PulseWith, lock_now
<1>4. ref_fast_fire(in) = (ref_trigger(in) /\ PermitWith(in))
    BY <1>1 DEF ref_fast_fire
<1>5. ref_fast_fire(in) = fast_fire
    BY <1>1, <1>2, <1>4 DEF fast_fire, FastFireWith, fire_pulse
<1> QED
    BY <1>1, <1>2, <1>3, <1>5 DEF trigger

(* One stimulus later they are in the same state. *)
LEMMA SameRegisters ==
    ASSUME ref_hold = hold_counter, ref_fired = fired_q, fired_q \in BOOLEAN,
           in \in Inputs, rst_n, ClockEdge, Advance(in)
    PROVE  ref_hold' = hold_counter' /\ ref_fired' = fired_q' /\ fired_q' \in BOOLEAN
<1>1. /\ hold_counter' = HoldNext /\ fired_q' = FiredNext
      /\ in.arm \in BOOLEAN
    BY DEF ClockEdge, Inputs
<1>2. ref_lock_now(in) = lock_now /\ ref_trigger(in) = fire_pulse
    BY SameOutputs
<1>3. reload_value = RELOAD
    BY ReloadIsHold DEF RELOAD
<1>4. lock_now => in.arm
    BY DEF lock_now, LockWith
<1>5. fire_pulse => lock_now
    BY DEF fire_pulse, PulseWith, lock_now
<1>6. CASE ~in.arm
    BY <1>1, <1>3, <1>4, <1>6 DEF Advance, HoldNext, FiredNext
<1>7. CASE in.arm /\ ~lock_now
    <2>1. ref_hold' = reload_value /\ ref_fired' = ref_fired
        BY <1>2, <1>7 DEF Advance
    <2>2. fired_q' = fired_q
        BY <1>1, <1>5, <1>7 DEF FiredNext
    <2> QED
        BY <1>1, <1>3, <1>7, <2>1, <2>2 DEF HoldNext
<1>8. CASE lock_now
    <2>1. /\ ref_hold' = (IF ref_hold # 0 THEN ref_hold - 1 ELSE 0)
          /\ ref_fired' = (ref_fired \/ ref_trigger(in))
        BY <1>2, <1>4, <1>8 DEF Advance
    <2>2. ref_hold' = hold_counter'
        BY <1>1, <1>8, <2>1 DEF HoldNext
    <2>3. fired_q' = (fired_q \/ fire_pulse)
        BY <1>1, <1>4, <1>8 DEF FiredNext
    <2> QED
        BY <1>2, <2>1, <2>2, <2>3
<1> QED
    BY <1>4, <1>6, <1>7, <1>8

(* The report counts one cycle more, and dates the first.                  *)
LEMMA ReportStep ==
    ASSUME FabricInv, tracing, Cycle
    PROVE  /\ past_fires' \in SUBSET (0 .. cycle_index' - 1)
           /\ trigger_count' = Cardinality(past_fires')
           /\ IF past_fires' = {} THEN first_trigger_cycle' = -1
              ELSE /\ first_trigger_cycle' \in past_fires'
                   /\ \A d \in past_fires' : first_trigger_cycle' <= d
<1>1. /\ ref_hold = hold_counter /\ ref_fired = fired_q
      /\ past_fires \subseteq 0 .. cycle_index - 1
      /\ trigger_count = Cardinality(past_fires)
      /\ cycle_index \in Nat
      /\ IF past_fires = {} THEN first_trigger_cycle = -1
         ELSE /\ first_trigger_cycle \in past_fires
              /\ \A d \in past_fires : first_trigger_cycle <= d
    BY DEF FabricInv
<1>2. ref_trigger(in) = fast_fire
    BY <1>1, SameOutputs
<1>3. cycle_index' = cycle_index + 1 /\ cycle_index \notin past_fires
    BY <1>1 DEF Cycle
<1>4. past_fires \subseteq 0 .. cycle_index' - 1 /\ cycle_index \in 0 .. cycle_index' - 1
    BY <1>1, <1>3
<1>5. CASE ~fast_fire
    BY <1>1, <1>2, <1>4, <1>5 DEF Cycle
<1>6. CASE fast_fire
    <2>1. /\ past_fires' = past_fires \cup {cycle_index}
          /\ trigger_count' = trigger_count + 1
          /\ first_trigger_cycle' = IF first_trigger_cycle = -1 THEN cycle_index
                                    ELSE first_trigger_cycle
        BY <1>2, <1>6 DEF Cycle
    <2>2. IsFiniteSet(past_fires)
        <3>1. cycle_index - 1 \in Int /\ 0 \in Int
            BY <1>1
        <3>2. IsFiniteSet(0 .. cycle_index - 1)
            BY <3>1, FS_Interval
        <3> QED
            BY <1>1, <3>2, FS_Subset
    <2>3. trigger_count' = Cardinality(past_fires')
        BY <1>1, <1>3, <2>1, <2>2, FS_AddElement
    <2>4. \A d \in past_fires : d \in Nat /\ d <= cycle_index
        BY <1>1
    <2>5. /\ first_trigger_cycle' \in past_fires'
          /\ \A d \in past_fires' : first_trigger_cycle' <= d
        <3>1. CASE past_fires = {}
            BY <1>1, <2>1, <3>1
        <3>2. CASE past_fires # {}
            <4>1. first_trigger_cycle \in past_fires
                  /\ \A d \in past_fires : first_trigger_cycle <= d
                BY <1>1, <3>2
            <4>2. first_trigger_cycle \in Nat
                BY <2>4, <4>1
            <4>3. first_trigger_cycle' = first_trigger_cycle
                BY <2>1, <4>2
            <4> QED
                BY <2>1, <2>4, <4>1, <4>3
        <3> QED
            BY <3>1, <3>2
    <2> QED
        BY <1>4, <2>1, <2>3, <2>5
<1> QED
    BY <1>5, <1>6

LEMMA FabricInitially == CosimInit => FabricInv
<1> SUFFICES ASSUME CosimInit PROVE FabricInv
    OBVIOUS
<1>1. ref_hold = hold_counter
    BY ReloadIsHold DEF CosimInit, Init, RELOAD
<1>2. Cardinality(past_fires) = 0
    BY FS_EmptySet DEF CosimInit
<1> QED
    BY <1>1, <1>2 DEF CosimInit, Init, FabricInv

LEMMA FabricStep == FabricInv /\ [CosimNext]_cosimVars => FabricInv'
<1> SUFFICES ASSUME FabricInv, [CosimNext]_cosimVars PROVE FabricInv'
    OBVIOUS
<1>1. MAX_CYCLES \in Nat /\ cycle_index \in Nat
    BY CosimAssumption DEF FabricInv
<1>2. CASE tracing /\ Cycle
    <2>1. /\ rst_n /\ rst_n' = rst_n /\ in' \in Inputs
          /\ ClockEdge /\ Advance(in) /\ cycle_index' = cycle_index + 1
        BY <1>2 DEF Cycle, ClockEdge
    <2>2. ref_hold' = hold_counter' /\ ref_fired' = fired_q' /\ fired_q' \in BOOLEAN
        BY <1>2, <2>1, SameRegisters DEF FabricInv
    <2> QED
        BY <1>1, <1>2, <2>1, <2>2, ReportStep DEF FabricInv
<1>3. CASE tracing /\ Release
    BY <1>3 DEF Release, ReleaseReset, reference, regs, FabricInv, tracing
<1>4. CASE EndTrace
    <2>1. ~tracing' /\ cycle_index' \in Nat
        BY <1>1, <1>4 DEF EndTrace, tracing
    <2> QED
        BY <1>4, <2>1 DEF EndTrace, vars, regs, FabricInv, RELOAD
<1>5. CASE RtlAlone(Next)
    <2>1. ~tracing' /\ cycle_index' = cycle_index /\ Next
        BY <1>5 DEF RtlAlone, reference, tracing
    <2>2. in' \in Inputs
        BY <2>1
        DEF Next, ClockEdge, WiresMove, AssertReset, ReleaseReset, FabricInv
    <2>3. fired_q' \in BOOLEAN
        <3>1. CASE ClockEdge
            <4>1. in.arm \in BOOLEAN /\ fired_q \in BOOLEAN
                BY DEF FabricInv, Inputs
            <4> QED
                BY <3>1, <4>1 DEF ClockEdge, FiredNext
        <3>2. CASE ~ClockEdge
            BY <2>1, <3>2
            DEF Next, WiresMove, AssertReset, ReleaseReset, regs, FabricInv
        <3> QED
            BY <3>1, <3>2
    <2>4. ~rst_n' => hold_counter' = RELOAD /\ ~fired_q'
        BY <2>1
        DEF Next, ClockEdge, WiresMove, AssertReset, ReleaseReset, regs, FabricInv, RELOAD
    <2> QED
        BY <1>1, <2>1, <2>2, <2>3, <2>4 DEF FabricInv
<1>6. CASE UNCHANGED cosimVars
    BY <1>6 DEF cosimVars, vars, regs, reference, FabricInv, tracing, RELOAD
<1> QED
    BY <1>2, <1>3, <1>4, <1>5, <1>6 DEF CosimNext

(* The fabric's reference is the RTL to the bit on every trace, for every  *)
(* hold and threshold and a trace of any length, and its report is the     *)
(* actuator's history.                                                     *)
THEOREM FabricBitTrue == LaneSpec => []CosimBitTrue
<1>1. LaneInit => FabricInv
    BY FabricInitially DEF LaneInit
<1>2. FabricInv /\ [LaneNext]_laneVars => FabricInv'
    <2>1. [LaneNext]_laneVars => [CosimNext]_cosimVars
        BY DEF LaneNext, OfFabric, OfAdc, OfCdc, OfFifo, laneVars, fabricVars
    <2> QED
        BY <2>1, FabricStep
<1>3. FabricInv => CosimBitTrue
    <2> SUFFICES ASSUME FabricInv, tracing
                 PROVE  /\ rst_n => RtlSample = ReferenceCycle
                        /\ first_trigger_cycle =
                             (IF past_fires = {} THEN -1
                              ELSE CHOOSE c \in past_fires :
                                     \A d \in past_fires : c <= d)
                        /\ trigger_count = Cardinality(past_fires)
        BY DEF CosimBitTrue
    <2>1. ref_hold = hold_counter /\ ref_fired = fired_q
        BY DEF FabricInv
    <2>2. RtlSample = ReferenceCycle
        BY <2>1, SameOutputs DEF RtlSample, ReferenceCycle
    <2>3. CASE past_fires = {}
        BY <2>2, <2>3 DEF FabricInv
    <2>4. CASE past_fires # {}
        <3>1. /\ first_trigger_cycle \in past_fires
              /\ \A d \in past_fires : first_trigger_cycle <= d
              /\ \A d \in past_fires : d \in Int
            BY <2>4 DEF FabricInv
        <3>2. \A c \in past_fires :
                 (\A d \in past_fires : c <= d) => c = first_trigger_cycle
            BY <3>1
        <3>3. first_trigger_cycle = CHOOSE c \in past_fires : \A d \in past_fires : c <= d
            BY <3>1, <3>2
        <3> QED
            BY <2>2, <2>4, <3>3 DEF FabricInv
    <2> QED
        BY <2>3, <2>4
<1> QED
    BY <1>1, <1>2, <1>3, PTL DEF LaneSpec

-----------------------------------------------------------------------------
(* What the quantiser owes a polarity: spikes pending and presented.       *)
AdcTypes ==
    /\ pending \in [Adc!Polarities -> 0 .. SPIKE_COUNTER_MAX]
    /\ aer_address \in Adc!Polarities /\ aer_valid \in BOOLEAN
    /\ owed \in [Adc!Polarities -> 0 .. Adc!Owable] /\ overrun \in BOOLEAN

AdcInv ==
    /\ AdcTypes
    /\ ~overrun => \A p \in Adc!Polarities :
                      /\ owed[p] = pending[p] + Adc!Presented(p)
                      /\ owed[p] <= SPIKE_COUNTER_MAX

LEMMA QuantiserFacts ==
    /\ RATE_THRESHOLD \in Nat \ {0} /\ SPIKE_COUNTER_MAX \in Nat \ {0}
    /\ MAG_MODULUS \in Nat /\ RATE_THRESHOLD < MAG_MODULUS
    /\ \A s \in Samples : Adc!q8_8_magnitude(s) \in Nat
    /\ Adc!Owable = SPIKE_COUNTER_MAX + 2
    /\ \A s \in Samples : Adc!PolarityOf(s) \in Adc!Polarities
<1>1. Adc!QuantiserAssumption
    BY AdcParameters
<1>2. \A s \in Samples : Adc!q8_8_magnitude(s) \in Nat
    BY <1>1 DEF Adc!QuantiserAssumption, Adc!q8_8_magnitude
<1>3. \A s \in Samples : Adc!PolarityOf(s) \in Adc!Polarities
    BY DEF Adc!PolarityOf, Adc!Polarities
<1> QED
    BY <1>1, <1>2, <1>3 DEF Adc!QuantiserAssumption, Adc!Owable

(* A spike joins its counter unless that is full. *)
LEMMA Queueing ==
    ASSUME AdcTypes, NEW sample \in Samples, NEW adc_valid \in BOOLEAN
    PROVE  LET queued == Adc!Queued(sample, adc_valid)
               room == pending[Adc!PolarityOf(sample)] # SPIKE_COUNTER_MAX
               spike == Adc!spike_ready(sample, adc_valid)
           IN  /\ queued \in [Adc!Polarities -> 0 .. SPIKE_COUNTER_MAX]
               /\ \A p \in Adc!Polarities :
                     queued[p] = pending[p]
                        + (IF spike /\ room /\ Adc!PolarityOf(sample) = p THEN 1 ELSE 0)
<1> DEFINE q == Adc!PolarityOf(sample)
<1>1. /\ q \in Adc!Polarities /\ SPIKE_COUNTER_MAX \in Nat
      /\ pending \in [Adc!Polarities -> 0 .. SPIKE_COUNTER_MAX]
    BY QuantiserFacts DEF AdcTypes
<1> HIDE DEF q
<1>2. CASE Adc!spike_ready(sample, adc_valid) /\ pending[q] # SPIKE_COUNTER_MAX
    <2>1. Adc!Queued(sample, adc_valid) = [pending EXCEPT ![q] = @ + 1]
        BY <1>2 DEF Adc!Queued, q
    <2>2. pending[q] + 1 \in 0 .. SPIKE_COUNTER_MAX
        BY <1>1, <1>2
    <2> QED
        BY <1>1, <1>2, <2>1, <2>2 DEF q
<1>3. CASE ~(Adc!spike_ready(sample, adc_valid) /\ pending[q] # SPIKE_COUNTER_MAX)
    <2>1. Adc!Queued(sample, adc_valid) = pending
        BY <1>3 DEF Adc!Queued, q
    <2> QED
        BY <1>1, <1>3, <2>1 DEF q
<1> QED
    BY <1>2, <1>3

(* The output register takes from a counter what it then presents.         *)
LEMMA Presenting ==
    ASSUME AdcTypes, NEW queued \in [Adc!Polarities -> 0 .. SPIKE_COUNTER_MAX],
           NEW ready \in BOOLEAN, Adc!Present(queued, ready)
    PROVE  /\ pending' \in [Adc!Polarities -> 0 .. SPIKE_COUNTER_MAX]
           /\ aer_address' \in Adc!Polarities /\ aer_valid' \in BOOLEAN
           /\ \A p \in Adc!Polarities :
                 pending'[p] + Adc!Presented(p)' =
                    queued[p] + (IF Adc!Frees(ready) THEN 0 ELSE Adc!Presented(p))
<1>1. /\ 1 \in Adc!Polarities /\ -1 \in Adc!Polarities /\ SPIKE_COUNTER_MAX \in Nat
      /\ \A p \in Adc!Polarities : p = 1 \/ p = -1
      /\ \A p \in Adc!Polarities : queued[p] \in Nat
    BY QuantiserFacts DEF Adc!Polarities
<1>2. CASE ~Adc!Frees(ready)
    BY <1>1, <1>2 DEF Adc!Present, Adc!Presented, AdcTypes
<1>3. ASSUME Adc!Frees(ready), NEW q \in Adc!Polarities, queued[q] # 0,
             aer_address' = q, aer_valid' = TRUE, pending' = [queued EXCEPT ![q] = @ - 1]
      PROVE  /\ pending' \in [Adc!Polarities -> 0 .. SPIKE_COUNTER_MAX]
             /\ aer_address' \in Adc!Polarities /\ aer_valid' \in BOOLEAN
             /\ \A p \in Adc!Polarities : pending'[p] + Adc!Presented(p)' = queued[p]
    <2>1. queued[q] - 1 \in 0 .. SPIKE_COUNTER_MAX
        BY <1>1, <1>3
    <2>2. pending' \in [Adc!Polarities -> 0 .. SPIKE_COUNTER_MAX]
        BY <1>3, <2>1
    <2>3. \A p \in Adc!Polarities : pending'[p] = IF p = q THEN queued[q] - 1 ELSE queued[p]
        BY <1>3
    <2>4. \A p \in Adc!Polarities : Adc!Presented(p)' = IF p = q THEN 1 ELSE 0
        BY <1>3 DEF Adc!Presented
    <2>5. \A p \in Adc!Polarities : pending'[p] + Adc!Presented(p)' = queued[p]
        BY <1>1, <2>3, <2>4
    <2> QED
        BY <1>3, <2>2, <2>5
<1>4. CASE Adc!Frees(ready) /\ queued = Adc!None /\ pending' = queued
           /\ aer_valid' = FALSE /\ UNCHANGED aer_address
    BY <1>1, <1>4 DEF Adc!Presented, AdcTypes
<1>5. CASE Adc!Frees(ready)
    <2>1. \A p \in Adc!Polarities :
              queued[p] + (IF Adc!Frees(ready) THEN 0 ELSE Adc!Presented(p)) = queued[p]
        BY <1>1, <1>5
    <2>2. \/ /\ queued[1] # 0 /\ aer_address' = 1 /\ aer_valid' = TRUE
             /\ pending' = [queued EXCEPT ![1] = @ - 1]
          \/ /\ queued[-1] # 0 /\ aer_address' = -1 /\ aer_valid' = TRUE
             /\ pending' = [queued EXCEPT ![-1] = @ - 1]
          \/ /\ queued = Adc!None /\ pending' = queued /\ aer_valid' = FALSE
             /\ UNCHANGED aer_address
        BY <1>5 DEF Adc!Present
    <2>3. CASE queued[1] # 0 /\ aer_address' = 1 /\ aer_valid' = TRUE
               /\ pending' = [queued EXCEPT ![1] = @ - 1]
        BY <1>1, <1>3, <1>5, <2>1, <2>3
    <2>4. CASE queued[-1] # 0 /\ aer_address' = -1 /\ aer_valid' = TRUE
               /\ pending' = [queued EXCEPT ![-1] = @ - 1]
        BY <1>1, <1>3, <1>5, <2>1, <2>4
    <2> QED
        BY <1>4, <1>5, <2>2, <2>3, <2>4
<1> QED
    BY <1>2, <1>5

(* On an edge the debt grows by the spike and shrinks by what was taken.   *)
LEMMA AdcEdge ==
    ASSUME AdcInv, NEW sample \in Samples, NEW adc_valid \in BOOLEAN,
           NEW ready \in BOOLEAN, adc_rst_n,
           Adc!ClockWith(sample, adc_valid, ready)
    PROVE  AdcInv'
<1> DEFINE queued == Adc!Queued(sample, adc_valid)
           spike == Adc!spike_ready(sample, adc_valid)
           q == Adc!PolarityOf(sample)
           sp(p) == IF spike /\ q = p THEN 1 ELSE 0
           tk(p) == IF aer_valid /\ ready /\ aer_address = p THEN 1 ELSE 0
           due(p) == owed[p] + sp(p) - tk(p)
<1>1. AdcTypes /\ SPIKE_COUNTER_MAX \in Nat /\ Adc!Owable = SPIKE_COUNTER_MAX + 2
    BY QuantiserFacts DEF AdcInv
<1>2. /\ queued \in [Adc!Polarities -> 0 .. SPIKE_COUNTER_MAX]
      /\ \A p \in Adc!Polarities :
            queued[p] = pending[p] + (IF spike /\ pending[q] # SPIKE_COUNTER_MAX /\ q = p
                                      THEN 1 ELSE 0)
    BY <1>1, Queueing
<1>3. Adc!Present(queued, ready)
    BY DEF Adc!ClockWith
<1>4. /\ pending' \in [Adc!Polarities -> 0 .. SPIKE_COUNTER_MAX]
      /\ aer_address' \in Adc!Polarities /\ aer_valid' \in BOOLEAN
      /\ \A p \in Adc!Polarities :
            pending'[p] + Adc!Presented(p)' =
                queued[p] + (IF Adc!Frees(ready) THEN 0 ELSE Adc!Presented(p))
    BY <1>1, <1>2, <1>3, Presenting
<1>5. /\ owed' = [p \in Adc!Polarities |->
                     IF due(p) < 0 THEN 0
                     ELSE IF due(p) > Adc!Owable THEN Adc!Owable ELSE due(p)]
      /\ overrun' = (overrun \/ \E p \in Adc!Polarities : owed'[p] > SPIKE_COUNTER_MAX)
    BY DEF Adc!ClockWith, Adc!Observe
<1>6. \A p \in Adc!Polarities : owed[p] \in Nat /\ pending[p] \in 0 .. SPIKE_COUNTER_MAX
    BY <1>1 DEF AdcTypes
<1>7. \A p \in Adc!Polarities : sp(p) \in 0 .. 1 /\ tk(p) \in 0 .. 1 /\ due(p) \in Int
    BY <1>6
<1>8. \A p \in Adc!Polarities :
          /\ Adc!Presented(p) \in 0 .. 1 /\ tk(p) <= Adc!Presented(p)
          /\ (IF Adc!Frees(ready) THEN 0 ELSE Adc!Presented(p)) = Adc!Presented(p) - tk(p)
    BY <1>1 DEF Adc!Presented, Adc!Frees, AdcTypes
<1> HIDE DEF due, sp, tk, queued
<1>9. owed' \in [Adc!Polarities -> 0 .. Adc!Owable]
    <2>1. \A p \in Adc!Polarities :
              (IF due(p) < 0 THEN 0
               ELSE IF due(p) > Adc!Owable THEN Adc!Owable ELSE due(p)) \in 0 .. Adc!Owable
        BY <1>1, <1>7
    <2> QED
        BY <1>5, <2>1
<1>10. ASSUME ~overrun', NEW p \in Adc!Polarities
       PROVE  /\ owed'[p] = pending'[p] + Adc!Presented(p)'
              /\ owed'[p] <= SPIKE_COUNTER_MAX
    <2>1. ~overrun /\ owed'[p] <= SPIKE_COUNTER_MAX
        <3>1. ~overrun /\ ~(owed'[p] > SPIKE_COUNTER_MAX)
            BY <1>5, <1>10
        <3>2. owed'[p] \in 0 .. Adc!Owable
            BY <1>9
        <3> QED
            BY <1>1, <3>1, <3>2
    <2>2. owed[p] = pending[p] + Adc!Presented(p)
        BY <2>1 DEF AdcInv
    <2>3. owed'[p] = IF due(p) < 0 THEN 0
                     ELSE IF due(p) > Adc!Owable THEN Adc!Owable ELSE due(p)
        BY <1>5
    <2>4. due(p) = pending[p] + Adc!Presented(p) + sp(p) - tk(p)
        BY <2>2 DEF due
    <2>5. owed'[p] = due(p) /\ due(p) <= SPIKE_COUNTER_MAX
        BY <1>1, <1>6, <1>7, <1>8, <2>1, <2>3, <2>4
    <2>6. queued[p] = pending[p] + sp(p)
        <3>1. CASE spike /\ q = p
            <4>1. sp(p) = 1
                BY <3>1 DEF sp
            <4>2. pending[p] # SPIKE_COUNTER_MAX
                BY <1>1, <1>6, <1>7, <1>8, <2>4, <2>5, <4>1
            <4> QED
                BY <1>2, <3>1, <4>1, <4>2
        <3>2. CASE ~(spike /\ q = p)
            BY <1>2, <1>6, <3>2 DEF sp
        <3> QED
            BY <3>1, <3>2
    <2>7. pending'[p] + Adc!Presented(p)' = queued[p] + (Adc!Presented(p) - tk(p))
        BY <1>4, <1>8
    <2> QED
        BY <1>6, <1>7, <1>8, <2>1, <2>4, <2>5, <2>6, <2>7
<1>11. overrun' \in BOOLEAN
    BY <1>1, <1>5 DEF AdcTypes
<1> QED
    BY <1>4, <1>9, <1>10, <1>11 DEF AdcInv, AdcTypes

LEMMA AdcCleared == Adc!Cleared => AdcInv'
<1> SUFFICES ASSUME Adc!Cleared PROVE AdcInv'
    OBVIOUS
<1>1. /\ pending' = Adc!None /\ owed' = Adc!None /\ aer_address' = 1
      /\ aer_valid' = FALSE /\ overrun' = FALSE
    BY DEF Adc!Cleared
<1>2. SPIKE_COUNTER_MAX \in Nat /\ Adc!Owable \in Nat
    BY QuantiserFacts
<1>3. /\ 1 \in Adc!Polarities
      /\ Adc!None \in [Adc!Polarities -> 0 .. SPIKE_COUNTER_MAX]
      /\ Adc!None \in [Adc!Polarities -> 0 .. Adc!Owable]
    BY <1>2 DEF Adc!None, Adc!Polarities
<1>4. \A p \in Adc!Polarities : Adc!None[p] = 0 /\ Adc!Presented(p)' = 0
    BY <1>1 DEF Adc!None, Adc!Presented
<1>5. AdcTypes'
    BY <1>1, <1>3 DEF AdcTypes
<1>6. \A p \in Adc!Polarities : owed'[p] = pending'[p] + Adc!Presented(p)'
                                /\ owed'[p] <= SPIKE_COUNTER_MAX
    BY <1>1, <1>2, <1>4
<1> QED
    BY <1>5, <1>6 DEF AdcInv

LEMMA AdcInitially == Adc!Init => AdcInv
<1> SUFFICES ASSUME Adc!Init PROVE AdcInv
    OBVIOUS
<1>1. /\ pending = Adc!None /\ owed = Adc!None /\ aer_address = 1
      /\ aer_valid = FALSE /\ overrun = FALSE
    BY DEF Adc!Init
<1>2. SPIKE_COUNTER_MAX \in Nat /\ Adc!Owable \in Nat
    BY QuantiserFacts
<1>3. /\ 1 \in Adc!Polarities
      /\ Adc!None \in [Adc!Polarities -> 0 .. SPIKE_COUNTER_MAX]
      /\ Adc!None \in [Adc!Polarities -> 0 .. Adc!Owable]
    BY <1>2 DEF Adc!None, Adc!Polarities
<1>4. \A p \in Adc!Polarities : Adc!None[p] = 0 /\ Adc!Presented(p) = 0
    BY <1>1 DEF Adc!None, Adc!Presented
<1>5. AdcTypes
    BY <1>1, <1>3 DEF AdcTypes
<1>6. \A p \in Adc!Polarities : owed[p] = pending[p] + Adc!Presented(p)
                                /\ owed[p] <= SPIKE_COUNTER_MAX
    BY <1>1, <1>2, <1>4
<1> QED
    BY <1>5, <1>6 DEF AdcInv

LEMMA AdcStep == AdcInv /\ [Adc!Next]_(Adc!vars) => AdcInv'
<1> SUFFICES ASSUME AdcInv, [Adc!Next]_(Adc!vars) PROVE AdcInv'
    OBVIOUS
<1>1. ASSUME UNCHANGED <<pending, aer_address, aer_valid, owed, overrun>>
      PROVE  AdcInv'
    BY <1>1 DEF AdcInv, AdcTypes, Adc!Presented
<1>2. CASE Adc!ClockEdge
    <2>1. PICK sample \in Samples, adc_valid \in BOOLEAN, ready \in BOOLEAN :
              Adc!ClockWith(sample, adc_valid, ready)
        BY <1>2 DEF Adc!ClockEdge
    <2>2. CASE adc_rst_n
        BY <2>1, <2>2, AdcEdge
    <2>3. CASE ~adc_rst_n
        BY <2>1, <2>3, AdcCleared DEF Adc!ClockWith
    <2> QED
        BY <2>2, <2>3
<1>3. CASE Adc!AssertReset
    BY <1>3, AdcCleared DEF Adc!AssertReset
<1>4. CASE Adc!ReleaseReset \/ Adc!CloseAcquisition \/ UNCHANGED Adc!vars
    BY <1>1, <1>4
    DEF Adc!ReleaseReset, Adc!CloseAcquisition, Adc!vars, Adc!regs, Adc!ledger
<1> QED
    BY <1>2, <1>3, <1>4 DEF Adc!Next

(* A trace step of the quantiser is a step of the quantiser. *)
LEMMA AdcSteps ==
    ASSUME adc_open \in BOOLEAN, [LaneNext]_laneVars
    PROVE  [Adc!Next]_(Adc!vars) /\ adc_open' \in BOOLEAN
<1>1. [Adc!CosimNext]_adcVars
    BY DEF LaneNext, OfFabric, OfAdc, OfCdc, OfFifo, laneVars
<1>2. CASE Adc!Cycle
    <2>1. PICK sample \in Samples, ready \in BOOLEAN :
              Adc!ClockWith(sample, adc_open, ready)
        BY <1>2 DEF Adc!Cycle
    <2>2. Adc!ClockEdge
        BY <2>1 DEF Adc!ClockEdge
    <2> QED
        BY <2>1, <2>2 DEF Adc!Next, Adc!ClockWith
<1>3. CASE Adc!StartDrain \/ Adc!Release
    BY <1>3
    DEF Adc!StartDrain, Adc!Release, Adc!Next, Adc!CloseAcquisition, Adc!ReleaseReset
<1>4. CASE Adc!EndTrace \/ UNCHANGED adcVars
    BY <1>4 DEF Adc!EndTrace, adcVars, Adc!vars, Adc!regs, Adc!ledger
<1>5. CASE Adc!RtlAlone(Adc!Next)
    BY <1>5
    DEF Adc!RtlAlone, Adc!Next, Adc!ClockEdge, Adc!ClockWith, Adc!AssertReset,
        Adc!ReleaseReset, Adc!CloseAcquisition
<1> QED
    BY <1>1, <1>2, <1>3, <1>4, <1>5 DEF Adc!CosimNext

LEMMA AdcAlways == LaneSpec => [](AdcInv /\ adc_open \in BOOLEAN)
<1>1. LaneInit => AdcInv /\ adc_open \in BOOLEAN
    BY AdcInitially DEF LaneInit, Adc!CosimInit, Adc!Init
<1>2. (AdcInv /\ adc_open \in BOOLEAN) /\ [LaneNext]_laneVars
        => (AdcInv /\ adc_open \in BOOLEAN)'
    BY AdcSteps, AdcStep
<1> QED
    BY <1>1, <1>2, PTL DEF LaneSpec

(* No spike of the quantiser is lost, doubled or changed in polarity while *)
(* no counter overran, for every counter width and threshold, however long *)
(* the sink stalls.                                                        *)
THEOREM QuantiserConserves == LaneSpec => []SpikesConserved
<1>1. AdcInv => SpikesConserved
    BY DEF AdcInv, SpikesConserved, Adc!SpikesConserved
<1> QED
    BY <1>1, AdcAlways, PTL

-----------------------------------------------------------------------------
(* The quantiser and its references.  The accumulator of the RTL wraps and *)
(* the references' does not, so they agree only where no sample exceeds    *)
(* the threshold and the sum of both fits the accumulator.                 *)
SamplesFit ==
    \A s \in Samples : /\ Adc!q8_8_magnitude(s) <= RATE_THRESHOLD
                       /\ RATE_THRESHOLD + Adc!q8_8_magnitude(s) <= MAG_MODULUS

Waiting(q) == q[1] + q[-1]

TraceInv ==
    /\ adc_cycle_index \in Nat
    /\ Adc!tracing =>
          /\ rate_accumulator \in 0 .. RATE_THRESHOLD - 1
          /\ rate_accumulator = ref_accumulator /\ pending = ref_pending
          /\ aer_valid = ref_valid /\ aer_address = ref_address
          /\ rate_reference = [accumulator |-> ref_accumulator,
                               spike_count |-> generated]
          /\ generated \in Nat /\ emitted \in Nat /\ dropped \in Nat
          /\ generated = emitted + dropped + Waiting(pending)

LEMMA PolarityFacts ==
    /\ 1 \in Adc!Polarities /\ -1 \in Adc!Polarities /\ 1 # -1
    /\ \A p \in Adc!Polarities : p = 1 \/ p = -1
    /\ \A p \in Adc!Polarities : Adc!None[p] = 0
    /\ \A q \in [Adc!Polarities -> Nat] :
          /\ Waiting(q) \in Nat
          /\ q = Adc!None <=> Waiting(q) = 0
<1>1. /\ 1 \in Adc!Polarities /\ -1 \in Adc!Polarities /\ 1 # -1
      /\ \A p \in Adc!Polarities : p = 1 \/ p = -1
    BY DEF Adc!Polarities
<1>2. \A p \in Adc!Polarities : Adc!None[p] = 0
    BY DEF Adc!None
<1>3. ASSUME NEW q \in [Adc!Polarities -> Nat]
      PROVE  Waiting(q) \in Nat /\ (q = Adc!None <=> Waiting(q) = 0)
    <2>1. q[1] \in Nat /\ q[-1] \in Nat
        BY <1>1
    <2>2. q[1] = 0 /\ q[-1] = 0 => q = Adc!None
        BY <1>1 DEF Adc!None
    <2> QED
        BY <1>1, <1>2, <2>1, <2>2 DEF Waiting
<1> QED
    BY <1>1, <1>2, <1>3

(* Integrating one sample: no wrap, and the same spike on both sides.      *)
LEMMA SameSpike ==
    ASSUME SamplesFit, NEW sample \in Samples, NEW adc_valid \in BOOLEAN,
           rate_accumulator \in 0 .. RATE_THRESHOLD - 1,
           rate_accumulator = ref_accumulator,
           Adc!Integrate(sample, adc_valid)
    PROVE  LET fires == Adc!Fires(sample, adc_valid)
               magnitude == Adc!q8_8_magnitude(sample)
           IN  /\ Adc!spike_ready(sample, adc_valid) = fires
               /\ rate_accumulator' = ref_accumulator
                     + (IF adc_valid THEN magnitude ELSE 0)
                     - (IF fires THEN RATE_THRESHOLD ELSE 0)
               /\ rate_accumulator' \in 0 .. RATE_THRESHOLD - 1
               /\ fires => adc_valid
               /\ fires \in BOOLEAN
<1> DEFINE m == Adc!q8_8_magnitude(sample)
<1>1. /\ m \in Nat /\ RATE_THRESHOLD \in Nat \ {0} /\ MAG_MODULUS \in Nat
      /\ m <= RATE_THRESHOLD /\ RATE_THRESHOLD + m <= MAG_MODULUS
    BY QuantiserFacts DEF SamplesFit
<1> HIDE DEF m
<1>0. rate_accumulator \in Int /\ m \in Int /\ RATE_THRESHOLD \in Int
    BY <1>1
<1>2. rate_accumulator + m \in Nat /\ rate_accumulator + m < MAG_MODULUS
    BY <1>1
<1>3. (rate_accumulator + m) % MAG_MODULUS = rate_accumulator + m
    <2>1. \A n, k \in Nat : n < k => n % k = n
        OBVIOUS
    <2> QED
        BY <1>1, <1>2, <2>1
<1>4. Adc!accumulator_with_sample(sample) = rate_accumulator + m
    BY <1>3 DEF Adc!accumulator_with_sample, m
<1>5. /\ Adc!spike_ready(sample, adc_valid)
            = (adc_valid /\ m # 0 /\ rate_accumulator + m >= RATE_THRESHOLD)
      /\ Adc!Fires(sample, adc_valid)
            = (adc_valid /\ m > 0 /\ ref_accumulator + m >= RATE_THRESHOLD)
    BY <1>4 DEF Adc!spike_ready, Adc!Fires, m
<1>6. m # 0 <=> m > 0
    BY <1>1
<1>7. Adc!spike_ready(sample, adc_valid) = Adc!Fires(sample, adc_valid)
    BY <1>5, <1>6
<1>8. rate_accumulator' = IF ~adc_valid THEN rate_accumulator
                          ELSE IF Adc!Fires(sample, adc_valid)
                          THEN rate_accumulator + m - RATE_THRESHOLD
                          ELSE rate_accumulator + m
    <2>1. rate_accumulator' = IF ~adc_valid THEN rate_accumulator
                              ELSE IF Adc!spike_ready(sample, adc_valid)
                              THEN Adc!accumulator_with_sample(sample) - RATE_THRESHOLD
                              ELSE Adc!accumulator_with_sample(sample)
        BY DEF Adc!Integrate
    <2>2. CASE ~adc_valid
        BY <2>1, <2>2
    <2>3. CASE adc_valid /\ Adc!Fires(sample, adc_valid)
        <3>1. Adc!spike_ready(sample, adc_valid)
            BY <1>7, <2>3
        <3>2. rate_accumulator' = Adc!accumulator_with_sample(sample) - RATE_THRESHOLD
            BY <2>1, <2>3, <3>1
        <3>3. rate_accumulator' = rate_accumulator + m - RATE_THRESHOLD
            BY <1>0, <1>4, <3>2
        <3> QED
            BY <2>3, <3>3
    <2>4. CASE adc_valid /\ ~Adc!Fires(sample, adc_valid)
        BY <1>4, <1>7, <2>1, <2>4
    <2> QED
        BY <2>2, <2>3, <2>4
<1>9. CASE Adc!Fires(sample, adc_valid)
    <2>1. adc_valid /\ rate_accumulator + m >= RATE_THRESHOLD
        BY <1>5, <1>9
    <2>2. rate_accumulator' = rate_accumulator + m - RATE_THRESHOLD
        BY <1>8, <1>9, <2>1
    <2>3. rate_accumulator' \in 0 .. RATE_THRESHOLD - 1
        BY <1>1, <2>1, <2>2
    <2> QED
        BY <1>5, <1>7, <1>9, <2>1, <2>2, <2>3 DEF m
<1>10. CASE ~Adc!Fires(sample, adc_valid) /\ adc_valid
    <2>1. rate_accumulator' = rate_accumulator + m
        BY <1>8, <1>10
    <2>2. m = 0 \/ ~(rate_accumulator + m >= RATE_THRESHOLD)
        BY <1>5, <1>6, <1>10
    <2>3. rate_accumulator' \in 0 .. RATE_THRESHOLD - 1
        <3>1. rate_accumulator \in Nat /\ rate_accumulator <= RATE_THRESHOLD - 1
            BY <1>1
        <3>2. rate_accumulator + m <= RATE_THRESHOLD - 1
            BY <1>1, <2>2, <3>1
        <3> QED
            BY <1>2, <2>1, <3>2, <1>1
    <2>4. rate_accumulator + m - 0 = rate_accumulator + m
        BY <1>0
    <2> QED
        BY <1>5, <1>7, <1>10, <2>1, <2>3, <2>4 DEF m
<1>11. CASE ~adc_valid
    <2>1. ~Adc!Fires(sample, adc_valid) /\ rate_accumulator' = rate_accumulator
        BY <1>5, <1>8, <1>11
    <2>2. rate_accumulator + 0 - 0 = rate_accumulator
        BY <1>1
    <2> QED
        BY <1>5, <1>7, <1>11, <2>1, <2>2 DEF m
<1> QED
    BY <1>9, <1>10, <1>11

(* One edge of both: the same spike queues, waits or is dropped, and the   *)
(* same spike takes the output register.                                   *)
LEMMA SameQueue ==
    ASSUME SamplesFit, AdcInv, NEW sample \in Samples, NEW adc_valid \in BOOLEAN,
           NEW ready \in BOOLEAN, adc_rst_n,
           rate_accumulator \in 0 .. RATE_THRESHOLD - 1,
           rate_accumulator = ref_accumulator, pending = ref_pending,
           aer_valid = ref_valid, aer_address = ref_address,
           generated \in Nat, emitted \in Nat, dropped \in Nat,
           generated = emitted + dropped + Waiting(pending),
           Adc!ClockWith(sample, adc_valid, ready),
           Adc!ReferenceCycle(sample, adc_valid, ready)
    PROVE  /\ rate_accumulator' \in 0 .. RATE_THRESHOLD - 1
           /\ rate_accumulator' = ref_accumulator' /\ pending' = ref_pending'
           /\ aer_valid' = ref_valid' /\ aer_address' = ref_address'
           /\ generated' \in Nat /\ emitted' \in Nat /\ dropped' \in Nat
           /\ generated' = emitted' + dropped' + Waiting(pending')
<1> DEFINE fires == Adc!Fires(sample, adc_valid)
           drops == Adc!Drops(sample, adc_valid)
           s == Adc!PolarityOf(sample)
           queued == Adc!Queued(sample, adc_valid)
           waiting == {p \in Adc!Polarities : queued[p] # 0}
           first == IF 1 \in waiting THEN 1 ELSE -1
           presents == (ready \/ ~ref_valid) /\ waiting # {}
<1>1. Adc!Integrate(sample, adc_valid) /\ Adc!Present(queued, ready)
    BY DEF Adc!ClockWith
<1>2. /\ Adc!spike_ready(sample, adc_valid) = fires /\ fires \in BOOLEAN
      /\ rate_accumulator' \in 0 .. RATE_THRESHOLD - 1
      /\ rate_accumulator' = ref_accumulator
             + (IF adc_valid THEN Adc!q8_8_magnitude(sample) ELSE 0)
             - (IF fires THEN RATE_THRESHOLD ELSE 0)
    BY <1>1, SameSpike
<1>3. /\ AdcTypes /\ s \in Adc!Polarities /\ SPIKE_COUNTER_MAX \in Nat
      /\ pending \in [Adc!Polarities -> 0 .. SPIKE_COUNTER_MAX]
      /\ aer_valid \in BOOLEAN
    BY QuantiserFacts DEF AdcInv, AdcTypes
<1>4. queued = IF fires /\ ref_pending[s] # SPIKE_COUNTER_MAX
               THEN [ref_pending EXCEPT ![s] = @ + 1] ELSE ref_pending
    BY <1>2 DEF Adc!Queued
<1>5. /\ ref_accumulator' = ref_accumulator
             + (IF adc_valid THEN Adc!q8_8_magnitude(sample) ELSE 0)
             - (IF fires THEN RATE_THRESHOLD ELSE 0)
      /\ ref_valid' = (presents \/ (ref_valid /\ ~ready))
      /\ ref_address' = IF presents THEN first ELSE ref_address
      /\ ref_pending' = IF presents THEN [queued EXCEPT ![first] = @ - 1] ELSE queued
      /\ generated' = generated + (IF fires THEN 1 ELSE 0)
      /\ emitted' = emitted + (IF presents THEN 1 ELSE 0)
      /\ dropped' = dropped + (IF drops THEN 1 ELSE 0)
    BY <1>4 DEF Adc!ReferenceCycle
<1>6. rate_accumulator' = ref_accumulator'
    BY <1>2, <1>5
<1>7. drops = (fires /\ pending[s] = SPIKE_COUNTER_MAX)
    BY DEF Adc!Drops
<1>8. /\ queued \in [Adc!Polarities -> 0 .. SPIKE_COUNTER_MAX]
      /\ \A p \in Adc!Polarities :
            queued[p] = pending[p] + (IF fires /\ pending[s] # SPIKE_COUNTER_MAX /\ s = p
                                      THEN 1 ELSE 0)
    BY <1>2, <1>3, Queueing
<1> HIDE DEF queued, fires, drops, s
<1>9. /\ 1 \in Adc!Polarities /\ -1 \in Adc!Polarities /\ 1 # -1
      /\ \A p \in Adc!Polarities : p = 1 \/ p = -1
      /\ \A p \in Adc!Polarities : Adc!None[p] = 0
    BY PolarityFacts
<1>10. waiting # {} <=> queued[1] # 0 \/ queued[-1] # 0
    BY <1>9
<1>11. first = (IF queued[1] # 0 THEN 1 ELSE -1)
    BY <1>9
<1>12. Adc!Frees(ready) = (~aer_valid \/ ready)
    BY DEF Adc!Frees
<1> HIDE DEF waiting, first
(* Counted in spikes, the edge balances. *)
<1>13. Waiting(queued) + (IF drops THEN 1 ELSE 0)
            = Waiting(pending) + (IF fires THEN 1 ELSE 0)
    <2>1. /\ pending[1] \in 0 .. SPIKE_COUNTER_MAX /\ pending[-1] \in 0 .. SPIKE_COUNTER_MAX
          /\ s = 1 \/ s = -1
        BY <1>3, <1>9
    <2>2. /\ queued[1] = pending[1]
               + (IF fires /\ pending[s] # SPIKE_COUNTER_MAX /\ s = 1 THEN 1 ELSE 0)
          /\ queued[-1] = pending[-1]
               + (IF fires /\ pending[s] # SPIKE_COUNTER_MAX /\ s = -1 THEN 1 ELSE 0)
        BY <1>8, <1>9
    <2>3. CASE fires /\ pending[s] # SPIKE_COUNTER_MAX
        <3>1. ~drops
            BY <1>7, <2>3
        <3>2. CASE s = 1
            <4>1. queued[1] = pending[1] + 1 /\ queued[-1] = pending[-1] + 0
                BY <1>9, <2>2, <2>3, <3>2
            <4> QED
                BY <2>1, <2>3, <3>1, <4>1 DEF Waiting
        <3>3. CASE s = -1
            <4>1. queued[1] = pending[1] + 0 /\ queued[-1] = pending[-1] + 1
                BY <1>9, <2>2, <2>3, <3>3
            <4> QED
                BY <2>1, <2>3, <3>1, <4>1 DEF Waiting
        <3> QED
            BY <2>1, <3>2, <3>3
    <2>4. CASE ~(fires /\ pending[s] # SPIKE_COUNTER_MAX)
        <3>1. drops <=> fires
            BY <1>7, <2>4
        <3>2. queued[1] = pending[1] + 0 /\ queued[-1] = pending[-1] + 0
            BY <2>2, <2>4
        <3> QED
            BY <2>1, <3>1, <3>2 DEF Waiting
    <2> QED
        BY <2>3, <2>4
<1>14. queued[1] \in Nat /\ queued[-1] \in Nat
    BY <1>3, <1>8, <1>9
(* What the output register does. *)
<1>15. /\ pending' = ref_pending' /\ aer_valid' = ref_valid' /\ aer_address' = ref_address'
       /\ Waiting(pending') + (IF presents THEN 1 ELSE 0) = Waiting(queued)
    <2>1. CASE ~Adc!Frees(ready)
        <3>1. pending' = queued /\ aer_valid' = aer_valid /\ aer_address' = aer_address
            BY <1>1, <2>1 DEF Adc!Present
        <3>2. aer_valid /\ ~ready /\ ~presents
            BY <1>12, <2>1
        <3>3. Waiting(queued) + 0 = Waiting(queued)
            BY <1>14 DEF Waiting
        <3> QED
            BY <1>3, <1>5, <3>1, <3>2, <3>3
    <2>2. CASE Adc!Frees(ready) /\ queued[1] # 0
        <3>1. /\ aer_address' = 1 /\ aer_valid' = TRUE
              /\ pending' = [queued EXCEPT ![1] = @ - 1]
            BY <1>1, <1>9, <2>2 DEF Adc!Present
        <3>2. presents /\ first = 1
            BY <1>10, <1>11, <1>12, <2>2
        <3>3. pending'[1] = queued[1] - 1 /\ pending'[-1] = queued[-1]
            BY <1>8, <1>9, <3>1
        <3>4. Waiting(pending') + 1 = Waiting(queued)
            BY <1>14, <3>3 DEF Waiting
        <3> QED
            BY <1>5, <3>1, <3>2, <3>4
    <2>3. CASE Adc!Frees(ready) /\ queued[1] = 0 /\ queued[-1] # 0
        <3>1. /\ aer_address' = -1 /\ aer_valid' = TRUE
              /\ pending' = [queued EXCEPT ![-1] = @ - 1]
            BY <1>1, <1>9, <2>3 DEF Adc!Present
        <3>2. presents /\ first = -1
            BY <1>10, <1>11, <1>12, <2>3
        <3>3. pending'[1] = queued[1] /\ pending'[-1] = queued[-1] - 1
            BY <1>8, <1>9, <3>1
        <3>4. Waiting(pending') + 1 = Waiting(queued)
            BY <1>14, <3>3 DEF Waiting
        <3> QED
            BY <1>5, <3>1, <3>2, <3>4
    <2>4. CASE Adc!Frees(ready) /\ queued[1] = 0 /\ queued[-1] = 0
        <3>1. pending' = queued /\ aer_valid' = FALSE /\ aer_address' = aer_address
            BY <1>1, <2>4 DEF Adc!Present
        <3>2. ~presents /\ ~(ref_valid /\ ~ready)
            BY <1>10, <1>12, <2>4
        <3>3. Waiting(queued) + 0 = Waiting(queued)
            BY <1>14 DEF Waiting
        <3> QED
            BY <1>3, <1>5, <3>1, <3>2, <3>3
    <2> QED
        BY <2>1, <2>2, <2>3, <2>4
<1>16. Waiting(queued) \in Nat /\ Waiting(pending) \in Nat
    BY <1>3, <1>9, <1>14 DEF Waiting
<1> HIDE DEF presents
<1>17. Waiting(pending') \in Int
    <2>1. pending'[1] \in Int /\ pending'[-1] \in Int
        BY <1>1, <1>3, <1>8, <1>9, Presenting
    <2> QED
        BY <2>1 DEF Waiting
<1>18. generated' = emitted' + dropped' + Waiting(pending')
    <2> DEFINE f == IF fires THEN 1 ELSE 0
               d == IF drops THEN 1 ELSE 0
               e == IF presents THEN 1 ELSE 0
    <2>1. f \in Nat /\ d \in Nat /\ e \in Nat
        OBVIOUS
    <2>2. /\ generated' = generated + f /\ emitted' = emitted + e /\ dropped' = dropped + d
          /\ Waiting(queued) + d = Waiting(pending) + f
          /\ Waiting(pending') + e = Waiting(queued)
        BY <1>5, <1>13, <1>15
    <2> HIDE DEF f, d, e
    <2> QED
        BY <1>16, <1>17, <2>1, <2>2
<1>19. generated' \in Nat /\ emitted' \in Nat /\ dropped' \in Nat
    BY <1>5
<1> QED
    BY <1>2, <1>6, <1>15, <1>18, <1>19

LEMMA TraceInitially == Adc!CosimInit => TraceInv
<1> SUFFICES ASSUME Adc!CosimInit PROVE TraceInv
    OBVIOUS
<1>1. 0 \in 0 .. RATE_THRESHOLD - 1
    BY QuantiserFacts
<1>2. Waiting(Adc!None) = 0
    BY PolarityFacts DEF Waiting
<1>3. /\ rate_accumulator = 0 /\ ref_accumulator = 0
      /\ pending = Adc!None /\ ref_pending = Adc!None
      /\ aer_valid = ref_valid /\ aer_address = ref_address
      /\ generated = 0 /\ emitted = 0 /\ dropped = 0 /\ adc_cycle_index = 0
      /\ rate_reference = [accumulator |-> 0, spike_count |-> 0]
    BY DEF Adc!CosimInit, Adc!Init
<1>4. generated = emitted + dropped + Waiting(pending)
    BY <1>2, <1>3
<1> QED
    BY <1>1, <1>3, <1>4 DEF TraceInv

LEMMA TraceStep ==
    ASSUME SamplesFit, AdcInv, adc_open \in BOOLEAN, TraceInv,
           [Adc!CosimNext]_adcVars
    PROVE  TraceInv'
<1>1. MAX_CYCLES \in Nat /\ adc_cycle_index \in Nat
    BY AdcParameters DEF Adc!TraceAssumption, TraceInv
<1>2. CASE Adc!tracing /\ Adc!Cycle
    <2>1. PICK sample \in Samples, ready \in BOOLEAN :
              /\ Adc!ClockWith(sample, adc_open, ready)
              /\ Adc!ReferenceCycle(sample, adc_open, ready)
              /\ IF adc_open THEN Adc!RateCode(sample) ELSE UNCHANGED rate_reference
        BY <1>2 DEF Adc!Cycle
    <2>2. adc_rst_n /\ adc_cycle_index' = adc_cycle_index + 1
        BY <1>2 DEF Adc!Cycle
    <2>3. /\ rate_accumulator \in 0 .. RATE_THRESHOLD - 1
          /\ rate_accumulator = ref_accumulator /\ pending = ref_pending
          /\ aer_valid = ref_valid /\ aer_address = ref_address
          /\ rate_reference = [accumulator |-> ref_accumulator,
                               spike_count |-> generated]
          /\ generated \in Nat /\ emitted \in Nat /\ dropped \in Nat
          /\ generated = emitted + dropped + Waiting(pending)
        BY <1>2 DEF TraceInv
    <2>4. /\ rate_accumulator' \in 0 .. RATE_THRESHOLD - 1
          /\ rate_accumulator' = ref_accumulator' /\ pending' = ref_pending'
          /\ aer_valid' = ref_valid' /\ aer_address' = ref_address'
          /\ generated' \in Nat /\ emitted' \in Nat /\ dropped' \in Nat
          /\ generated' = emitted' + dropped' + Waiting(pending')
        BY <2>1, <2>2, <2>3, SameQueue
    <2>5. rate_reference' = [accumulator |-> ref_accumulator', spike_count |-> generated']
        <3> DEFINE m == Adc!q8_8_magnitude(sample)
                   fires == Adc!Fires(sample, adc_open)
        <3>1. /\ ref_accumulator' = ref_accumulator + (IF adc_open THEN m ELSE 0)
                                         - (IF fires THEN RATE_THRESHOLD ELSE 0)
              /\ generated' = generated + (IF fires THEN 1 ELSE 0)
            BY <2>1 DEF Adc!ReferenceCycle
        <3>2. fires = (adc_open /\ m > 0 /\ ref_accumulator + m >= RATE_THRESHOLD)
            BY DEF Adc!Fires
        <3>3. m \in Int /\ RATE_THRESHOLD \in Int /\ ref_accumulator \in Int
            BY <2>3, QuantiserFacts
        <3>4. CASE adc_open
            <4> DEFINE charge == ref_accumulator + m
                       spike == charge >= RATE_THRESHOLD /\ m > 0
            <4>1. rate_reference' =
                    [accumulator |-> IF spike THEN charge - RATE_THRESHOLD ELSE charge,
                     spike_count |-> generated + (IF spike THEN 1 ELSE 0)]
                BY <2>1, <2>3, <3>4 DEF Adc!RateCode
            <4>2. spike = fires
                BY <3>2, <3>4
            <4>3. ref_accumulator' = IF spike THEN charge - RATE_THRESHOLD ELSE charge
                <5>1. ref_accumulator' =
                        ref_accumulator + (m - (IF spike THEN RATE_THRESHOLD ELSE 0))
                    BY <3>1, <3>4, <4>2
                <5> HIDE DEF m, fires
                <5> QED
                    BY <3>3, <5>1
            <4> HIDE DEF spike, charge, fires, m
            <4> QED
                BY <3>1, <4>1, <4>2, <4>3
        <3>5. CASE ~adc_open
            <4>1. rate_reference' = rate_reference /\ ~fires
                BY <2>1, <3>2, <3>5
            <4> HIDE DEF m, fires
            <4>2. ref_accumulator' = ref_accumulator /\ generated' = generated
                BY <2>3, <3>1, <3>3, <3>5, <4>1
            <4> QED
                BY <2>3, <4>1, <4>2
        <3> QED
            BY <3>4, <3>5
    <2> QED
        BY <1>1, <2>2, <2>4, <2>5 DEF TraceInv
<1>3. ASSUME UNCHANGED <<adc_cycle_index, rate_accumulator, pending, aer_address, aer_valid,
                         rate_reference, ref_accumulator, ref_pending, ref_valid,
                         ref_address, generated, emitted, dropped>>
      PROVE  TraceInv'
    BY <1>3 DEF TraceInv, Adc!tracing, Waiting
<1>4. CASE Adc!StartDrain \/ Adc!Release \/ UNCHANGED adcVars
    BY <1>3, <1>4
    DEF Adc!StartDrain, Adc!CloseAcquisition, Adc!Release, Adc!ReleaseReset, Adc!regs,
        adcVars, Adc!queueModel, Adc!counts
<1>5. CASE Adc!EndTrace
    <2>1. adc_cycle_index' \in Nat /\ ~Adc!tracing'
        BY <1>1, <1>5 DEF Adc!EndTrace, Adc!tracing
    <2> QED
        BY <2>1 DEF TraceInv
<1>6. CASE Adc!RtlAlone(Adc!Next)
    <2>1. adc_cycle_index' \in Nat /\ ~Adc!tracing'
        BY <1>1, <1>6 DEF Adc!RtlAlone, Adc!tracing
    <2> QED
        BY <2>1 DEF TraceInv
<1> QED
    BY <1>2, <1>4, <1>5, <1>6 DEF Adc!CosimNext

(* On a trace of any length the cycle-level reference is the RTL, the rate *)
(* code counts the same spikes, and a trace is called bit-true exactly     *)
(* when nothing is left waiting.                                           *)
THEOREM QuantiserBitTrue ==
    ASSUME SamplesFit
    PROVE  LaneSpec => []AdcBitTrue
<1>1. LaneInit => TraceInv
    BY TraceInitially DEF LaneInit
<1>2. TraceInv /\ AdcInv /\ adc_open \in BOOLEAN /\ [LaneNext]_laneVars => TraceInv'
    <2>1. [LaneNext]_laneVars => [Adc!CosimNext]_adcVars
        BY DEF LaneNext, OfFabric, OfAdc, OfCdc, OfFifo, laneVars
    <2> QED
        BY <2>1, TraceStep
<1>3. TraceInv /\ AdcInv => AdcBitTrue
    <2> SUFFICES ASSUME TraceInv, AdcInv, Adc!tracing
                 PROVE  /\ Adc!ModelsQueueExactly
                        /\ rate_reference = [accumulator |-> ref_accumulator,
                                             spike_count |-> generated]
                        /\ Adc!bit_true <=> pending = Adc!None
        BY DEF AdcBitTrue, Adc!AdcBitTrue
    <2>1. /\ rate_accumulator = ref_accumulator /\ pending = ref_pending
          /\ aer_valid = ref_valid /\ aer_address = ref_address
          /\ rate_reference = [accumulator |-> ref_accumulator,
                               spike_count |-> generated]
          /\ emitted \in Nat /\ dropped \in Nat
          /\ generated = emitted + dropped + Waiting(pending)
        BY DEF TraceInv
    <2>2. Waiting(pending) \in Nat /\ (pending = Adc!None <=> Waiting(pending) = 0)
        <3>1. pending \in [Adc!Polarities -> Nat]
            BY QuantiserFacts DEF AdcInv, AdcTypes
        <3> QED
            BY <3>1, PolarityFacts
    <2>3. Adc!bit_true <=> Waiting(pending) = 0
        <3>1. Adc!bit_true <=> generated = emitted + dropped
            BY <2>1 DEF Adc!bit_true
        <3> QED
            BY <2>1, <2>2, <3>1
    <2> QED
        BY <2>1, <2>2, <2>3 DEF Adc!ModelsQueueExactly
<1> QED
    BY <1>1, <1>2, <1>3, AdcAlways, PTL DEF LaneSpec

-----------------------------------------------------------------------------
(* The synchroniser: at most one bit moves between two edges, so whatever  *)
(* the first flops resolve to is the word from before or after the move.   *)
CdcInv ==
    /\ async_in \in Cdc!Words
    /\ moving = {} \/ \E b \in WordBits : moving = {b}
    /\ Cdc!CrossesInTwoEdges

LEMMA SampledIsOneOfTwo ==
    ASSUME CdcInv, NEW level \in Cdc!Sampled
    PROVE  /\ level \in {async_in, [b \in WordBits |-> async_in[b] # (b \in moving)]}
           /\ moving = {} => level = async_in
<1>1. /\ level \in [WordBits -> BOOLEAN] /\ async_in \in [WordBits -> BOOLEAN]
      /\ \A b \in WordBits \ moving : level[b] = async_in[b]
    BY DEF Cdc!Sampled, CdcInv, Cdc!Words
<1>2. CASE moving = {}
    BY <1>1, <1>2
<1>3. ASSUME NEW m \in WordBits, moving = {m}
      PROVE  level \in {async_in, [b \in WordBits |-> async_in[b] # (b \in moving)]}
    <2>1. \A b \in WordBits : b # m => level[b] = async_in[b]
        BY <1>1, <1>3
    <2>2. CASE level[m] = async_in[m]
        <3>1. \A b \in WordBits : level[b] = async_in[b]
            BY <2>1, <2>2
        <3> QED
            BY <1>1, <3>1
    <2>3. CASE level[m] # async_in[m]
        <3>1. \A b \in WordBits : level[b] = (async_in[b] # (b \in moving))
            <4> SUFFICES ASSUME NEW b \in WordBits
                         PROVE  level[b] = (async_in[b] # (b \in moving))
                OBVIOUS
            <4>1. level[b] \in BOOLEAN /\ async_in[b] \in BOOLEAN
                BY <1>1
            <4>2. CASE b = m
                BY <1>3, <2>3, <4>1, <4>2
            <4>3. CASE b # m
                BY <1>3, <2>1, <4>1, <4>3
            <4> QED
                BY <4>2, <4>3
        <3> QED
            BY <1>1, <3>1
    <2> QED
        BY <2>2, <2>3
<1> QED
    BY <1>2, <1>3, <1>1 DEF CdcInv

LEMMA CdcInitially == Cdc!CdcInit => CdcInv
BY DEF Cdc!CdcInit, CdcInv, Cdc!CrossesInTwoEdges

LEMMA CdcStep == CdcInv /\ [Cdc!CdcNext]_cdcVars => CdcInv'
<1> SUFFICES ASSUME CdcInv, [Cdc!CdcNext]_cdcVars PROVE CdcInv'
    OBVIOUS
<1>1. CASE Cdc!Move
    <2>1. PICK b \in WordBits : async_in' = [async_in EXCEPT ![b] = ~@] /\ moving' = {b}
        BY <1>1 DEF Cdc!Move
    <2>2. async_in' \in Cdc!Words
        <3>1. async_in \in [WordBits -> BOOLEAN]
            BY DEF CdcInv, Cdc!Words
        <3>2. async_in' = [c \in WordBits |-> IF c = b THEN ~async_in[b] ELSE async_in[c]]
            BY <2>1, <3>1
        <3>3. \A c \in WordBits : (IF c = b THEN ~async_in[b] ELSE async_in[c]) \in BOOLEAN
            <4>1. (~async_in[b]) \in BOOLEAN
                OBVIOUS
            <4> QED
                BY <3>1, <4>1
        <3> QED
            BY <3>2, <3>3 DEF Cdc!Words
    <2> QED
        BY <1>1, <2>1, <2>2 DEF CdcInv, Cdc!CrossesInTwoEdges, Cdc!Move
<1>2. CASE Cdc!ClockEdge
    <2> DEFINE turned == [b \in WordBits |-> async_in[b] # (b \in moving)]
    <2>1. PICK level \in Cdc!Sampled : meta_q' = level /\ sync_out' = meta_q
        BY <1>2 DEF Cdc!ClockEdge, Cdc!Flops
    <2>2. level \in {async_in, turned} /\ (moving = {} => level = async_in)
        BY SampledIsOneOfTwo
    <2> HIDE DEF turned
    <2>3. /\ windows' = <<{async_in, turned}, windows[1]>>
          /\ cdc_reference' = [meta |-> async_in, sync |-> cdc_reference.meta]
          /\ exact' = (exact /\ moving = {})
          /\ moving' = {} /\ async_in' = async_in
        BY <1>2 DEF Cdc!ClockEdge, Cdc!ReferenceCycle, turned
    <2>4. meta_q' \in windows'[1] /\ sync_out' \in windows'[2]
        BY <2>1, <2>2, <2>3 DEF CdcInv, Cdc!CrossesInTwoEdges
    <2>5. exact' => cdc_reference' = [meta |-> meta_q', sync |-> sync_out']
        <3> SUFFICES ASSUME exact'
                     PROVE  cdc_reference' = [meta |-> meta_q', sync |-> sync_out']
            OBVIOUS
        <3>1. exact /\ moving = {}
            BY <2>3
        <3>2. cdc_reference.meta = meta_q
            BY <3>1 DEF CdcInv, Cdc!CrossesInTwoEdges
        <3> QED
            BY <2>1, <2>2, <2>3, <3>1, <3>2
    <2> QED
        BY <2>3, <2>4, <2>5 DEF CdcInv, Cdc!CrossesInTwoEdges
<1>3. CASE Cdc!AssertReset
    BY <1>3 DEF Cdc!AssertReset, Cdc!Cleared, CdcInv, Cdc!CrossesInTwoEdges
<1>4. CASE Cdc!ReleaseReset \/ UNCHANGED cdcVars
    BY <1>4 DEF Cdc!ReleaseReset, cdcVars, CdcInv, Cdc!CrossesInTwoEdges
<1> QED
    BY <1>1, <1>2, <1>3, <1>4 DEF Cdc!CdcNext

(* A word crosses in two edges and whole, for words of any width and       *)
(* whatever the first flops make of a bit caught moving.                   *)
THEOREM WordCrosses == LaneSpec => []CrossesInTwoEdges
<1>1. LaneInit => CdcInv
    BY CdcInitially DEF LaneInit
<1>2. CdcInv /\ [LaneNext]_laneVars => CdcInv'
    <2>1. [LaneNext]_laneVars => [Cdc!CdcNext]_cdcVars
        BY DEF LaneNext, OfFabric, OfAdc, OfCdc, OfFifo, laneVars
    <2> QED
        BY <2>1, CdcStep
<1>3. CdcInv => CrossesInTwoEdges
    BY DEF CdcInv, CrossesInTwoEdges
<1> QED
    BY <1>1, <1>2, <1>3, PTL DEF LaneSpec
=============================================================================
