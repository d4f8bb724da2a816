----------------------------- MODULE LifecycleProof -----------------------------
(***************************************************************************)
(* Proofs about the merger net, for every choice of its four delays, about *)
(* the pulsed shot beside it, for every minimum burn, and about the        *)
(* capacitor bank, for every resistance, range and load.                   *)
(*                                                                         *)
(* The net: in a place the token can still leave, dwell counts exactly the *)
(* ticks for which the pending guard has held in this place, and no other  *)
(* guard has held in the last one.  The shot: the time since the last      *)
(* transition is the time sampled in the present state.  The bank: the     *)
(* fold over the loads of a discharge is a recursion over its rounds, and  *)
(* the books balance after each of them.                                   *)
(***************************************************************************)
EXTENDS MCLifecycle, WellFoundedInduction, TLAPS

Both(t) == IF held_for[t] <= in_place THEN held_for[t] ELSE in_place

Leaving == {onward[place], "abort_unstable"}

DwellInv ==
    /\ place \in Terminal => pending = None
    /\ place \notin Terminal =>
          /\ pending \in Leaving \cup {None}
          /\ \A t \in Leaving : Both(t) = IF pending = t THEN dwell ELSE 0

Inv == TypeOK /\ DwellInv /\ SustainedGuardFires

LEMMA Delays ==
    /\ Longest \in Nat /\ Longest >= 1
    /\ \A t \in Transitions : _delay_ticks[t] \in 1 .. Longest
<1>1. "abort_unstable" \in Transitions
    BY DEF Transitions
<1> QED
    BY <1>1, DelayAssumption

LEMMA OnwardFacts ==
    /\ \A p \in Places \ Terminal :
          onward[p] \in Transitions /\ onward[p] # "abort_unstable"
    /\ \A t \in Transitions : target[t] \in Places /\ t # None
    /\ needs["abort_unstable"] = {"unsafe"}
    BY DEF onward, Places, Terminal, Transitions, target, None, needs

LEMMA UpFacts ==
    ASSUME NEW n \in 0 .. Longest
    PROVE  /\ Up(n) \in 1 .. Longest
           /\ Up(0) = 1
           /\ \A m \in 0 .. Longest : m <= n => Up(m) <= Up(n)
    BY Delays DEF Up

(* The one enabled transition is the one whose guard the observation meets. *)
LEMMA EnabledFacts ==
    ASSUME NEW o \in Observations, place \in Places, place \notin Terminal
    PROVE  \A t \in Leaving : t \in enabled_transition(o) <=> Satisfies(o, t)
    BY OnwardFacts DEF Leaving, enabled_transition, Satisfies

LEMMA EnabledIsLeaving ==
    ASSUME NEW o \in Observations, NEW t \in enabled_transition(o),
           place \in Places
    PROVE  /\ place \notin Terminal /\ t \in Leaving /\ t \in Transitions
           /\ t # None /\ enabled_transition(o) = {t}
<1>1. place \notin Terminal
    BY DEF enabled_transition
<1>2. t \in Leaving /\ enabled_transition(o) = {t}
    BY <1>1 DEF enabled_transition, Leaving
<1>3. t \in Transitions
    BY <1>1, <1>2, OnwardFacts DEF Leaving, Transitions
<1> QED
    BY <1>1, <1>2, <1>3, OnwardFacts

LEMMA InitInv == Init => Inv
<1> SUFFICES ASSUME Init PROVE Inv
    OBVIOUS
<1>1. TypeOK
    <2>1. place \in Places
        BY DEF Init, Places
    <2>2. /\ dwell \in 0 .. Longest /\ in_place \in 0 .. Longest
          /\ tick \in 0 .. 1
        BY Delays DEF Init
    <2>3. held_for \in [Transitions -> 0 .. Longest]
        BY Delays DEF Init
    <2>4. /\ pending \in Transitions \cup {None}
          /\ pending = None <=> dwell = 0
        BY DEF Init
    <2>5. audit \in Seq(Transitions)
        BY DEF Init
    <2>6. stochastic \in BOOLEAN /\ nominal \in BOOLEAN
        BY DEF Init
    <2> QED
        BY <2>1, <2>2, <2>3, <2>4, <2>5, <2>6 DEF TypeOK
<1>2. "approach" \in Places \ Terminal
    BY DEF Places, Terminal
<1>3. \A t \in Leaving : t \in Transitions
    BY <1>2, OnwardFacts DEF Leaving, Init, Transitions
<1>4. \A t \in Leaving : Both(t) = 0 /\ t # None
    BY <1>3, OnwardFacts DEF Init, Both
<1>5. DwellInv
    BY <1>2, <1>4 DEF Init, DwellInv
<1>6. SustainedGuardFires
    BY <1>2, <1>3, Delays DEF Init, SustainedGuardFires, Leaving
<1> QED
    BY <1>1, <1>5, <1>6 DEF Inv

(* What a tick records, and that the pending guard's count is its dwell.   *)
LEMMA RecordFacts ==
    ASSUME Inv, NEW o \in Observations, NEW moved \in BOOLEAN, Record(o, moved)
    PROVE  /\ held_for' \in [Transitions -> 0 .. Longest]
           /\ in_place' \in 0 .. Longest /\ nominal' \in BOOLEAN
           /\ \A t \in Transitions :
                 held_for'[t] = IF Satisfies(o, t) THEN Up(held_for[t]) ELSE 0
           /\ in_place' = IF moved THEN 0 ELSE Up(in_place)
<1>1. /\ held_for \in [Transitions -> 0 .. Longest]
      /\ in_place \in 0 .. Longest
    BY DEF Inv, TypeOK
<1>2. \A t \in Transitions : Up(held_for[t]) \in 0 .. Longest
    BY <1>1, UpFacts, Delays
<1>3. Up(in_place) \in 0 .. Longest /\ 0 \in 0 .. Longest
    BY <1>1, UpFacts, Delays
<1> QED
    BY <1>1, <1>2, <1>3 DEF Record

LEMMA DwellCounts ==
    ASSUME Inv, NEW o \in Observations, NEW t \in enabled_transition(o)
    PROVE  /\ Dwell(t) \in 1 .. Longest
           /\ Dwell(t) = Up(Both(t))
           /\ Dwell(t) <= Up(held_for[t]) /\ Dwell(t) <= Up(in_place)
<1>1. /\ place \in Places /\ dwell \in 0 .. Longest
      /\ held_for \in [Transitions -> 0 .. Longest] /\ in_place \in 0 .. Longest
    BY DEF Inv, TypeOK
<1>2. place \notin Terminal /\ t \in Leaving /\ t \in Transitions
    BY <1>1, EnabledIsLeaving
<1>3. Both(t) = IF pending = t THEN dwell ELSE 0
    BY <1>2 DEF Inv, DwellInv
<1>4. held_for[t] \in 0 .. Longest
    BY <1>1, <1>2
<1>5. Both(t) \in 0 .. Longest /\ Both(t) <= held_for[t] /\ Both(t) <= in_place
    BY <1>1, <1>4 DEF Both
<1>6. Dwell(t) = Up(Both(t))
    BY <1>3, UpFacts, <1>5 DEF Dwell
<1> QED
    BY <1>1, <1>4, <1>5, <1>6, UpFacts

(* A tick that keeps the token and leaves t pending.                       *)
LEMMA KeepStep ==
    ASSUME Inv, NEW o \in Observations, NEW t \in enabled_transition(o),
           pending' = t, dwell' = Dwell(t), UNCHANGED <<place, audit>>,
           Record(o, FALSE), tick' = 1 - tick, UNCHANGED stochastic,
           Dwell(t) < _delay_ticks[t] \/ stochastic
    PROVE  Inv'
<1>1. /\ place \in Places /\ tick \in 0 .. 1 /\ audit \in Seq(Transitions)
      /\ stochastic \in BOOLEAN
      /\ held_for \in [Transitions -> 0 .. Longest] /\ in_place \in 0 .. Longest
    BY DEF Inv, TypeOK
<1>2. /\ place \notin Terminal /\ t \in Leaving /\ t \in Transitions
      /\ t # None /\ enabled_transition(o) = {t}
    BY <1>1, EnabledIsLeaving
<1>3. /\ held_for' \in [Transitions -> 0 .. Longest]
      /\ in_place' \in 0 .. Longest /\ nominal' \in BOOLEAN
      /\ \A u \in Transitions :
            held_for'[u] = IF Satisfies(o, u) THEN Up(held_for[u]) ELSE 0
      /\ in_place' = Up(in_place)
    BY RecordFacts
<1>4. Dwell(t) \in 1 .. Longest /\ Dwell(t) = Up(Both(t))
    BY DwellCounts
<1>5. TypeOK'
    <2>1. dwell' \in 0 .. Longest /\ dwell' # 0 /\ tick' \in 0 .. 1
        BY <1>1, <1>4, Delays
    <2> QED
        BY <1>1, <1>2, <1>3, <2>1 DEF TypeOK
<1>6. Leaving' = Leaving /\ Leaving \subseteq Transitions
    BY <1>1, <1>2, OnwardFacts DEF Leaving, Transitions
<1>7. \A u \in Leaving : Both(u)' = IF u = t THEN Dwell(t) ELSE 0
    <2> SUFFICES ASSUME NEW u \in Leaving
                 PROVE  Both(u)' = IF u = t THEN Dwell(t) ELSE 0
        OBVIOUS
    <2>1. u \in Transitions /\ held_for[u] \in 0 .. Longest
        BY <1>1, <1>6
    <2>2. CASE u = t
        <3>1. held_for'[t] = Up(held_for[t])
            BY <1>1, <1>2, <1>3, EnabledFacts
        <3>2. Both(t)' = Up(Both(t))
            BY <1>1, <1>3, <2>1, <2>2, <3>1, UpFacts, Delays DEF Both, Up
        <3> QED
            BY <1>4, <2>2, <3>2
    <2>3. CASE u # t
        <3>1. held_for'[u] = 0
            BY <1>1, <1>2, <1>3, <2>1, <2>3, EnabledFacts
        <3> QED
            BY <1>3, <2>3, <3>1 DEF Both
    <2> QED
        BY <2>2, <2>3
<1>8. DwellInv'
    BY <1>2, <1>6, <1>7 DEF DwellInv
<1>9. SustainedGuardFires'
    <2> SUFFICES ASSUME ~stochastic, NEW u \in Leaving
                 PROVE  held_for'[u] < _delay_ticks[u] \/ in_place' < _delay_ticks[u]
        BY <1>6 DEF SustainedGuardFires, Leaving
    <2>1. u \in Transitions /\ _delay_ticks[u] \in 1 .. Longest
        BY <1>6, Delays
    <2>2. Both(u)' < _delay_ticks[u]
        BY <1>7, <1>4, <2>1
    <2> QED
        BY <2>1, <2>2, <1>3 DEF Both
<1> QED
    BY <1>5, <1>8, <1>9 DEF Inv

LEMMA StallStep ==
    ASSUME Inv, NEW o \in Observations, Stall(o), tick' = 1 - tick,
           UNCHANGED stochastic
    PROVE  Inv'
<1>1. /\ place \in Places /\ tick \in 0 .. 1 /\ audit \in Seq(Transitions)
      /\ stochastic \in BOOLEAN
      /\ pending' = None /\ dwell' = 0 /\ UNCHANGED <<place, audit>>
    BY DEF Inv, TypeOK, Stall
<1>2. /\ held_for' \in [Transitions -> 0 .. Longest]
      /\ in_place' \in 0 .. Longest /\ nominal' \in BOOLEAN
      /\ \A u \in Transitions :
            held_for'[u] = IF Satisfies(o, u) THEN Up(held_for[u]) ELSE 0
    BY RecordFacts DEF Stall
<1>3. TypeOK'
    BY <1>1, <1>2, Delays DEF TypeOK
<1>4. ASSUME place \notin Terminal, NEW u \in Leaving
      PROVE  u \in Transitions /\ u # None /\ held_for'[u] = 0
    <2>1. u \in Transitions
        BY <1>1, <1>4, OnwardFacts DEF Leaving, Transitions
    <2>2. ~Satisfies(o, u)
        BY <1>1, <1>4, EnabledFacts DEF Stall
    <2> QED
        BY <1>2, <2>1, <2>2, OnwardFacts
<1>5. Leaving' = Leaving
    BY <1>1 DEF Leaving
<1>6. DwellInv'
    BY <1>1, <1>2, <1>4, <1>5 DEF DwellInv, Both
<1>7. SustainedGuardFires'
    BY <1>1, <1>4, Delays DEF SustainedGuardFires, Leaving
<1> QED
    BY <1>3, <1>6, <1>7 DEF Inv

LEMMA FireStep ==
    ASSUME Inv, NEW o \in Observations, Fire(o), tick' = 1 - tick,
           UNCHANGED stochastic
    PROVE  Inv'
<1> PICK t \in enabled_transition(o) :
        /\ place' = target[t] /\ audit' = Append(audit, t)
        /\ pending' = None /\ dwell' = 0
    BY DEF Fire
<1>1. /\ place \in Places /\ tick \in 0 .. 1 /\ audit \in Seq(Transitions)
      /\ stochastic \in BOOLEAN
    BY DEF Inv, TypeOK
<1>2. /\ held_for' \in [Transitions -> 0 .. Longest]
      /\ in_place' = 0 /\ in_place' \in 0 .. Longest /\ nominal' \in BOOLEAN
    BY RecordFacts DEF Fire
<1>3. t \in Transitions
    BY <1>1, EnabledIsLeaving
<1>4. TypeOK'
    BY <1>1, <1>2, <1>3, Delays, OnwardFacts DEF TypeOK
<1>5. \A u \in Transitions : Both(u)' = 0 /\ u # None
    BY <1>2, OnwardFacts DEF Both
<1>6. place' \notin Terminal => Leaving' \subseteq Transitions
    BY <1>4, OnwardFacts DEF Leaving, Transitions, TypeOK
<1>7. DwellInv'
    BY <1>5, <1>6 DEF DwellInv
<1>8. SustainedGuardFires'
    BY <1>2, <1>6, Delays DEF SustainedGuardFires, Leaving
<1> QED
    BY <1>4, <1>7, <1>8 DEF Inv

LEMMA InvInductive == Inv /\ [Next]_vars => Inv'
<1> SUFFICES ASSUME Inv, [Next]_vars PROVE Inv'
    OBVIOUS
<1>1. ASSUME NEW o \in Observations, Wait(o), tick' = 1 - tick, UNCHANGED stochastic
      PROVE  Inv'
    <2> PICK t \in enabled_transition(o) :
            /\ Dwell(t) < _delay_ticks[t]
            /\ pending' = t /\ dwell' = Dwell(t)
        BY <1>1 DEF Wait
    <2> QED
        BY <1>1, KeepStep DEF Wait
<1>2. ASSUME NEW o \in Observations, Hold(o), tick' = 1 - tick, UNCHANGED stochastic
      PROVE  Inv'
    <2> PICK t \in enabled_transition(o) :
            stochastic /\ pending' = t /\ dwell' = Dwell(t)
        BY <1>2 DEF Hold
    <2> QED
        BY <1>2, KeepStep DEF Hold
<1>3. CASE step
    BY <1>1, <1>2, <1>3, StallStep, FireStep DEF step
<1>4. CASE reset
    <2>1. stochastic' \in BOOLEAN
        BY <1>4 DEF reset, Inv, TypeOK
    <2>2. Init'
        BY <1>4, <2>1 DEF reset, Init
    <2> QED
        BY <2>2, InitInv, PTL
<1>5. CASE UNCHANGED vars
    BY <1>5 DEF vars, state, history, Inv, TypeOK, DwellInv, SustainedGuardFires,
        Both, Leaving
<1> QED
    BY <1>3, <1>4, <1>5 DEF Next

(* The inductive invariant holds in every reachable state.                 *)
THEOREM InvHolds == Spec => []Inv
    BY InitInv, InvInductive, PTL DEF Spec

(* The variables keep their types, and a pending transition has a dwell.   *)
THEOREM TypeCorrect == Spec => []TypeOK
<1>1. Inv => TypeOK
    BY DEF Inv
<1> QED
    BY <1>1, InvHolds, PTL

(* A stage is never left before its guard has held for its delay in this   *)
(* place: what dwell counts is bounded by both histories.                  *)
THEOREM NoEarlyExit == Spec => LeavesAfterDelay
<1>1. ASSUME Inv, Next, NEW t \in Transitions, step, audit' = Append(audit, t)
      PROVE  held_for'[t] >= _delay_ticks[t] /\ Up(in_place) >= _delay_ticks[t]
    <2>1. audit \in Seq(Transitions) /\ place \in Places
        BY <1>1 DEF Inv, TypeOK
    <2>2. audit' # audit /\ Len(audit') = Len(audit) + 1
        BY <1>1, <2>1
    <2>3. PICK o \in Observations : Fire(o)
        BY <1>1, <2>2 DEF step, Stall, Wait, Hold
    <2>4. PICK u \in enabled_transition(o) :
            /\ Dwell(u) >= _delay_ticks[u]
            /\ audit' = Append(audit, u)
        BY <2>3 DEF Fire
    <2>5. place \notin Terminal /\ u \in Leaving /\ u \in Transitions
        BY <2>1, EnabledIsLeaving
    <2>6. u = t
        <3>1. Append(audit, u)[Len(audit) + 1] = u
            BY <2>1, <2>5
        <3>2. Append(audit, t)[Len(audit) + 1] = t
            BY <2>1, <1>1
        <3>3. Append(audit, u) = Append(audit, t)
            BY <1>1, <2>4
        <3> QED
            BY <3>1, <3>2, <3>3, Zenon
    <2>7. held_for'[t] = Up(held_for[t])
        <3>1. Satisfies(o, t)
            BY <2>1, <2>5, <2>6, EnabledFacts
        <3> QED
            BY <1>1, <2>3, <3>1, RecordFacts DEF Fire
    <2>8. /\ Dwell(t) \in 1 .. Longest
          /\ Dwell(t) <= Up(held_for[t]) /\ Dwell(t) <= Up(in_place)
        BY <1>1, <2>6, DwellCounts
    <2>9. /\ held_for[t] \in 0 .. Longest /\ in_place \in 0 .. Longest
          /\ _delay_ticks[t] \in 1 .. Longest
        BY <1>1, Delays DEF Inv, TypeOK
    <2>10. Up(held_for[t]) \in 1 .. Longest /\ Up(in_place) \in 1 .. Longest
        BY <2>9, UpFacts
    <2> QED
        BY <2>4, <2>6, <2>7, <2>8, <2>9, <2>10
<1>2. Inv /\ [Next]_vars =>
        [\A t \in Transitions :
            step /\ audit' = Append(audit, t) =>
                held_for'[t] >= _delay_ticks[t] /\ Up(in_place) >= _delay_ticks[t]]_vars
    BY <1>1
<1> QED
    BY <1>2, InvHolds, PTL DEF Spec, LeavesAfterDelay

(* In a deterministic net a guard that has held for its delay has fired;   *)
(* an unsafe observation has aborted in the very tick that showed it.      *)
THEOREM GuardFires == Spec => []SustainedGuardFires
<1>1. Inv => SustainedGuardFires
    BY DEF Inv
<1> QED
    BY <1>1, InvHolds, PTL

(* Where the merge goes from its k-th stage. *)
LEMMA Stages ==
    /\ \A k \in 1 .. 4 : /\ Productive[k] \notin Terminal
                         /\ onward[Productive[k]] # "abort_unstable"
                         /\ target[onward[Productive[k]]] = Productive[k + 1]
                         /\ Productive[k + 1] # "abort"
    /\ Productive[1] = "approach" /\ Productive[5] \in Terminal
    /\ target["abort_unstable"] = "abort"
<1>1. \A k \in 1 .. 4 : k = 1 \/ k = 2 \/ k = 3 \/ k = 4
    OBVIOUS
<1>2. /\ Productive[1] = "approach" /\ Productive[2] = "contact"
      /\ Productive[3] = "reconnection" /\ Productive[4] = "coalescence"
      /\ Productive[5] = "phase_locked"
    BY DEF Productive
<1>3. /\ target[onward["approach"]] = "contact"
      /\ target[onward["contact"]] = "reconnection"
      /\ target[onward["reconnection"]] = "coalescence"
      /\ target[onward["coalescence"]] = "phase_locked"
      /\ target["abort_unstable"] = "abort"
    BY DEF target, onward, Places, Terminal, Transitions
<1>4. \A p \in {"approach", "contact", "reconnection", "coalescence"} :
          p \notin Terminal /\ onward[p] # "abort_unstable" /\ p # "abort"
    BY DEF onward, Places, Terminal
<1>5. 1 + 1 = 2 /\ 2 + 1 = 3 /\ 3 + 1 = 4 /\ 4 + 1 = 5
    OBVIOUS
<1>6. "phase_locked" \in Terminal /\ "phase_locked" # "abort"
    BY DEF Terminal
<1> QED
    BY <1>1, <1>2, <1>3, <1>4, <1>5, <1>6

LEMMA PathFire ==
    ASSUME Inv, AuditIsPath, NEW o \in Observations, Fire(o)
    PROVE  AuditIsPath'
<1> DEFINE n == Len(audit)
<1>1. audit \in Seq(Transitions) /\ place \in Places /\ n \in Nat
    BY DEF Inv, TypeOK
<1> PICK t \in enabled_transition(o) :
        place' = target[t] /\ audit' = Append(audit, t)
    BY DEF Fire
<1>2. place \notin Terminal /\ t \in {onward[place], "abort_unstable"} /\ t \in Transitions
    BY <1>1, EnabledIsLeaving DEF Leaving
<1>3. place # "abort"
    BY <1>2 DEF Terminal
<1>4. /\ n \in 0 .. 4 /\ place = Productive[n + 1]
      /\ \A k \in 1 .. n : audit[k] = onward[Productive[k]]
    BY <1>1, <1>3 DEF AuditIsPath
<1>5. n # 4
    <2>1. n = 4 => place = Productive[5]
        BY <1>4
    <2> HIDE DEF n
    <2> QED
        BY <2>1, <1>2, Stages, Zenon
<1>6. n \in 0 .. 3 /\ n + 1 \in 1 .. 4
    BY <1>4, <1>5
<1>7. /\ Len(audit') = n + 1 /\ audit'[n + 1] = t
      /\ \A k \in 1 .. n : audit'[k] = onward[Productive[k]]
    BY <1>1, <1>2, <1>4
<1>8. CASE t = "abort_unstable"
    <2>1. place' = "abort"
        BY <1>8, Stages
    <2>2. Len(audit') - 1 = n
        BY <1>1, <1>7
    <2> QED
        BY <1>6, <1>7, <1>8, <2>1, <2>2 DEF AuditIsPath
<1>9. CASE t = onward[place]
    <2>1. place' = Productive[n + 2] /\ place' # "abort"
        <3>1. target[onward[Productive[n + 1]]] = Productive[(n + 1) + 1]
            BY <1>6, Stages
        <3>2. Productive[(n + 1) + 1] # "abort" /\ (n + 1) + 1 = n + 2
            BY <1>6, Stages
        <3> QED
            BY <1>4, <1>9, <3>1, <3>2
    <2>2. \A k \in 1 .. n + 1 : audit'[k] = onward[Productive[k]]
        BY <1>4, <1>6, <1>7, <1>9
    <2>3. Len(audit') - 0 = n + 1 /\ (n + 1) + 1 = n + 2 /\ n + 1 \in 0 .. 4
        BY <1>6, <1>7
    <2> QED
        BY <1>7, <2>1, <2>2, <2>3 DEF AuditIsPath
<1> QED
    BY <1>2, <1>8, <1>9

(* The audit log is a path of the net from approach to the token's place:  *)
(* no stage is skipped or repeated and nothing follows a sink.             *)
THEOREM AuditFollowsNet == Spec => []AuditIsPath
<1>1. Init => AuditIsPath
    <2> SUFFICES ASSUME Init PROVE AuditIsPath
        OBVIOUS
    <2>1. audit = <<>> /\ Len(audit) = 0 /\ place = "approach"
        BY DEF Init
    <2> QED
        BY <2>1, Stages DEF AuditIsPath
<1>2. Inv /\ AuditIsPath /\ [Next]_vars => AuditIsPath'
    <2> SUFFICES ASSUME Inv, AuditIsPath, [Next]_vars PROVE AuditIsPath'
        OBVIOUS
    <2>1. ASSUME UNCHANGED <<place, audit>> PROVE AuditIsPath'
        BY <2>1 DEF AuditIsPath
    <2>2. CASE step
        BY <2>1, <2>2, PathFire DEF step, Stall, Wait, Hold
    <2>3. CASE reset
        <3>1. audit' = <<>> /\ Len(audit') = 0 /\ place' = "approach"
            BY <2>3 DEF reset
        <3> QED
            BY <3>1, Stages DEF AuditIsPath
    <2>4. CASE UNCHANGED vars
        BY <2>1, <2>4 DEF vars, state
    <2> QED
        BY <2>2, <2>3, <2>4 DEF Next
<1> QED
    BY <1>1, <1>2, InvHolds, PTL DEF Spec

(* The three together, for all delays.                                     *)
THEOREM OnTime == Spec => LeavesOnTime
    BY NoEarlyExit, GuardFires, AuditFollowsNet, PTL DEF LeavesOnTime

-----------------------------------------------------------------------------
(* The pulsed shot.  The history `stay' counts the sampled time in the     *)
(* present state, the code's `since' the time from the last transition:    *)
(* they are the same time, so the guard of burn may compare the second.    *)

(* The ring read in order, and that the next state is the next one of it.  *)
LEMMA RingOrder ==
    /\ \A n \in 1 .. 8 : /\ Shot!Ring[n] \in Shot!ShotState
                         /\ (Shot!Ring[n] = "idle" <=> n = 1)
                         /\ Shot!NEXT_STATE(Shot!Ring[n]) =
                               IF n = 8 THEN "idle" ELSE Shot!Ring[n + 1]
    /\ Shot!Ring[1] = "idle" /\ "idle" \in Shot!ShotState
<1>1. \A n \in 1 .. 8 : n = 1 \/ n = 2 \/ n = 3 \/ n = 4 \/ n = 5 \/ n = 6
                           \/ n = 7 \/ n = 8
    OBVIOUS
<1>2. /\ Shot!Ring[1] = "idle" /\ Shot!Ring[2] = "ramp_up"
      /\ Shot!Ring[3] = "flat_top" /\ Shot!Ring[4] = "burn"
      /\ Shot!Ring[5] = "expansion" /\ Shot!Ring[6] = "dump"
      /\ Shot!Ring[7] = "recharge" /\ Shot!Ring[8] = "cool_down"
    BY DEF Shot!Ring
<1>3. /\ Shot!NEXT_STATE("idle") = "ramp_up"
      /\ Shot!NEXT_STATE("ramp_up") = "flat_top"
      /\ Shot!NEXT_STATE("flat_top") = "burn"
      /\ Shot!NEXT_STATE("burn") = "expansion"
      /\ Shot!NEXT_STATE("expansion") = "dump"
      /\ Shot!NEXT_STATE("dump") = "recharge"
      /\ Shot!NEXT_STATE("recharge") = "cool_down"
      /\ Shot!NEXT_STATE("cool_down") = "idle"
    BY DEF Shot!NEXT_STATE
<1>4. \A n \in 1 .. 8 : Shot!Ring[n] \in Shot!ShotState
    BY DEF Shot!ShotState
<1>5. \A n \in 1 .. 8 : /\ Shot!Ring[n] = "idle" <=> n = 1
                        /\ Shot!NEXT_STATE(Shot!Ring[n]) =
                              IF n = 8 THEN "idle" ELSE Shot!Ring[n + 1]
    <2> SUFFICES ASSUME NEW n \in 1 .. 8
                 PROVE  /\ Shot!Ring[n] = "idle" <=> n = 1
                        /\ Shot!NEXT_STATE(Shot!Ring[n]) =
                              IF n = 8 THEN "idle" ELSE Shot!Ring[n + 1]
        OBVIOUS
    <2>1. /\ 1 + 1 = 2 /\ 2 + 1 = 3 /\ 3 + 1 = 4 /\ 4 + 1 = 5
          /\ 5 + 1 = 6 /\ 6 + 1 = 7 /\ 7 + 1 = 8
        OBVIOUS
    <2> QED
        BY <1>1, <1>2, <1>3, <2>1
<1>6. Shot!Ring[1] \in Shot!ShotState
    BY <1>4
<1> QED
    BY <1>2, <1>4, <1>5, <1>6

Pair(s) == [from_state |-> s, to_state |-> Shot!NEXT_STATE(s)]

ShotInv ==
    /\ audit_log \in Seq(Shot!TransitionRecord)
    /\ since \in 0 .. MIN_BURN /\ stay = since
    /\ burn = Shot!NotBurnt \/ burn \in [held : 0 .. MIN_BURN, ended : {"by_guard", "by_hand"}]
    /\ Shot!ShotIsLawful

LEMMA ShotInitially == Shot!ShotInit => ShotInv
<1> SUFFICES ASSUME Shot!ShotInit PROVE ShotInv
    OBVIOUS
<1>1. MIN_BURN \in Nat
    BY LifecycleParameters DEF Shot!ShotAssumption
<1>2. Len(audit_log) = 0 /\ shot_state = "idle" /\ audit_log \in Seq(Shot!TransitionRecord)
    BY DEF Shot!ShotInit
<1>3. Shot!AuditIsLap
    BY <1>2 DEF Shot!AuditIsLap
<1>4. Shot!BurnHeldMinimum
    BY DEF Shot!ShotInit, Shot!BurnHeldMinimum, Shot!NotBurnt
<1> QED
    BY <1>1, <1>2, <1>3, <1>4 DEF ShotInv, Shot!ShotIsLawful, Shot!ShotInit

(* A transition extends the lap, or begins the next one.                   *)
LEMMA LapGrows ==
    ASSUME ShotInv,
           shot_state' = Shot!NEXT_STATE(shot_state),
           audit_log' = Append(IF shot_state = "idle" THEN <<>> ELSE audit_log,
                               Pair(shot_state))
    PROVE  Shot!AuditIsLap' /\ audit_log' \in Seq(Shot!TransitionRecord)
<1> DEFINE before == IF shot_state = "idle" THEN <<>> ELSE audit_log
           n == Len(before)
<1>1. audit_log \in Seq(Shot!TransitionRecord) /\ Shot!AuditIsLap
    BY DEF ShotInv, Shot!ShotIsLawful
<1>2. /\ before \in Seq(Shot!TransitionRecord) /\ n \in 0 .. 7
      /\ shot_state = Shot!Ring[n + 1]
      /\ \A k \in 1 .. n : /\ before[k].from_state = Shot!Ring[k]
                           /\ before[k].to_state = Shot!NEXT_STATE(Shot!Ring[k])
    <2>1. CASE shot_state = "idle"
        <3>1. before = <<>> /\ n = 0
            BY <2>1
        <3> QED
            BY <2>1, <3>1, RingOrder
    <2>2. CASE shot_state # "idle"
        <3>1. before = audit_log
            BY <2>2
        <3>2. Len(audit_log) \notin {0, 8} /\ Len(audit_log) \in Nat /\ Len(audit_log) <= 8
            BY <1>1, <2>2 DEF Shot!AuditIsLap
        <3>3. shot_state = Shot!Ring[Len(audit_log) + 1]
            BY <1>1, <3>2 DEF Shot!AuditIsLap
        <3>4. \A k \in 1 .. Len(audit_log) :
                  /\ audit_log[k].from_state = Shot!Ring[k]
                  /\ audit_log[k].to_state = Shot!NEXT_STATE(Shot!Ring[k])
            BY <1>1 DEF Shot!AuditIsLap
        <3>5. Len(audit_log) \in 0 .. 7
            <4>1. \A m \in Nat : m \notin {0, 8} /\ m <= 8 => m \in 0 .. 7
                OBVIOUS
            <4> QED
                BY <3>2, <4>1, Zenon
        <3> QED
            BY <1>1, <3>1, <3>3, <3>4, <3>5
    <2> QED
        BY <2>1, <2>2
<1>3. n + 1 \in 1 .. 8 /\ n \in Nat
    <2>1. n \in 0 .. 7
        BY <1>2
    <2> HIDE DEF n
    <2> QED
        BY <2>1
<1>4. /\ shot_state \in Shot!ShotState
      /\ shot_state' = IF n + 1 = 8 THEN "idle" ELSE Shot!Ring[n + 2]
    BY <1>2, <1>3, RingOrder
<1>5. shot_state' \in Shot!ShotState
    <2>1. n + 1 = 8 \/ n + 2 \in 1 .. 8
        BY <1>3
    <2> HIDE DEF n
    <2>2. "idle" \in Shot!ShotState
        BY RingOrder
    <2>3. n + 2 \in 1 .. 8 => Shot!Ring[n + 2] \in Shot!ShotState
        BY RingOrder
    <2> QED
        BY <1>4, <2>1, <2>2, <2>3
<1>6. Pair(shot_state) \in Shot!TransitionRecord
    BY <1>4, <1>5 DEF Pair, Shot!TransitionRecord
<1> HIDE DEF before
<1>7. /\ audit_log' = Append(before, Pair(shot_state))
      /\ audit_log' \in Seq(Shot!TransitionRecord) /\ Len(audit_log') = n + 1
      /\ audit_log'[n + 1] = Pair(shot_state)
      /\ \A k \in 1 .. n : audit_log'[k] = before[k]
    BY <1>2, <1>6 DEF before
<1>8. \A k \in 1 .. Len(audit_log') :
          /\ audit_log'[k].from_state = Shot!Ring[k]
          /\ audit_log'[k].to_state = Shot!NEXT_STATE(Shot!Ring[k])
    <2> SUFFICES ASSUME NEW k \in 1 .. n + 1
                 PROVE  /\ audit_log'[k].from_state = Shot!Ring[k]
                        /\ audit_log'[k].to_state = Shot!NEXT_STATE(Shot!Ring[k])
        BY <1>7
    <2>1. k \in 1 .. n \/ k = n + 1
        BY <1>2
    <2> QED
        BY <1>2, <1>7, <2>1 DEF Pair
<1>9. shot_state' = IF Len(audit_log') \in {0, 8} THEN "idle"
                    ELSE Shot!Ring[Len(audit_log') + 1]
    <2>1. Len(audit_log') \in {0, 8} <=> n + 1 = 8
        BY <1>3, <1>7
    <2>2. Len(audit_log') + 1 = n + 2
        BY <1>2, <1>7
    <2> QED
        BY <1>4, <2>1, <2>2
<1>10. Len(audit_log') <= 8
    BY <1>3, <1>7
<1> QED
    BY <1>7, <1>8, <1>9, <1>10 DEF Shot!AuditIsLap

LEMMA ShotMoves ==
    ASSUME ShotInv, NEW dt \in Nat, NEW how \in {"by_guard", "by_hand"},
           how = "by_guard" /\ shot_state = "burn" => since + dt >= MIN_BURN,
           Shot!RecordTransition(dt, how)
    PROVE  ShotInv'
<1>1. MIN_BURN \in Nat /\ since \in 0 .. MIN_BURN /\ stay = since
    BY LifecycleParameters DEF Shot!ShotAssumption, ShotInv
<1>2. Shot!AuditIsLap' /\ audit_log' \in Seq(Shot!TransitionRecord)
    BY LapGrows DEF Shot!RecordTransition, Pair
<1>3. /\ Shot!Capped(stay + dt) \in 0 .. MIN_BURN
      /\ stay + dt >= MIN_BURN => Shot!Capped(stay + dt) = MIN_BURN
    <2>1. stay + dt \in Nat
        BY <1>1
    <2> QED
        BY <1>1, <2>1 DEF Shot!Capped
<1>4. /\ burn' = Shot!NotBurnt
            \/ burn' \in [held : 0 .. MIN_BURN, ended : {"by_guard", "by_hand"}]
      /\ Shot!BurnHeldMinimum'
    <2>1. CASE shot_state = "burn"
        <3>1. burn' = [held |-> Shot!Capped(stay + dt), ended |-> how]
            BY <2>1 DEF Shot!RecordTransition, Shot!Note
        <3>2. how = "by_guard" => Shot!Capped(stay + dt) = MIN_BURN
            BY <1>1, <1>3, <2>1
        <3>3. burn'.held = Shot!Capped(stay + dt) /\ burn'.ended = how
            BY <3>1
        <3>4. Shot!BurnHeldMinimum'
            BY <3>2, <3>3 DEF Shot!BurnHeldMinimum
        <3> HIDE DEF Shot!Capped
        <3> QED
            BY <1>3, <3>1, <3>4
    <2>2. CASE shot_state = "idle"
        <3>1. burn' = Shot!NotBurnt
            BY <2>2 DEF Shot!RecordTransition, Shot!Note
        <3> QED
            BY <3>1 DEF Shot!BurnHeldMinimum, Shot!NotBurnt
    <2>3. CASE shot_state # "burn" /\ shot_state # "idle"
        <3>1. burn' = burn
            BY <2>3 DEF Shot!RecordTransition, Shot!Note
        <3> QED
            BY <3>1 DEF ShotInv, Shot!ShotIsLawful, Shot!BurnHeldMinimum
    <2> QED
        BY <2>1, <2>2, <2>3
<1>5. since' = 0 /\ stay' = 0 /\ 0 \in 0 .. MIN_BURN
    BY <1>1 DEF Shot!RecordTransition, Shot!Note
<1> QED
    BY <1>2, <1>4, <1>5 DEF ShotInv, Shot!ShotIsLawful

LEMMA ShotStep == ShotInv /\ [Shot!ShotNext]_shotVars => ShotInv'
<1> SUFFICES ASSUME ShotInv, [Shot!ShotNext]_shotVars PROVE ShotInv'
    OBVIOUS
<1>1. MIN_BURN \in Nat /\ MAX_ELAPSE \in Nat
    BY LifecycleParameters DEF Shot!ShotAssumption
<1>2. since \in 0 .. MIN_BURN /\ stay = since
    BY DEF ShotInv
<1>3. CASE Shot!step
    <2>1. PICK dt \in 0 .. MAX_ELAPSE, passed \in SUBSET Shot!GuardTests[shot_state] :
              Shot!StepWith(dt, passed)
        BY <1>3 DEF Shot!step
    <2>2. dt \in Nat
        BY <1>1
    <2>3. CASE Shot!Guard(passed, since + dt)
        <3>1. Shot!RecordTransition(dt, "by_guard")
            BY <2>1, <2>3 DEF Shot!StepWith
        <3> QED
            BY <2>2, <2>3, <3>1, ShotMoves DEF Shot!Guard
    <2>4. CASE ~Shot!Guard(passed, since + dt)
        <3>1. /\ since' = Shot!Capped(since + dt) /\ stay' = Shot!Capped(stay + dt)
              /\ UNCHANGED <<shot_state, audit_log, burn>>
            BY <2>1, <2>4 DEF Shot!StepWith, Shot!Dwell
        <3>2. since' \in 0 .. MIN_BURN /\ stay' = since'
            BY <1>1, <1>2, <2>2, <3>1 DEF Shot!Capped
        <3> QED
            BY <3>1, <3>2
            DEF ShotInv, Shot!ShotIsLawful, Shot!AuditIsLap, Shot!BurnHeldMinimum
    <2> QED
        BY <2>3, <2>4
<1>4. CASE Shot!transition_to
    <2>1. PICK dt \in 0 .. MAX_ELAPSE : Shot!RecordTransition(dt, "by_hand")
        BY <1>4 DEF Shot!transition_to
    <2>2. dt \in Nat
        BY <1>1
    <2> QED
        BY <2>1, <2>2, ShotMoves
<1>5. CASE Shot!reset
    <2>1. Shot!ShotInit'
        BY <1>5 DEF Shot!reset, Shot!ShotInit
    <2> QED
        BY <2>1, ShotInitially, PTL
<1>6. CASE UNCHANGED shotVars
    BY <1>6
    DEF shotVars, ShotInv, Shot!ShotIsLawful, Shot!AuditIsLap, Shot!BurnHeldMinimum
<1> QED
    BY <1>3, <1>4, <1>5, <1>6 DEF Shot!ShotNext

(* The audit log is one lap of the ring whatever mixture of samples,       *)
(* manual moves and resets came before, and a burn that no operator cut    *)
(* short lasted its minimum, for every minimum and every sampling.         *)
THEOREM LawfulShot == LifecycleSpec => []ShotIsLawful
<1>1. LifecycleInit => ShotInv
    BY ShotInitially DEF LifecycleInit
<1>2. ShotInv /\ [LifecycleNext]_lifecycleVars => ShotInv'
    <2>1. [LifecycleNext]_lifecycleVars => [Shot!ShotNext]_shotVars
        BY DEF LifecycleNext, OfMerger, OfShot, OfBank, lifecycleVars
    <2> QED
        BY <2>1, ShotStep
<1>3. ShotInv => ShotIsLawful
    BY DEF ShotInv, ShotIsLawful
<1> QED
    BY <1>1, <1>2, <1>3, PTL DEF LifecycleSpec

(***************************************************************************)
(* The capacitor bank.  A discharge is a fold over its load samples, so    *)
(* its books are a claim about every prefix of them.  The least natural    *)
(* number outside a set of natural numbers serves for induction.           *)
(***************************************************************************)
LEMMA LeastNatural ==
    ASSUME NEW S \in SUBSET Nat, S # {}
    PROVE  \E n \in S : \A m \in S : ~ (m < n)
<1> DEFINE Less == OpToRel(<, Nat)
<1>1. IsWellFoundedOn(Less, Nat)
    BY NatLessThanWellFounded
<1>2. \A m, n \in Nat : <<m, n>> \in Less <=> m < n
    BY DEF OpToRel
<1> HIDE DEF Less
<1>3. \E n \in S : \A m \in S : ~ (<<m, n>> \in Less)
    BY <1>1, WFMin
<1> QED
    BY <1>2, <1>3

LEMMA NaturalSet ==
    ASSUME NEW S, 0 \in S, \A n \in Nat : n \in S => n + 1 \in S
    PROVE  \A n \in Nat : n \in S
<1> DEFINE Rest == {n \in Nat : n \notin S}
<1> SUFFICES ASSUME Rest # {} PROVE FALSE
    OBVIOUS
<1>1. PICK n \in Rest : \A m \in Rest : ~ (m < n)
    BY LeastNatural
<1>2. n # 0 /\ n - 1 \in Nat /\ n - 1 < n
    BY <1>1
<1>3. n - 1 \in S
    BY <1>1, <1>2
<1> QED
    BY <1>1, <1>2, <1>3

LEMMA LastIsMax ==
    ASSUME NEW n \in Nat, NEW s \in SUBSET (1 .. n), n \in s
    PROVE  Bank!Max(s) = n
<1>1. n \in s /\ \A y \in s : n >= y
    OBVIOUS
<1>2. \A x \in s : (\A y \in s : x >= y) => x = n
    OBVIOUS
<1> QED
    BY <1>1, <1>2 DEF Bank!Max

(* FoldLeft recurses over the sets of positions, the largest first: the    *)
(* equation it stands for on the positions up to n has a solution.         *)
SolvesFold(f, start, loads, n) ==
    f = [s \in SUBSET (1 .. n) |->
            IF s = {} THEN start
            ELSE Bank!Round(f[s \ {Bank!Max(s)}], loads[Bank!Max(s)])]

LEMMA FoldGrows ==
    ASSUME NEW start, NEW loads, NEW n \in Nat, NEW f, SolvesFold(f, start, loads, n)
    PROVE  \E h : SolvesFold(h, start, loads, n + 1)
<1> DEFINE h == [s \in SUBSET (1 .. n + 1) |->
                    IF n + 1 \in s THEN Bank!Round(f[s \ {n + 1}], loads[n + 1])
                    ELSE f[s]]
           entry(s) == IF s = {} THEN start
                      ELSE Bank!Round(h[s \ {Bank!Max(s)}], loads[Bank!Max(s)])
<1>1. \A s \in SUBSET (1 .. n) :
         f[s] = IF s = {} THEN start
                ELSE Bank!Round(f[s \ {Bank!Max(s)}], loads[Bank!Max(s)])
    BY DEF SolvesFold
<1>2. \A s \in SUBSET (1 .. n) : s \in SUBSET (1 .. n + 1) /\ n + 1 \notin s
    OBVIOUS
<1>3. \A s \in SUBSET (1 .. n) : h[s] = f[s]
    BY <1>2
<1>4. \A s \in SUBSET (1 .. n + 1) :
         n + 1 \in s => h[s] = Bank!Round(f[s \ {n + 1}], loads[n + 1])
    OBVIOUS
<1>5. h = [s \in SUBSET (1 .. n + 1) |-> h[s]]
    OBVIOUS
<1> HIDE DEF h
<1>6. ASSUME NEW s \in SUBSET (1 .. n + 1) PROVE h[s] = entry(s)
    <2>1. CASE n + 1 \in s
        <3>1. Bank!Max(s) = n + 1
            BY <2>1, LastIsMax
        <3>2. s \ {n + 1} \in SUBSET (1 .. n) /\ s # {}
            BY <2>1
        <3>3. h[s \ {n + 1}] = f[s \ {n + 1}]
            BY <1>3, <3>2
        <3> QED
            BY <1>4, <2>1, <3>1, <3>2, <3>3
    <2>2. CASE n + 1 \notin s
        <3>1. s \in SUBSET (1 .. n)
            BY <2>2
        <3>2. \A x : s \ {x} \in SUBSET (1 .. n)
            BY <3>1
        <3>3. \A x : h[s \ {x}] = f[s \ {x}]
            BY <1>3, <3>2
        <3> QED
            BY <1>1, <1>3, <3>1, <3>3
    <2> QED
        BY <2>1, <2>2
<1>7. h = [s \in SUBSET (1 .. n + 1) |-> entry(s)]
    BY <1>5, <1>6
<1> QED
    BY <1>7 DEF SolvesFold

LEMMA FoldHasSolution ==
    ASSUME NEW start, NEW loads, NEW n \in Nat
    PROVE  \E f : SolvesFold(f, start, loads, n)
<1> DEFINE S == {k \in Nat : \E f : SolvesFold(f, start, loads, k)}
<1>1. 0 \in S
    <2> DEFINE f == [s \in SUBSET (1 .. 0) |-> start]
    <2>1. \A s \in SUBSET (1 .. 0) : s = {}
        OBVIOUS
    <2>2. SolvesFold(f, start, loads, 0)
        BY <2>1 DEF SolvesFold
    <2> QED
        BY <2>2
<1>2. \A k \in Nat : k \in S => k + 1 \in S
    BY FoldGrows
<1> HIDE DEF S
<1>3. n \in S
    BY <1>1, <1>2, NaturalSet
<1> QED
    BY <1>3 DEF S

(* So a discharge takes its rounds one after the other.                    *)
Runs(g, start, loads, n) ==
    /\ g[0] = start /\ g[n] = Bank!Rounds(start, loads)
    /\ \A k \in 1 .. n : g[k] = Bank!Round(g[k - 1], loads[k])

LEMMA RoundAfterRound ==
    ASSUME NEW start, NEW n \in Nat, NEW loads, DOMAIN loads = 1 .. n
    PROVE  \E g : Runs(g, start, loads, n)
<1> DEFINE it == CHOOSE f : SolvesFold(f, start, loads, n)
           g == [k \in 0 .. n |-> it[1 .. k]]
<1>1. Bank!Rounds(start, loads) = it[1 .. n]
    BY DEF Bank!Rounds, Bank!FoldLeft, Bank!MapThenFoldSet, SolvesFold
<1>2. SolvesFold(it, start, loads, n)
    BY FoldHasSolution
<1> HIDE DEF it
<1>3. \A s \in SUBSET (1 .. n) :
         it[s] = IF s = {} THEN start
                 ELSE Bank!Round(it[s \ {Bank!Max(s)}], loads[Bank!Max(s)])
    BY <1>2 DEF SolvesFold
<1>4. g[0] = start
    <2>1. 1 .. 0 \in SUBSET (1 .. n) /\ 1 .. 0 = {} /\ g[0] = it[1 .. 0]
        OBVIOUS
    <2> QED
        BY <1>3, <2>1
<1>5. ASSUME NEW k \in 1 .. n PROVE g[k] = Bank!Round(g[k - 1], loads[k])
    <2>1. 1 .. k \in SUBSET (1 .. n) /\ 1 .. k # {} /\ k \in 1 .. k /\ k \in Nat
        OBVIOUS
    <2>2. Bank!Max(1 .. k) = k
        BY <2>1, LastIsMax
    <2>3. (1 .. k) \ {k} = 1 .. (k - 1) /\ k - 1 \in 0 .. n
        OBVIOUS
    <2>4. g[k] = it[1 .. k] /\ g[k - 1] = it[1 .. (k - 1)]
        BY <2>1, <2>3
    <2> HIDE DEF g
    <2>5. it[1 .. k] = Bank!Round(it[1 .. (k - 1)], loads[k])
        BY <1>3, <2>1, <2>2, <2>3
    <2> QED
        BY <2>4, <2>5
<1>6. g[n] = Bank!Rounds(start, loads)
    BY <1>1
<1> HIDE DEF g
<1> QED
    BY <1>4, <1>5, <1>6 DEF Runs

(* The solved step satisfies both equations of the circuit, which take     *)
(* from the store what the load and the resistance draw.                   *)
LEMMA CircuitBalances ==
    ASSUME NEW a \in Int, NEW b \in Int, NEW c \in Int, NEW d \in Int,
           NEW r \in Int, NEW load \in Int,
           a - c = b + d + 2 * load,
           d - b = a + c - r * (b + d)
    PROVE  (a * a + b * b) - (c * c + d * d)
               = 2 * load * (a + c) + r * (b + d) * (b + d)
<1> DEFINE p == a + c
           q == b + d
<1>1. p \in Int /\ q \in Int /\ r * q \in Int /\ load * p \in Int
    OBVIOUS
<1>2. a * a - c * c = (a - c) * p
    OBVIOUS
<1>3. d * d - b * b = (d - b) * q
    OBVIOUS
<1>4. (a - c) * p = q * p + 2 * (load * p)
    <2>1. a - c = q + 2 * load
        OBVIOUS
    <2> HIDE DEF p, q
    <2>2. (q + 2 * load) * p = q * p + 2 * (load * p)
        BY <1>1
    <2> QED
        BY <2>1, <2>2
<1>5. (d - b) * q = p * q - r * q * q
    <2>1. d - b = p - r * q
        OBVIOUS
    <2> HIDE DEF p, q
    <2>2. (p - r * q) * q = p * q - r * q * q
        BY <1>1
    <2> QED
        BY <2>1, <2>2
<1>6. 2 * load * p = 2 * (load * p) /\ q * p = p * q
      /\ r * q * q \in Int /\ p * q \in Int
    <2> HIDE DEF p, q
    <2> QED
        BY <1>1
<1>7. a * a \in Int /\ b * b \in Int /\ c * c \in Int /\ d * d \in Int
    OBVIOUS
<1>8. (a * a + b * b) - (c * c + d * d) = 2 * load * p + r * q * q
    <2> HIDE DEF p, q
    <2> QED
        BY <1>1, <1>2, <1>3, <1>4, <1>5, <1>6, <1>7
<1> QED
    BY <1>8

LEMMA StepBalances ==
    ASSUME R \in Nat, NEW s, s.v \in Int, s.i \in Int, NEW load \in Int, Bank!OnGrid(s, load)
    PROVE  LET next == Bank!Solve(s, load)
           IN  /\ next.v \in Int /\ next.i \in Int
               /\ Bank!Drawn(s, next, load) \in Int
               /\ Bank!Energy(s) - Bank!Energy(next) = Bank!Drawn(s, next, load)
<1> DEFINE a == s.v
           b == s.i
           next == Bank!Solve(s, load)
           c == next.v
           d == next.i
           D == 2 + R
           rv == Bank!RightV(s, load)
           ri == Bank!RightI(s)
           x == (1 + R) * rv - ri
           y == rv + ri
<1>1. R \in Int /\ D \in Int /\ D > 0 /\ a \in Int /\ b \in Int
    OBVIOUS
<1>2. rv = a - b - 2 * load /\ rv \in Int
    BY DEF Bank!RightV
<1>3. ri = a + (1 - R) * b /\ ri \in Int
    BY DEF Bank!RightI
<1>4. x \in Int /\ y \in Int
    BY <1>2, <1>3
<1>5. x % D = 0 /\ y % D = 0
    BY DEF Bank!OnGrid, Bank!Determinant
<1>6. c = x \div D /\ d = y \div D
    BY DEF Bank!Solve, Bank!Determinant
<1> HIDE DEF rv, ri, next
<1>7. ASSUME NEW n \in Int, NEW m \in Int, m > 0, n % m = 0
      PROVE  n \div m \in Int /\ m * (n \div m) = n
    BY <1>7
<1> HIDE DEF x, y, a, b, c, d, D
<1>8. c \in Int /\ d \in Int /\ D * c = x /\ D * d = y
    BY <1>1, <1>4, <1>5, <1>6, <1>7
<1>9. ASSUME NEW n \in Int, NEW m \in Int, D * n = D * m PROVE n = m
    <2>1. D * (n - m) = 0
        BY <1>1, <1>9
    <2> QED
        BY <2>1, <1>1
<1>10. c + d = rv
    <2>1. D * (c + d) = x + y
        BY <1>1, <1>4, <1>8
    <2>2. x + y = D * rv
        BY <1>1, <1>2, <1>3 DEF x, y, D
    <2> QED
        BY <1>2, <1>8, <1>9, <2>1, <2>2
<1>11. (1 + R) * d - c = ri
    <2>1. (1 + R) * d - c \in Int
        BY <1>1, <1>8
    <2>2. D * ((1 + R) * d - c) = (1 + R) * (D * d) - D * c
        BY <1>1, <1>8
    <2>3. D * ((1 + R) * d - c) = (1 + R) * y - x
        BY <1>8, <2>2
    <2>4. (1 + R) * y - x = D * ri
        BY <1>1, <1>2, <1>3 DEF x, y, D
    <2> QED
        BY <1>3, <1>9, <2>1, <2>3, <2>4
<1>12. a - c = b + d + 2 * load
    BY <1>1, <1>2, <1>8, <1>10
<1>13. d - b = a + c - R * (b + d)
    <2>1. (1 - R) * b = b - R * b /\ (1 + R) * d = d + R * d
          /\ R * (b + d) = R * b + R * d
          /\ R * b \in Int /\ R * d \in Int /\ R * (b + d) \in Int
        BY <1>1, <1>8
    <2>2. (d + R * d) - c = ri
        BY <1>11, <2>1
    <2>4. ri = a + (b - R * b)
        BY <1>3, <2>1
    <2> QED
        BY <1>1, <1>8, <2>1, <2>2, <2>4
<1>14. (a * a + b * b) - (c * c + d * d) = 2 * load * (a + c) + R * (b + d) * (b + d)
    BY <1>1, <1>8, <1>12, <1>13, CircuitBalances
<1>15. Bank!Drawn(s, next, load) = 2 * load * (a + c) + R * (b + d) * (b + d)
    BY DEF Bank!Drawn, a, b, c, d
<1>16. Bank!Energy(s) = a * a + b * b /\ Bank!Energy(next) = c * c + d * d
    BY DEF Bank!Energy, a, b, c, d
<1>17. 2 * load * (a + c) + R * (b + d) * (b + d) \in Int
    BY <1>1, <1>8
<1> QED
    BY <1>8, <1>14, <1>15, <1>16, <1>17 DEF next, c, d

BankRounds == [v : Int, i : Int, how : {"ran", "raised", "off_grid"},
               drawn : Int, peak_v : Int, peak_i : Int]

(* After some rounds from a start: what was drawn is what the store lost,  *)
(* and the peaks have only grown.                                          *)
BooksOf(start, s) ==
    /\ s \in BankRounds
    /\ s.drawn = Bank!Energy(start) - Bank!Energy(s)
    /\ start.peak_v <= s.peak_v /\ start.peak_i <= s.peak_i

LEMMA RoundKeepsBooks ==
    ASSUME R \in Nat, NEW start \in BankRounds, NEW s, BooksOf(start, s), NEW load \in Int
    PROVE  BooksOf(start, Bank!Round(s, load))
<1> DEFINE next == Bank!Solve(s, load)
<1>1. s \in BankRounds /\ s.v \in Int /\ s.i \in Int /\ s.drawn \in Int
      /\ s.peak_v \in Int /\ s.peak_i \in Int
    BY DEF BooksOf, BankRounds
<1>2. CASE s.how # "ran"
    BY <1>2 DEF Bank!Round
<1>3. CASE s.how = "ran" /\ (~Bank!OnGrid(s, load) \/ ~Bank!Finite(next))
    <2>1. PICK how \in {"raised", "off_grid"} : Bank!Round(s, load) = [s EXCEPT !.how = how]
        BY <1>3 DEF Bank!Round
    <2> DEFINE t == [s EXCEPT !.how = how]
    <2>2. t \in BankRounds /\ t.v = s.v /\ t.i = s.i /\ t.drawn = s.drawn
          /\ t.peak_v = s.peak_v /\ t.peak_i = s.peak_i
        BY <1>1 DEF BankRounds
    <2> HIDE DEF t
    <2>3. BooksOf(start, t)
        BY <2>2 DEF BooksOf, Bank!Energy
    <2> QED
        BY <2>1, <2>3 DEF t
<1>4. CASE s.how = "ran" /\ Bank!OnGrid(s, load) /\ Bank!Finite(next)
    <2> DEFINE t == [v |-> next.v, i |-> next.i, how |-> "ran",
                     drawn |-> s.drawn + Bank!Drawn(s, next, load),
                     peak_v |-> Bank!Larger(s.peak_v, Bank!Magnitude(next.v)),
                     peak_i |-> Bank!Larger(s.peak_i, Bank!Magnitude(next.i))]
    <2>1. Bank!Round(s, load) = t
        BY <1>4 DEF Bank!Round
    <2>2. /\ next.v \in Int /\ next.i \in Int
          /\ Bank!Drawn(s, next, load) \in Int
          /\ Bank!Energy(s) - Bank!Energy(next) = Bank!Drawn(s, next, load)
        BY <1>1, <1>4, StepBalances
    <2> HIDE DEF next
    <2>3. \A x \in Int, y \in Int : Bank!Larger(x, Bank!Magnitude(y)) \in Int
                                    /\ x <= Bank!Larger(x, Bank!Magnitude(y))
        BY DEF Bank!Larger, Bank!Magnitude
    <2>4. t \in BankRounds /\ s.peak_v <= t.peak_v /\ s.peak_i <= t.peak_i
        <3>1. /\ t.peak_v = Bank!Larger(s.peak_v, Bank!Magnitude(next.v))
              /\ t.peak_i = Bank!Larger(s.peak_i, Bank!Magnitude(next.i))
            OBVIOUS
        <3>2. t.peak_v \in Int /\ s.peak_v <= t.peak_v
            BY <1>1, <2>2, <2>3, <3>1
        <3>3. t.peak_i \in Int /\ s.peak_i <= t.peak_i
            BY <1>1, <2>2, <2>3, <3>1
        <3>4. s.drawn + Bank!Drawn(s, next, load) \in Int
            BY <1>1, <2>2
        <3>5. ASSUME NEW drawn \in Int, NEW x \in Int, NEW y \in Int
              PROVE  [v |-> next.v, i |-> next.i, how |-> "ran", drawn |-> drawn,
                      peak_v |-> x, peak_i |-> y] \in BankRounds
            BY <2>2 DEF BankRounds
        <3>6. t = [v |-> next.v, i |-> next.i, how |-> "ran",
                   drawn |-> s.drawn + Bank!Drawn(s, next, load),
                   peak_v |-> t.peak_v, peak_i |-> t.peak_i]
            BY <3>1
        <3> HIDE DEF t
        <3> QED
            BY <3>2, <3>3, <3>4, <3>5, <3>6
    <2>5. t.drawn = s.drawn + Bank!Drawn(s, next, load)
          /\ t.v = next.v /\ t.i = next.i
        OBVIOUS
    <2> HIDE DEF t
    <2>6. Bank!Energy(t) = Bank!Energy(next)
        BY <2>5 DEF Bank!Energy
    <2>7. Bank!Energy(start) \in Int /\ Bank!Energy(s) \in Int /\ Bank!Energy(next) \in Int
        BY <1>1, <2>2 DEF Bank!Energy, BankRounds
    <2>8. t.drawn = Bank!Energy(start) - Bank!Energy(t)
        BY <2>2, <2>5, <2>6, <2>7 DEF BooksOf
    <2>9. start.peak_v <= t.peak_v /\ start.peak_i <= t.peak_i
        <3>1. start.peak_v \in Int /\ start.peak_i \in Int
              /\ t.peak_v \in Int /\ t.peak_i \in Int
            BY <2>4 DEF BankRounds
        <3> QED
            BY <1>1, <2>4, <3>1 DEF BooksOf
    <2>10. BooksOf(start, t)
        BY <2>4, <2>8, <2>9 DEF BooksOf
    <2> QED
        BY <2>1, <2>10
<1> QED
    BY <1>2, <1>3, <1>4

LEMMA RoundsKeepBooks ==
    ASSUME R \in Nat, NEW start \in BankRounds, start.drawn = 0,
           NEW n \in Nat, NEW loads, DOMAIN loads = 1 .. n,
           \A k \in 1 .. n : loads[k] \in Int
    PROVE  BooksOf(start, Bank!Rounds(start, loads))
<1>5. PICK g : Runs(g, start, loads, n)
    BY RoundAfterRound
<1>1. /\ g[0] = start /\ g[n] = Bank!Rounds(start, loads)
      /\ \A k \in 1 .. n : g[k] = Bank!Round(g[k - 1], loads[k])
    BY <1>5 DEF Runs
<1> DEFINE S == {k \in Nat : k <= n => BooksOf(start, g[k])}
<1>2. 0 \in S
    <2>1. Bank!Energy(start) \in Int /\ start.peak_v \in Int /\ start.peak_i \in Int
        BY DEF Bank!Energy, BankRounds
    <2>2. BooksOf(start, start)
        BY <2>1 DEF BooksOf
    <2> QED
        BY <1>1, <2>2
<1>3. ASSUME NEW k \in Nat, k \in S PROVE k + 1 \in S
    <2> SUFFICES ASSUME k + 1 <= n PROVE BooksOf(start, g[k + 1])
        OBVIOUS
    <2>1. BooksOf(start, g[k]) /\ k + 1 \in 1 .. n /\ (k + 1) - 1 = k
        BY <1>3
    <2>2. g[k + 1] = Bank!Round(g[k], loads[k + 1])
        BY <1>1, <2>1
    <2>3. loads[k + 1] \in Int
        BY <2>1
    <2> QED
        BY <2>1, <2>2, <2>3, RoundKeepsBooks
<1> HIDE DEF S
<1>4. n \in S
    BY <1>2, <1>3, NaturalSet
<1> QED
    BY <1>1, <1>4 DEF S

-----------------------------------------------------------------------------
Reports == [delivered : Int, drawn : Int, peak_v : Int, peak_i : Int]

BankInv ==
    /\ R \in Nat /\ v \in Int /\ i \in Int /\ report \in Reports
    /\ Bank!DischargeAccounts

LEMMA BankConstants ==
    /\ \A r \in R_VALUES : r \in Nat
    /\ VOLTAGE_MAX \in Nat /\ POWER \in Nat /\ MAX_PEAK \in Nat /\ MAX_STEPS \in Nat
    BY LifecycleParameters DEF Bank!BankAssumption

LEMMA NothingReported ==
    ASSUME report = Bank!NoReport PROVE report \in Reports /\ Bank!DischargeAccounts
    BY DEF Bank!NoReport, Reports, Bank!DischargeAccounts

LEMMA BankInitially == Bank!BankInit => BankInv
    BY BankConstants, NothingReported DEF Bank!BankInit, BankInv

LEMMA SquareGrows ==
    ASSUME NEW x \in Int, NEW y \in Int, Bank!Magnitude(x) <= y
    PROVE  x * x <= y * y
<1>1. Bank!Magnitude(x) \in Nat /\ Bank!Magnitude(x) * Bank!Magnitude(x) = x * x
    BY DEF Bank!Magnitude
<1>2. ASSUME NEW m \in Nat, m <= y PROVE m * m <= y * y
    BY <1>2
<1> QED
    BY <1>1, <1>2

(* The report of a discharge that ran to its end.                          *)
LEMMA DischargeReports ==
    ASSUME R \in Nat, v \in Int, i \in Int, NEW start,
           start = [v |-> v, i |-> i, how |-> "ran", drawn |-> 0,
                    peak_v |-> Bank!Magnitude(v), peak_i |-> Bank!Magnitude(i)],
           NEW end, BooksOf(start, end),
           report' = [delivered |-> Bank!Energy(start) - Bank!Energy(end),
                      drawn |-> end.drawn, peak_v |-> end.peak_v, peak_i |-> end.peak_i]
    PROVE  report' \in Reports /\ (Bank!DischargeAccounts)'
<1>1. end.v \in Int /\ end.i \in Int /\ end.peak_v \in Int /\ end.peak_i \in Int
      /\ end.drawn \in Int
    BY DEF BooksOf, BankRounds
<1>2. Bank!Energy(start) = v * v + i * i /\ Bank!Energy(end) = end.v * end.v + end.i * end.i
    BY DEF Bank!Energy
<1>3. end.drawn = Bank!Energy(start) - Bank!Energy(end)
    BY DEF BooksOf
<1>4. end.v * end.v >= 0 /\ end.i * end.i >= 0
      /\ end.v * end.v \in Int /\ end.i * end.i \in Int
    BY <1>1
<1>5. v * v <= end.peak_v * end.peak_v
    BY <1>1, SquareGrows DEF BooksOf
<1>6. i * i <= end.peak_i * end.peak_i
    BY <1>1, SquareGrows DEF BooksOf
<1>7. v * v \in Int /\ i * i \in Int /\ end.peak_v * end.peak_v \in Int
      /\ end.peak_i * end.peak_i \in Int
    BY <1>1
<1>8. Bank!Energy(start) - Bank!Energy(end)
          <= end.peak_v * end.peak_v + end.peak_i * end.peak_i
    BY <1>2, <1>4, <1>5, <1>6, <1>7
<1>9. Bank!Energy(start) - Bank!Energy(end) \in Int
    BY <1>1, <1>3
<1>10. report'.delivered = end.drawn /\ report'.drawn = end.drawn
       /\ report'.peak_v = end.peak_v /\ report'.peak_i = end.peak_i
    BY <1>3
<1>11. report' \in Reports
    BY <1>1, <1>9 DEF Reports
<1> QED
    BY <1>3, <1>8, <1>10, <1>11 DEF Bank!DischargeAccounts

LEMMA DischargeKeeps == BankInv /\ Bank!discharge => BankInv'
<1> SUFFICES ASSUME BankInv, Bank!discharge PROVE BankInv'
    OBVIOUS
<1>1. R \in Nat /\ v \in Int /\ i \in Int /\ MAX_PEAK \in Nat /\ MAX_STEPS \in Nat
    BY BankConstants DEF BankInv
<1> DEFINE start == [v |-> v, i |-> i, how |-> "ran", drawn |-> 0,
                     peak_v |-> Bank!Magnitude(v), peak_i |-> Bank!Magnitude(i)]
<1> DEFINE Results(loads) ==
        LET end == Bank!Rounds(start, loads)
        IN  /\ v' = end.v /\ i' = end.i
            /\ report' = IF end.how = "raised" THEN Bank!NoReport
                         ELSE [delivered |-> Bank!Energy(start) - Bank!Energy(end),
                               drawn |-> end.drawn,
                               peak_v |-> end.peak_v, peak_i |-> end.peak_i]
<1>10. PICK n_steps \in 1 .. MAX_STEPS :
          \E loads \in [1 .. n_steps -> 0 .. MAX_PEAK] : Results(loads)
    BY DEF Bank!discharge
<1>2. PICK loads \in [1 .. n_steps -> 0 .. MAX_PEAK] : Results(loads)
    BY <1>10
<1>3. start \in BankRounds /\ start.drawn = 0
    BY <1>1 DEF BankRounds, Bank!Magnitude
<1>4. n_steps \in Nat /\ DOMAIN loads = 1 .. n_steps /\ \A k \in 1 .. n_steps : loads[k] \in Int
    BY <1>1, <1>2
<1> DEFINE end == Bank!Rounds(start, loads)
<1> HIDE DEF start
<1>5. BooksOf(start, end)
    BY <1>1, <1>3, <1>4, RoundsKeepBooks
<1>6. v' = end.v /\ i' = end.i
      /\ report' = IF end.how = "raised" THEN Bank!NoReport
                   ELSE [delivered |-> Bank!Energy(start) - Bank!Energy(end),
                         drawn |-> end.drawn,
                         peak_v |-> end.peak_v, peak_i |-> end.peak_i]
    BY <1>2
<1> HIDE DEF end
<1>7. v' \in Int /\ i' \in Int
    BY <1>5, <1>6 DEF BooksOf, BankRounds
<1>8. R' \in Nat
    BY <1>1 DEF Bank!discharge
<1>9. report' \in Reports /\ (Bank!DischargeAccounts)'
    <2>1. CASE end.how = "raised"
        BY <1>6, <2>1 DEF Bank!NoReport, Reports, Bank!DischargeAccounts
    <2>2. CASE end.how # "raised"
        <3>1. report' = [delivered |-> Bank!Energy(start) - Bank!Energy(end),
                         drawn |-> end.drawn,
                         peak_v |-> end.peak_v, peak_i |-> end.peak_i]
            BY <1>6, <2>2
        <3>2. start = [v |-> v, i |-> i, how |-> "ran", drawn |-> 0,
                       peak_v |-> Bank!Magnitude(v), peak_i |-> Bank!Magnitude(i)]
            BY DEF start
        <3> QED
            BY <1>1, <1>5, <3>1, <3>2, DischargeReports
    <2> QED
        BY <2>1, <2>2
<1> QED
    BY <1>7, <1>8, <1>9 DEF BankInv

LEMMA BankStepKeeps == BankInv /\ Bank!step => BankInv'
<1> SUFFICES ASSUME BankInv, Bank!step PROVE BankInv'
    OBVIOUS
<1> DEFINE s == [v |-> v, i |-> i]
<1>1. PICK load \in Bank!Loads : Bank!OnGrid(s, load)
                              /\ v' = Bank!Solve(s, load).v /\ i' = Bank!Solve(s, load).i
    BY DEF Bank!step
<1>2. s.v \in Int /\ s.i \in Int /\ R \in Nat /\ load \in Int
    BY DEF BankInv, Bank!Loads
<1> HIDE DEF s
<1>3. v' \in Int /\ i' \in Int
    BY <1>1, <1>2, StepBalances
<1>4. R' \in Nat /\ report' = Bank!NoReport
    BY DEF BankInv, Bank!step
<1> QED
    BY <1>3, <1>4 DEF BankInv, Bank!NoReport, Reports, Bank!DischargeAccounts

LEMMA BankKeeps == BankInv /\ [Bank!BankNext]_bankVars => BankInv'
<1>1. BankInv /\ Bank!step => BankInv'
    BY BankStepKeeps
<1>2. BankInv /\ Bank!reset => BankInv'
    BY BankConstants DEF Bank!reset, BankInv, Bank!NoReport, Reports, Bank!DischargeAccounts
<1>3. BankInv /\ Bank!discharge => BankInv'
    BY DischargeKeeps
<1>4. BankInv /\ UNCHANGED bankVars => BankInv'
    BY DEF BankInv, bankVars, Bank!DischargeAccounts
<1> QED
    BY <1>1, <1>2, <1>3, <1>4 DEF Bank!BankNext

LEMMA RechargeIsPaid == BankInv => Bank!ProjectionIsPaidFor
<1> SUFFICES ASSUME BankInv, NEW t \in 0 .. VOLTAGE_MAX * VOLTAGE_MAX
             PROVE  Bank!ProjectedEnergy(t) <= v * v + 2 * POWER * t
    BY DEF Bank!ProjectionIsPaidFor
<1>1. v * v \in Int /\ VOLTAGE_MAX * VOLTAGE_MAX \in Int /\ t \in Nat /\ POWER \in Nat
    BY BankConstants DEF BankInv
<1>2. 2 * POWER * t \in Nat
    BY <1>1
<1> DEFINE e == v * v
           m == VOLTAGE_MAX * VOLTAGE_MAX
           paid == 2 * POWER * t
<1>3. Bank!ProjectedEnergy(t) =
          IF POWER = 0 THEN e
          ELSE IF paid >= Bank!Larger(m - e, 0) THEN m ELSE e + paid
    BY DEF Bank!ProjectedEnergy
<1> HIDE DEF e, m, paid
<1>4. e \in Int /\ m \in Int /\ paid \in Nat
    BY <1>1, <1>2 DEF e, m, paid
<1>5. Bank!ProjectedEnergy(t) <= e + paid
    BY <1>3, <1>4 DEF Bank!Larger
<1> QED
    BY <1>5 DEF e, paid

LEMMA LessIsFeasible == BankInv => Bank!FeasibilityIsMonotone
<1> SUFFICES ASSUME BankInv, NEW p \in Bank!PulseSpec, NEW q \in Bank!PulseSpec,
                    Bank!Feasible(p), q.waveform = p.waveform,
                    q.peak <= p.peak, q.duration <= p.duration
             PROVE  Bank!Feasible(q)
    BY DEF Bank!FeasibilityIsMonotone
<1> DEFINE w == Bank!MeanSquareTenths[p.waveform]
<1>1. p.peak \in Nat /\ q.peak \in Nat /\ p.duration \in Nat /\ q.duration \in Nat
      /\ R \in Nat /\ v \in Int /\ i \in Int
    BY BankConstants DEF BankInv, Bank!PulseSpec
<1>2. w \in Nat
    BY DEF Bank!MeanSquareTenths, Bank!PulseSpec, Bank!Waveforms
<1>3. w = Bank!MeanSquareTenths[q.waveform]
    OBVIOUS
<1> HIDE DEF w
<1>4. ASSUME NEW a \in Nat, NEW b \in Nat, NEW c \in Nat, NEW d \in Nat, a <= b, c <= d
      PROVE  a * c <= b * d /\ a * c \in Nat /\ b * d \in Nat
    <2>1. a * c <= b * c /\ b * c <= b * d /\ a * c \in Nat /\ b * c \in Nat /\ b * d \in Nat
        BY <1>4
    <2> QED
        BY <2>1
<1>5. v > 0 => q.peak <= Bank!natural_peak_current
    BY <1>1 DEF Bank!Feasible, Bank!natural_peak_current, Bank!Magnitude
<1>6. 2 * R * q.peak * q.peak * w * q.duration <= 2 * R * p.peak * p.peak * w * p.duration
    <2> DEFINE cp == 2 * R * p.peak
               cq == 2 * R * q.peak
    <2>1. 2 * R \in Nat /\ 2 * R <= 2 * R /\ w <= w
        BY <1>1, <1>2
    <2>2. cq <= cp /\ cq \in Nat /\ cp \in Nat
        BY <1>1, <2>1, <1>4
    <2> HIDE DEF cp, cq
    <2>3. cq * q.peak <= cp * p.peak /\ cq * q.peak \in Nat /\ cp * p.peak \in Nat
        BY <1>1, <1>4, <2>2
    <2>4. (cq * q.peak) * w <= (cp * p.peak) * w /\ (cq * q.peak) * w \in Nat
          /\ (cp * p.peak) * w \in Nat
        BY <1>2, <1>4, <2>1, <2>3
    <2>5. ((cq * q.peak) * w) * q.duration <= ((cp * p.peak) * w) * p.duration
        BY <1>1, <1>4, <2>4
    <2> QED
        BY <2>5 DEF cp, cq
<1>7. 2 * R * p.peak * p.peak * w * p.duration <= 10 * (v * v + i * i)
    BY DEF Bank!Feasible, w
<1>8. 2 * R * p.peak * p.peak * w * p.duration \in Int
      /\ 2 * R * q.peak * q.peak * w * q.duration \in Int /\ 10 * (v * v + i * i) \in Int
    BY <1>1, <1>2
<1>9. 2 * R * q.peak * q.peak * w * q.duration <= 10 * (v * v + i * i)
    BY <1>6, <1>7, <1>8
<1> QED
    BY <1>3, <1>5, <1>9 DEF Bank!Feasible

(* Whatever is done to the bank, what a discharge reports as delivered is  *)
(* what load and resistance drew from it, in every number of steps; what a *)
(* recharge promises has been paid for; and less is never harder: for all  *)
(* resistances, voltages, powers and pulses.                               *)
THEOREM BankBalances == LifecycleSpec => []BankAccounts
<1>1. LifecycleInit => BankInv
    BY BankInitially DEF LifecycleInit
<1>2. BankInv /\ [LifecycleNext]_lifecycleVars => BankInv'
    BY BankKeeps DEF LifecycleNext, OfBank, OfShot, OfMerger, lifecycleVars, bankVars
<1>3. BankInv => BankAccounts
    BY RechargeIsPaid, LessIsFeasible DEF BankInv, BankAccounts, Bank!BankAccounts
<1> QED
    BY <1>1, <1>2, <1>3, PTL DEF LifecycleSpec

=============================================================================
