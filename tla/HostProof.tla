------------------------------- MODULE HostProof -------------------------------
(***************************************************************************)
(* The host's buffers, for every capacity, u64 bound, pulse width, payload *)
(* and caller: the integrity buffer's accounting and order, and from them  *)
(* that CONTROL runs the events of a shot once each, in order and at       *)
(* causal times; that the DAQ bus replays in order and counts what it      *)
(* drops; and that a caller cannot tell which backend it was handed.       *)
(***************************************************************************)
EXTENDS MCHostBuffers, FiniteSetTheorems, WellFoundedInduction, TLAPS

-----------------------------------------------------------------------------
(* The buffer.                                                             *)

BufferInv ==
    BufferTypeOK /\ TelemetryValid /\ NumbersAreAdmitted /\ QueueIsContiguous

(* What the assumption says of the domains, in the form the steps use.     *)
LEMMA Domains ==
    /\ U64_MAX \in Nat /\ Capacity \in Nat /\ Capacity >= 1
    /\ SequenceStarts \subseteq Sequences
    /\ \A t \in Times : t \in Nat
    /\ Sequences = 0 .. U64_MAX
    /\ NoTime \notin Times /\ Exhausted \notin Sequences
<1>1. U64_MAX \in Nat /\ \A t \in Times : t \in Nat
  BY BufferAssumption
<1>2. /\ Sequences = 0 .. U64_MAX /\ SequenceStarts \subseteq Sequences
      /\ \A n \in Sequences : n \in Nat
  BY <1>1, BufferAssumption DEF Sequences
<1>3. NoTime \notin Times /\ Exhausted \notin Sequences
  BY <1>1, <1>2, BufferAssumption
<1> QED BY <1>1, <1>2, <1>3, BufferAssumption

(* An empty fresh epoch satisfies the invariant. *)
LEMMA FreshBuffer == BufferInit => BufferInv
<1> SUFFICES ASSUME BufferInit PROVE BufferInv
  OBVIOUS
<1>0. epoch_start \in Sequences /\ epoch_start \in Nat /\ epoch_start <= U64_MAX
  BY Domains DEF BufferInit
<1>1. events \in Seq(RawAerEvent) /\ Len(events) = 0
  BY DEF BufferInit
<1>2. BufferTypeOK
  <2>1. /\ expected_sequence \in Sequences \cup {Exhausted}
        /\ last_t_ns \in Times \cup {NoTime} /\ overflow_sticky \in BOOLEAN
    BY <1>0, Zenon DEF BufferInit
  <2>2. /\ generated \in 0 .. U64_MAX /\ accepted \in 0 .. U64_MAX
        /\ dropped \in 0 .. U64_MAX /\ high_watermark \in 0 .. Capacity
        /\ Len(events) <= Capacity
    BY <1>1, Domains DEF BufferInit
  <2> QED BY <1>0, <1>1, <2>1, <2>2 DEF BufferTypeOK
<1>3. TelemetryValid /\ NumbersAreAdmitted /\ QueueIsContiguous
  BY <1>0, Domains
  DEF BufferInit, TelemetryValid, NumbersAreAdmitted, Issued, QueueIsContiguous
<1> QED BY <1>2, <1>3 DEF BufferInv

(* A refused event changes the counters only. *)
LEMMA RejectKeeps ==
    ASSUME BufferInv, NEW e \in RawAerEvent, RejectNewest(e)
    PROVE  BufferInv'
<1>1. BufferTypeOK'
  BY Domains DEF RejectNewest, BufferInv, BufferTypeOK
<1>2. TelemetryValid'
  BY DEF RejectNewest, BufferInv, BufferTypeOK, TelemetryValid
<1>3. NumbersAreAdmitted' /\ QueueIsContiguous'
  BY DEF RejectNewest, BufferInv, NumbersAreAdmitted, Issued, QueueIsContiguous
<1> QED BY <1>1, <1>2, <1>3 DEF BufferInv

(* An admitted event uses the expected number and extends the queue. *)
LEMMA AdmitKeeps ==
    ASSUME BufferInv, NEW e \in RawAerEvent, Admit(e)
    PROVE  BufferInv'
<1> USE Domains DEF BufferInv
<1>0. epoch_start \in Nat /\ epoch_start <= U64_MAX /\ epoch_start' = epoch_start
  BY DEF BufferTypeOK, Admit
<1>1. /\ e.sequence \in 0 .. U64_MAX /\ e.sequence = expected_sequence
      /\ e.t_ns \in Times /\ expected_sequence # Exhausted
      /\ accepted = e.sequence - epoch_start
  BY DEF Admit, Resolves, RawAerEvent, Sequences, NumbersAreAdmitted, Issued
<1>2. /\ events \in Seq(RawAerEvent) /\ events' = Append(events, e)
      /\ Len(events') = Len(events) + 1
      /\ events' \in Seq(RawAerEvent)
      /\ \A i \in 1 .. Len(events) : events'[i] = events[i]
      /\ events'[Len(events) + 1] = e
  BY DEF Admit, BufferTypeOK
<1>3. BufferTypeOK'
  BY <1>0, <1>1, <1>2 DEF Admit, BufferTypeOK, Successor, Sequences
<1>4. TelemetryValid'
  <2>1. /\ generated \in Nat /\ accepted \in Nat /\ dropped \in Nat
        /\ high_watermark \in Nat /\ Len(events) \in Nat
    BY <1>2 DEF BufferTypeOK
  <2>2. /\ generated' = generated + 1 /\ accepted' = accepted + 1
        /\ dropped' = dropped /\ overflow_sticky' = overflow_sticky
        /\ high_watermark' = IF Len(events) + 1 > high_watermark
                             THEN Len(events) + 1 ELSE high_watermark
    BY DEF Admit
  <2>3. /\ generated = accepted + dropped /\ Len(events) <= accepted
        /\ high_watermark <= accepted /\ (dropped > 0 => overflow_sticky)
    BY DEF TelemetryValid
  <2>4. high_watermark' <= accepted'
    BY <2>1, <2>2, <2>3
  <2> QED BY <1>2, <2>1, <2>2, <2>3, <2>4 DEF TelemetryValid
<1>5. NumbersAreAdmitted'
  <2>1. accepted' = e.sequence - epoch_start + 1
    BY <1>0, <1>1 DEF Admit, BufferTypeOK
  <2>2. CASE e.sequence = U64_MAX
    BY <2>1, <2>2, <1>1 DEF Admit, NumbersAreAdmitted, Issued, Successor
  <2>3. CASE e.sequence # U64_MAX
    <3>1. e.sequence + 1 \in Sequences /\ e.sequence + 1 # Exhausted
      BY <2>3, <1>1
    <3>2. expected_sequence' = e.sequence + 1
      BY <2>3 DEF Admit, Successor
    <3> QED BY <2>1, <3>1, <3>2, <1>0, <1>1 DEF NumbersAreAdmitted, Issued
  <2> QED BY <2>2, <2>3
<1>6. QueueIsContiguous'
  <2> DEFINE n == Len(events)
  <2>0. n \in Nat /\ Len(events') = n + 1 /\ accepted \in Nat /\ accepted' = accepted + 1
    BY <1>2 DEF Admit, BufferTypeOK
  <2>1. \A i \in 1 .. n : events'[i].sequence = epoch_start + accepted' - (n + 1) + i - 1
    BY <2>0, <1>2 DEF QueueIsContiguous
  <2>2. events'[n + 1].sequence = epoch_start + accepted' - (n + 1) + (n + 1) - 1
    <3>1. e.sequence = epoch_start + accepted' - 1
      BY <2>0, <1>0, <1>1
    <3>2. epoch_start + accepted' - (n + 1) + (n + 1) - 1 = epoch_start + accepted' - 1
      BY <2>0, <1>0, <1>1
    <3> QED BY <3>1, <3>2, <1>2
  <2>3. \A i \in 1 .. n : events'[i].t_ns <= e.t_ns
    <3> SUFFICES ASSUME NEW i \in 1 .. n PROVE events[i].t_ns <= e.t_ns
      BY <1>2
    <3>1. /\ events # <<>> /\ n >= 1 /\ events[n].t_ns = last_t_ns
          /\ events[i] \in RawAerEvent /\ events[n] \in RawAerEvent
      BY <1>2, <2>0 DEF QueueIsContiguous
    <3>2. /\ events[n].t_ns \in Times /\ events[i].t_ns \in Nat /\ events[n].t_ns \in Nat /\ e.t_ns \in Nat
      BY <3>1, <1>1 DEF RawAerEvent
    <3>3. events[i].t_ns <= events[n].t_ns
      <4>1. \A k, j \in 1 .. n : k < j => events[k].t_ns <= events[j].t_ns
        BY Zenon DEF QueueIsContiguous, BufferInv
      <4>2. n \in 1 .. n /\ (i = n \/ i < n)
        BY <2>0, <3>1
      <4>3. CASE i = n
        BY <4>3, <3>2
      <4>4. CASE i < n
        BY <4>1, <4>2, <4>4, Zenon
      <4> QED
        BY <4>2, <4>3, <4>4
    <3>4. last_t_ns # NoTime
      BY <3>1, <3>2, Domains
    <3> QED BY <3>1, <3>2, <3>3, <3>4 DEF Admit, Resolves
  <2>4. \A i, j \in 1 .. n + 1 : i < j => events'[i].t_ns <= events'[j].t_ns
    <3> SUFFICES ASSUME NEW i \in 1 .. n + 1, NEW j \in 1 .. n + 1, i < j
                 PROVE  events'[i].t_ns <= events'[j].t_ns
      OBVIOUS
    <3>1. CASE j = n + 1
      BY <3>1, <2>0, <2>3, <1>2
    <3>2. CASE j # n + 1
      <4>1. i \in 1 .. n /\ j \in 1 .. n
        BY <3>2, <2>0
      <4>2. events'[i] = events[i] /\ events'[j] = events[j]
        BY <4>1, <1>2
      <4> QED BY <4>1, <4>2 DEF QueueIsContiguous
    <3> QED BY <3>1, <3>2
  <2>5. events'[n + 1].t_ns = last_t_ns'
    BY <1>2 DEF Admit
  <2> HIDE DEF n
  <2> QED
    BY <1>0, <2>0, <2>1, <2>2, <2>4, <2>5 DEF QueueIsContiguous
<1> QED BY <1>3, <1>4, <1>5, <1>6

(* Taking the oldest event leaves the tail of a contiguous queue. *)
LEMMA PopKeeps ==
    ASSUME BufferInv, pop_oldest
    PROVE  BufferInv'
<1> USE Domains DEF BufferInv
<1>0. epoch_start \in Nat /\ epoch_start' = epoch_start
  BY DEF BufferTypeOK, pop_oldest
<1>1. /\ events \in Seq(RawAerEvent) /\ events # <<>> /\ events' = Tail(events)
      /\ events' \in Seq(RawAerEvent) /\ Len(events) \in Nat \ {0}
      /\ Len(events') = Len(events) - 1
      /\ \A i \in 1 .. Len(events) - 1 : events'[i] = events[i + 1]
  BY DEF pop_oldest, BufferTypeOK
<1>2. UNCHANGED <<epoch_start, expected_sequence, last_t_ns, generated, accepted, dropped,
                  high_watermark, overflow_sticky>>
  BY DEF pop_oldest, telemetry
<1>3. BufferTypeOK' /\ TelemetryValid' /\ NumbersAreAdmitted'
  BY <1>0, <1>1, <1>2 DEF BufferTypeOK, TelemetryValid, NumbersAreAdmitted, Issued
<1>4. QueueIsContiguous'
  <2> DEFINE n == Len(events)
  <2>1. \A i \in 1 .. n - 1 : /\ i \in Nat /\ i + 1 \in 1 .. n
                              /\ events'[i] = events[i + 1]
    BY <1>1
  <2>2. \A i \in 1 .. n - 1 :
            events'[i].sequence = epoch_start + accepted' - (n - 1) + i - 1
    BY <2>1, <1>0, <1>1, <1>2 DEF QueueIsContiguous, BufferTypeOK
  <2>3. \A i, j \in 1 .. n - 1 : i < j => events'[i].t_ns <= events'[j].t_ns
    BY <2>1, <1>1 DEF QueueIsContiguous
  <2>4. events' # <<>> => n - 1 \in 1 .. n - 1 /\ events'[n - 1].t_ns = last_t_ns'
    BY <2>1, <1>1, <1>2 DEF QueueIsContiguous
  <2> QED
    BY <1>0, <2>2, <2>3, <2>4, <1>1 DEF QueueIsContiguous
<1> QED BY <1>3, <1>4

(* Every step of the buffer keeps the invariant. *)
LEMMA BufferStep == BufferInv /\ [BufferNext]_bufferVars => BufferInv'
<1> SUFFICES ASSUME BufferInv, [BufferNext]_bufferVars PROVE BufferInv'
  OBVIOUS
<1>1. CASE push
  BY <1>1, RejectKeeps, AdmitKeeps DEF push
<1>2. CASE pop_oldest
  BY <1>2, PopKeeps
<1>3. CASE reset_epoch
  <2>0. /\ epoch_start \in Sequences /\ epoch_start' = epoch_start
        /\ epoch_start \in Nat /\ epoch_start <= U64_MAX
    BY <1>3, Domains DEF BufferInv, BufferTypeOK, reset_epoch, StartEpoch
  <2>1. BufferTypeOK'
    <3>1. events' \in Seq(RawAerEvent) /\ Len(events') = 0
      BY <1>3 DEF reset_epoch, StartEpoch
    <3>2. /\ expected_sequence' \in Sequences \cup {Exhausted}
          /\ last_t_ns' \in Times \cup {NoTime} /\ overflow_sticky' \in BOOLEAN
      BY <2>0, <1>3, Zenon DEF reset_epoch, StartEpoch
    <3>3. /\ generated' \in 0 .. U64_MAX /\ accepted' \in 0 .. U64_MAX
          /\ dropped' \in 0 .. U64_MAX /\ high_watermark' \in 0 .. Capacity
          /\ Len(events') <= Capacity
      BY <1>3, <3>1, Domains DEF reset_epoch, StartEpoch
    <3> QED BY <2>0, <3>1, <3>2, <3>3 DEF BufferTypeOK
  <2>2. TelemetryValid' /\ NumbersAreAdmitted' /\ QueueIsContiguous'
    BY <2>0, <1>3, Domains
    DEF reset_epoch, StartEpoch, TelemetryValid, NumbersAreAdmitted, Issued,
        QueueIsContiguous
  <2> QED BY <2>1, <2>2 DEF BufferInv
<1>4. CASE UNCHANGED bufferVars
  BY <1>4 DEF bufferVars, telemetry, BufferInv, BufferTypeOK, TelemetryValid,
      NumbersAreAdmitted, QueueIsContiguous, Issued
<1> QED BY <1>1, <1>2, <1>3, <1>4 DEF BufferNext

-----------------------------------------------------------------------------
(* The bridge.                                                             *)

(* A stream, however stale, is a batch the buffer once held: numbers run   *)
(* from its start and times never regress.                                 *)
StreamIsOrdered ==
    stream # NoStream =>
        /\ stream \in AerEventStream
        /\ \A i \in 1 .. Len(Batch) : Batch[i].sequence = stream.start + i - 1
        /\ \A i, j \in 1 .. Len(Batch) : i < j => Batch[i].t_ns <= Batch[j].t_ns

LifInv ==
    BufferInv /\ BridgeTypeOK /\ StreamIsOrdered
    /\ ExecutedOnceInOrder /\ ExecutedIsCausal

(* A shot that has run nothing satisfies the invariant. *)
LEMMA FreshBridge == LifInit => LifInv
<1> SUFFICES ASSUME LifInit PROVE LifInv
  OBVIOUS
<1>1. BufferInv
  BY FreshBuffer DEF LifInit
<1>2. executed = <<>> /\ Len(executed) = 0 /\ executed \in Seq(RawAerEvent)
  BY DEF LifInit
<1>3. epoch_start \in Sequences /\ epoch_start \in Nat /\ epoch_start <= U64_MAX
      /\ U64_MAX \in Nat
  BY <1>1, Domains DEF BufferInv, BufferTypeOK
<1>4. next_sequence \in Sequences \cup {Exhausted} /\ origin \in Sequences
  BY <1>3, Zenon DEF LifInit
<1>5. /\ shot_id \in Shots /\ source_id \in Sources \cup {NoSource}
      /\ stream \in AerEventStream \cup {NoStream}
  BY Zenon DEF LifInit
<1>6. BridgeTypeOK
  BY <1>2, <1>3, <1>4, <1>5 DEF LifInit, BridgeTypeOK
<1>7. StreamIsOrdered
  BY Zenon DEF LifInit, StreamIsOrdered
<1>8. ExecutedOnceInOrder /\ ExecutedIsCausal
  BY <1>2, <1>3 DEF LifInit, ExecutedOnceInOrder, ExecutedIsCausal
<1> QED BY <1>1, <1>6, <1>7, <1>8 DEF LifInv

(* A stream takes the order of the queue it is built from. *)
LEMMA BuildKeeps ==
    ASSUME LifInv, BuildStream
    PROVE  LifInv'
<1>1. BufferInv' /\ ExecutedOnceInOrder' /\ ExecutedIsCausal'
  BY DEF LifInv, BuildStream, bufferVars, telemetry, bridge, history, BufferInv,
     BufferTypeOK, TelemetryValid, NumbersAreAdmitted, Issued, QueueIsContiguous,
     ExecutedOnceInOrder, ExecutedIsCausal
<1>2. PICK start \in Sequences :
        /\ events # <<>> => start = Head(events).sequence
        /\ stream' = [shot |-> shot_id, start |-> start, events |-> events]
  BY DEF BuildStream
<1>3. /\ events \in Seq(RawAerEvent) /\ shot_id \in Shots /\ accepted \in Nat
      /\ start \in Nat /\ Len(events) \in Nat /\ epoch_start \in Nat
  BY <1>2, Domains DEF LifInv, BufferInv, BufferTypeOK, BridgeTypeOK
<1>4. stream' \in AerEventStream /\ Batch' = events /\ stream'.start = start
  BY <1>2, <1>3 DEF AerEventStream, Batch
<1>5. BridgeTypeOK'
  BY <1>4 DEF LifInv, BridgeTypeOK, BuildStream, bridge, history
<1>6. \A i \in 1 .. Len(events) : events[i].sequence = start + i - 1
  <2> SUFFICES ASSUME NEW i \in 1 .. Len(events)
               PROVE  events[i].sequence = start + i - 1
    OBVIOUS
  <2>1. events # <<>> /\ 1 \in 1 .. Len(events) /\ Head(events) = events[1]
    BY <1>3
  <2>2. start = epoch_start + accepted - Len(events) + 1 - 1
    BY <2>1, <1>2 DEF LifInv, BufferInv, QueueIsContiguous
  <2>3. events[i].sequence = epoch_start + accepted - Len(events) + i - 1
    BY DEF LifInv, BufferInv, QueueIsContiguous
  <2> QED BY <2>2, <2>3, <1>3, Domains
<1>7. \A i, j \in 1 .. Len(events) : i < j => events[i].t_ns <= events[j].t_ns
  BY DEF LifInv, BufferInv, QueueIsContiguous
<1>8. StreamIsOrdered'
  BY <1>4, <1>6, <1>7 DEF StreamIsOrdered
<1> QED BY <1>1, <1>5, <1>8 DEF LifInv

(* A new shot has run nothing, whatever stream the caller still holds. *)
LEMMA ResetKeeps ==
    ASSUME LifInv, reset_shot
    PROVE  LifInv'
<1>1. BufferInv' /\ StreamIsOrdered'
  BY DEF LifInv, reset_shot, bufferVars, telemetry, BufferInv, BufferTypeOK,
     TelemetryValid, NumbersAreAdmitted, Issued, QueueIsContiguous,
     StreamIsOrdered, Batch
<1>2. executed' = <<>> /\ Len(executed') = 0 /\ executed' \in Seq(RawAerEvent)
  BY DEF reset_shot
<1>3. 0 \in Sequences /\ U64_MAX \in Nat
  BY Domains
<1>4. next_sequence' \in Sequences \cup {Exhausted} /\ origin' \in Sequences
  BY <1>3, Zenon DEF reset_shot
<1>5. /\ shot_id' \in Shots /\ source_id' \in Sources \cup {NoSource}
      /\ stream' \in AerEventStream \cup {NoStream}
  BY Zenon DEF reset_shot, LifInv, BridgeTypeOK
<1>6. BridgeTypeOK'
  BY <1>2, <1>3, <1>4, <1>5 DEF reset_shot, BridgeTypeOK
<1>7. ExecutedOnceInOrder' /\ ExecutedIsCausal'
  BY <1>2, <1>3 DEF reset_shot, ExecutedOnceInOrder, ExecutedIsCausal
<1> QED BY <1>1, <1>6, <1>7 DEF LifInv

(* A batch CONTROL has run extends the shot's trace. *)
LEMMA ExecuteKeeps ==
    ASSUME LifInv, Execute
    PROVE  LifInv'
<1> DEFINE n == Len(executed)
           m == Len(Batch)
<1>1. PICK stop_ns \in 0 .. U64_MAX : Executable(stop_ns) /\ next_start_ns' = stop_ns
  BY DEF Execute
<1>2. /\ stream # NoStream /\ stream \in AerEventStream
      /\ Batch \in Seq(RawAerEvent) /\ m \in Nat
      /\ stream.start = next_sequence /\ stream.start \in Sequences
  BY <1>1 DEF LifInv, StreamIsOrdered, Executable, AerEventStream, Batch
<1>3. /\ executed \in Seq(RawAerEvent) /\ n \in Nat /\ origin \in Nat
      /\ next_sequence \in Nat /\ next_sequence <= U64_MAX
      /\ next_sequence # Exhausted /\ U64_MAX \in Nat /\ DOMAIN executed = 1 .. n
  BY <1>2, Domains DEF LifInv, BridgeTypeOK
<1>4. /\ executed' = executed \o Batch /\ executed' \in Seq(RawAerEvent)
      /\ Len(executed') = n + m /\ DOMAIN executed' = 1 .. n + m
      /\ \A i \in 1 .. n : executed'[i] = executed[i]
      /\ \A i \in n + 1 .. n + m : executed'[i] = Batch[i - n] /\ i - n \in 1 .. m
  BY <1>2, <1>3 DEF Execute
<1>5. /\ \A i \in 1 .. n : executed[i] \in RawAerEvent /\ executed[i].t_ns \in Nat
      /\ \A i \in 1 .. m : Batch[i] \in RawAerEvent /\ Batch[i].t_ns \in Nat
      /\ next_start_ns \in Nat /\ PulseWidth \in Nat /\ stop_ns \in Nat
      /\ next_start_ns < stop_ns
  <2>1. \A e \in RawAerEvent : e.t_ns \in Nat
    BY Domains DEF RawAerEvent
  <2> QED
    BY <2>1, <1>1, <1>2, <1>3, BridgeAssumption, Domains
    DEF LifInv, BridgeTypeOK, Executable, Projects
<1>6. BufferInv' /\ StreamIsOrdered'
  BY DEF LifInv, Execute, bufferVars, telemetry, BufferInv, BufferTypeOK,
     TelemetryValid, NumbersAreAdmitted, Issued, QueueIsContiguous,
     StreamIsOrdered, Batch
<1>7. ExecutedOnceInOrder'
  <2>1. next_sequence = origin + n
    BY <1>3, Domains DEF LifInv, ExecutedOnceInOrder
  <2>2. \A i \in 1 .. n : executed'[i].sequence = origin + i - 1
    BY <1>3, <1>4 DEF LifInv, ExecutedOnceInOrder
  <2>3. \A i \in n + 1 .. n + m : executed'[i].sequence = origin + i - 1
    <3> SUFFICES ASSUME NEW i \in n + 1 .. n + m
                 PROVE  executed'[i].sequence = origin + i - 1
      OBVIOUS
    <3>1. executed'[i].sequence = next_sequence + (i - n) - 1
      BY <1>2, <1>4 DEF LifInv, StreamIsOrdered
    <3> QED BY <3>1, <2>1, <1>2, <1>3
  <2>4. \A i \in DOMAIN executed' : executed'[i].sequence = origin' + i - 1
    <3>1. origin' = origin /\ \A i \in 1 .. n + m : i \in 1 .. n \/ i \in n + 1 .. n + m
      BY <1>2, <1>3 DEF Execute
    <3> QED BY <3>1, <2>2, <2>3, <1>4
  <2>5. next_sequence' = IF origin + (n + m) > U64_MAX THEN Exhausted
                         ELSE origin + (n + m)
    <3>1. next_sequence + m = origin + (n + m)
      BY <2>1, <1>2, <1>3
    <3> QED BY <3>1 DEF Execute, Advance
  <2> QED BY <2>4, <2>5, <1>4 DEF ExecutedOnceInOrder, Execute
<1>8. ExecutedIsCausal'
  <2>1. \A i \in 1 .. n : /\ executed[i].t_ns + PulseWidth <= next_start_ns
                          /\ executed[i].source = source_id
    BY <1>3 DEF LifInv, ExecutedIsCausal
  <2>2. \A i \in 1 .. m : /\ next_start_ns <= Batch[i].t_ns
                          /\ Batch[i].t_ns + PulseWidth <= stop_ns
    BY <1>1, <1>2 DEF Executable, Projects
  <2>3. \A i \in 1 .. n : source_id' = executed[i].source
    <3> SUFFICES ASSUME NEW i \in 1 .. n PROVE source_id' = source_id
      BY <2>1
    <3>1. source_id \in Sources /\ source_id # NoSource
      BY <2>1, <1>5, BridgeAssumption DEF RawAerEvent
    <3> QED BY <3>1, <1>1 DEF Executable, Execute
  <2>4. \A i \in 1 .. m : source_id' = Batch[i].source
    <3> SUFFICES ASSUME NEW i \in 1 .. m PROVE source_id' = Batch[i].source
      OBVIOUS
    <3>1. Batch # <<>> /\ Head(Batch) = Batch[1] /\ 1 \in 1 .. m
      BY <1>2
    <3>2. Batch[1].source \in SourceIds /\ Batch[i].source \in SourceIds
      BY <3>1, <1>2 DEF SourceIds
    <3>3. Batch[1].source = Batch[i].source
      BY <3>2, <1>1 DEF Executable, Projects
    <3> QED BY <3>1, <3>3 DEF Execute, NextSource
  <2>5. \A i \in 1 .. n + m : /\ executed'[i].t_ns + PulseWidth <= stop_ns
                              /\ executed'[i].source = source_id'
    <3> SUFFICES ASSUME NEW i \in 1 .. n + m
                 PROVE  /\ executed'[i].t_ns + PulseWidth <= stop_ns
                        /\ executed'[i].source = source_id'
      OBVIOUS
    <3>1. CASE i \in 1 .. n
      BY <3>1, <1>4, <1>5, <2>1, <2>3
    <3>2. CASE i \in n + 1 .. n + m
      BY <3>2, <1>4, <2>2, <2>4
    <3> QED BY <3>1, <3>2, <1>2, <1>3
  <2>6. \A i, j \in 1 .. n + m : i < j => executed'[i].t_ns <= executed'[j].t_ns
    <3> SUFFICES ASSUME NEW i \in 1 .. n + m, NEW j \in 1 .. n + m, i < j
                 PROVE  executed'[i].t_ns <= executed'[j].t_ns
      OBVIOUS
    <3>1. CASE j \in 1 .. n
      <4>1. i \in 1 .. n
        BY <3>1, <1>2, <1>3
      <4> QED BY <3>1, <4>1, <1>3, <1>4 DEF LifInv, ExecutedIsCausal
    <3>2. CASE i \in 1 .. n /\ j \in n + 1 .. n + m
      <4>1. executed[i].t_ns + PulseWidth <= next_start_ns /\ next_start_ns <= Batch[j - n].t_ns
        BY <3>2, <2>1, <2>2, <1>4
      <4>2. executed[i].t_ns \in Nat /\ Batch[j - n].t_ns \in Nat
        BY <3>2, <1>4, <1>5
      <4>3. executed[i].t_ns <= Batch[j - n].t_ns
        BY <4>1, <4>2, <1>5, SMTT(60)
      <4> QED BY <4>3, <3>2, <1>4
    <3>3. CASE i \in n + 1 .. n + m /\ j \in n + 1 .. n + m
      <4>1. i - n \in 1 .. m /\ j - n \in 1 .. m /\ i - n < j - n
        BY <3>3, <1>2, <1>3
      <4>2. Batch[i - n].t_ns <= Batch[j - n].t_ns
        BY <4>1, <1>2 DEF LifInv, StreamIsOrdered
      <4> QED BY <4>2, <3>3, <1>4
    <3> QED BY <3>1, <3>2, <3>3, <1>2, <1>3
  <2> QED BY <2>5, <2>6, <1>1, <1>4 DEF ExecutedIsCausal
<1>9. BridgeTypeOK'
  <2>1. next_sequence' \in Sequences \cup {Exhausted}
    BY <1>2, <1>3, Domains DEF Execute, Advance
  <2>2. source_id' \in Sources \cup {NoSource}
    <3>1. CASE Batch = <<>>
      BY <3>1 DEF Execute, NextSource, LifInv, BridgeTypeOK
    <3>2. CASE Batch # <<>>
      <4>1. Head(Batch) \in RawAerEvent
        BY <3>2, <1>2
      <4> QED BY <4>1, <3>2 DEF Execute, NextSource, RawAerEvent
    <3> QED BY <3>1, <3>2
  <2> QED BY <2>1, <2>2, <1>1, <1>4 DEF BridgeTypeOK, LifInv, Execute
<1> HIDE DEF n, m
<1> QED BY <1>6, <1>7, <1>8, <1>9 DEF LifInv

(* Every step of the buffer, the bridge and the caller keeps the invariant. *)
LEMMA LifStep == LifInv /\ [LifNext]_lifVars => LifInv'
<1> SUFFICES ASSUME LifInv, [LifNext]_lifVars PROVE LifInv'
  OBVIOUS
<1>1. CASE BufferNext /\ UNCHANGED <<bridge, stream, history>>
  <2>1. BufferInv'
    BY <1>1, BufferStep DEF LifInv
  <2>2. BridgeTypeOK' /\ StreamIsOrdered' /\ ExecutedOnceInOrder' /\ ExecutedIsCausal'
    BY <1>1 DEF bridge, history, LifInv, BridgeTypeOK, StreamIsOrdered, Batch,
       ExecutedOnceInOrder, ExecutedIsCausal
  <2> QED BY <2>1, <2>2 DEF LifInv
<1>2. CASE BuildStream
  BY <1>2, BuildKeeps
<1>3. CASE Execute
  BY <1>3, ExecuteKeeps
<1>4. CASE reset_shot
  BY <1>4, ResetKeeps
<1>5. CASE UNCHANGED lifVars
  <2>1. UNCHANGED bufferVars /\ UNCHANGED <<bridge, stream, history>>
    BY <1>5 DEF lifVars
  <2>2. BufferInv'
    BY <2>1, BufferStep DEF LifInv
  <2>3. BridgeTypeOK' /\ StreamIsOrdered' /\ ExecutedOnceInOrder' /\ ExecutedIsCausal'
    BY <2>1 DEF bridge, history, LifInv, BridgeTypeOK, StreamIsOrdered, Batch,
       ExecutedOnceInOrder, ExecutedIsCausal
  <2> QED BY <2>2, <2>3 DEF LifInv
<1> QED BY <1>1, <1>2, <1>3, <1>4, <1>5 DEF LifNext

(* Buffer, bridge and whatever the caller holds keep their types. *)
THEOREM TypeCorrect == LifSpec => []LifTypeOK
<1>1. LifInv => LifTypeOK
  BY DEF LifInv, BufferInv, LifTypeOK
<1> QED BY FreshBridge, LifStep, <1>1, PTL DEF LifSpec

(* CONTROL runs every event of a shot once, in sequence order and without  *)
(* a gap, for every caller of the buffer and the bridge.                   *)
THEOREM RunsOnceInOrder == LifSpec => []ExecutedOnceInOrder
<1>1. LifInv => ExecutedOnceInOrder
  BY DEF LifInv
<1> QED BY FreshBridge, LifStep, <1>1, PTL DEF LifSpec

(* The events CONTROL runs in a shot have one source, times that never     *)
(* regress, and pulses that end before the cursor.                         *)
THEOREM RunsCausally == LifSpec => []ExecutedIsCausal
<1>1. LifInv => ExecutedIsCausal
  BY DEF LifInv
<1> QED BY FreshBridge, LifStep, <1>1, PTL DEF LifSpec

(* The buffer keeps its promises while bridge and caller act around it.    *)
THEOREM BufferStaysSound == LifSpec => []BufferSound
<1>1. LifInv => BufferSound
  BY DEF LifInv, BufferInv, BufferSound
<1> QED BY FreshBridge, LifStep, <1>1, PTL DEF LifSpec

-----------------------------------------------------------------------------
(* The bus: what waits in its ring continues what it emitted.              *)

BusTypeOK ==
    /\ mode \in Bus!DeliveryMode
    /\ frames \in Seq(Bus!Blob) /\ Len(frames) <= RING_CAPACITY
    /\ dropped_frames \in Nat
    /\ last_sequence \in Int /\ frame_last_t_ns \in Int
    /\ last_out.sequence \in Int /\ last_out.t_ns \in Int
    /\ counts \in [taken : Nat, emitted : Nat]

(* The number and time held against the next frame are those of the frame  *)
(* taken last, which is in the ring or was emitted.                        *)
LatestIsHeld ==
    LET latest == IF frames = <<>> THEN last_out ELSE frames[Len(frames)] IN
    last_sequence = latest.sequence /\ frame_last_t_ns = latest.t_ns

BusInv == BusTypeOK /\ LatestIsHeld /\ Bus!ReplayIsFaithful

(* A sequence is empty when its length is nought.                          *)
LEMMA EmptyByLength ==
    ASSUME NEW S, NEW seq \in Seq(S) PROVE seq = <<>> <=> Len(seq) = 0
OBVIOUS

LEMMA BlobFields ==
    \A b \in Bus!Blob : b.sequence \in Nat /\ b.t_ns \in Nat
<1> QED BY HostParameters DEF Bus!Blob, Bus!BusAssumption

LEMMA BusInitially == Bus!BusInit => BusInv
<1> SUFFICES ASSUME Bus!BusInit PROVE BusInv
  OBVIOUS
<1>0. RING_CAPACITY \in Nat /\ RING_CAPACITY > 0
  BY HostParameters DEF Bus!BusAssumption
<1>1. /\ frames = <<>> /\ Len(frames) = 0 /\ frames \in Seq(Bus!Blob)
      /\ counts \in [taken : Nat, emitted : Nat]
      /\ counts.taken = 0 /\ counts.emitted = 0
  BY DEF Bus!BusInit
<1>2. BusTypeOK
  BY <1>0, <1>1 DEF Bus!BusInit, BusTypeOK
<1>3. LatestIsHeld
  BY <1>1 DEF Bus!BusInit, LatestIsHeld
<1>4. Bus!ReplayIsFaithful
  BY <1>0, <1>1
     DEF Bus!BusInit, Bus!ReplayIsFaithful, Bus!ReplaysInOrder, Bus!DropsAreCounted
<1> QED BY <1>2, <1>3, <1>4 DEF BusInv

(* A bind moves no frame.                                                  *)
LEMMA BindKeeps ==
    ASSUME BusInv,
           UNCHANGED <<mode, frames, dropped_frames, last_sequence, frame_last_t_ns,
                       last_out, counts>>
    PROVE  BusInv'
BY DEF BusInv, BusTypeOK, LatestIsHeld, Bus!ReplayIsFaithful, Bus!ReplaysInOrder,
       Bus!DropsAreCounted

(* An emission takes the head, and what it leaves behind continues it.     *)
LEMMA EmitKeeps == BusInv /\ Bus!emit_frame => BusInv'
<1> SUFFICES ASSUME BusInv, Bus!emit_frame PROVE BusInv'
  OBVIOUS
<1> USE DEF BusInv, BusTypeOK
<1>0. RING_CAPACITY \in Nat /\ RING_CAPACITY > 0
  BY HostParameters DEF Bus!BusAssumption
<1>a. frames \in Seq(Bus!Blob) /\ frames # <<>> /\ frames' = Tail(frames)
  BY DEF Bus!emit_frame
<1>1. /\ frames \in Seq(Bus!Blob) /\ frames # <<>> /\ Len(frames) \in Nat /\ Len(frames) >= 1
      /\ frames' \in Seq(Bus!Blob) /\ Len(frames') = Len(frames) - 1
      /\ \A n \in 1 .. Len(frames') : frames'[n] = frames[n + 1]
      /\ (frames' = <<>> <=> Len(frames) = 1)
      /\ Head(frames) = frames[1] /\ frames[1] \in Bus!Blob
  <2> HIDE DEF BusInv, BusTypeOK
  <2> DEFINE S == Bus!Blob
  <2>1. frames \in Seq(S)
    BY <1>a
  <2> HIDE DEF S
  <2>2. /\ Len(frames) \in Nat /\ Len(frames) >= 1
        /\ Tail(frames) \in Seq(S) /\ Len(Tail(frames)) = Len(frames) - 1
        /\ \A n \in 1 .. Len(frames) - 1 : Tail(frames)[n] = frames[n + 1]
        /\ Head(frames) = frames[1] /\ frames[1] \in S
    BY <1>a, <2>1
  <2>3. Tail(frames) = <<>> <=> Len(Tail(frames)) = 0
    BY <2>2, EmptyByLength
  <2> QED BY <1>a, <2>2, <2>3 DEF S
<1>2. /\ last_out'.sequence = frames[1].sequence /\ last_out'.t_ns = frames[1].t_ns
      /\ UNCHANGED <<mode, dropped_frames, last_sequence, frame_last_t_ns>>
      /\ counts' \in [taken : Nat, emitted : Nat]
      /\ counts'.taken = counts.taken /\ counts'.emitted = counts.emitted + 1
  <2>1. /\ last_out' = [sequence |-> Head(frames).sequence, t_ns |-> Head(frames).t_ns]
        /\ UNCHANGED <<mode, dropped_frames, last_sequence, frame_last_t_ns>>
        /\ counts' = [counts EXCEPT !.emitted = counts.emitted + 1]
    BY DEF Bus!emit_frame
  <2>2. counts \in [taken : Nat, emitted : Nat]
    OBVIOUS
  <2> HIDE DEF BusInv, BusTypeOK
  <2> QED BY <1>1, <2>1, <2>2
<1>3. BusTypeOK'
  BY <1>0, <1>1, <1>2, BlobFields
<1>4. LatestIsHeld'
  <2>1. /\ last_sequence = frames[Len(frames)].sequence
        /\ frame_last_t_ns = frames[Len(frames)].t_ns
    BY <1>1 DEF LatestIsHeld
  <2>2. CASE frames' = <<>>
    <3>1. Len(frames) = 1
      BY <1>1, <2>2
    <3> QED BY <1>2, <2>1, <2>2, <3>1 DEF LatestIsHeld
  <2>3. CASE frames' # <<>>
    <3>1. Len(frames') \in 1 .. Len(frames') /\ Len(frames') + 1 = Len(frames)
      BY <1>1, <2>3
    <3>2. frames'[Len(frames')] = frames[Len(frames)]
      BY <1>1, <3>1
    <3> QED BY <1>2, <2>1, <2>3, <3>2 DEF LatestIsHeld
  <2> QED BY <2>2, <2>3
<1>5. Bus!ReplaysInOrder'
  <2>1. ASSUME NEW n \in 1 .. Len(frames')
        PROVE  /\ LET before == IF n = 1 THEN last_out' ELSE frames'[n - 1] IN
                  frames'[n].sequence > before.sequence /\ frames'[n].t_ns >= before.t_ns
               /\ frames'[n].payload = frames'[n].sent
               /\ frames'[n].mode = mode' /\ frames'[n].profile = Bus!Profile
    <3>1. n + 1 \in 1 .. Len(frames) /\ n + 1 # 1 /\ (n + 1) - 1 = n
      BY <1>1
    <3>2. frames[n + 1].sequence > frames[n].sequence /\ frames[n + 1].t_ns >= frames[n].t_ns
      BY <3>1 DEF Bus!ReplayIsFaithful, Bus!ReplaysInOrder
    <3>3. frames'[n] = frames[n + 1]
      BY <1>1
    <3>4. n # 1 => n - 1 \in 1 .. Len(frames') /\ frames'[n - 1] = frames[n]
      BY <1>1
    <3>5. /\ frames[n + 1].payload = frames[n + 1].sent
          /\ frames[n + 1].mode = mode /\ frames[n + 1].profile = Bus!Profile
      BY <3>1 DEF Bus!ReplayIsFaithful, Bus!ReplaysInOrder
    <3> QED BY <1>2, <3>2, <3>3, <3>4, <3>5
  <2> QED BY <2>1 DEF Bus!ReplaysInOrder
<1>6. Bus!DropsAreCounted'
  <2>1. counts'.taken - counts'.emitted - Len(frames')
          = counts.taken - counts.emitted - Len(frames)
    <3>1. counts.taken \in Nat /\ counts.emitted \in Nat
      OBVIOUS
    <3> HIDE DEF BusInv, BusTypeOK
    <3>2. counts'.taken = counts.taken /\ counts'.emitted = counts.emitted + 1
      BY <1>2
    <3>3. Len(frames) \in Nat /\ Len(frames') = Len(frames) - 1
      BY <1>1
    <3> QED BY <3>1, <3>2, <3>3
  <2>2. Len(frames') <= RING_CAPACITY
    BY <1>0, <1>1
  <2>3. Bus!DropsAreCounted
    BY DEF Bus!ReplayIsFaithful
  <2> HIDE DEF BusInv, BusTypeOK
  <2> QED BY <1>2, <2>1, <2>2, <2>3 DEF Bus!DropsAreCounted
<1> QED BY <1>3, <1>4, <1>5, <1>6 DEF Bus!ReplayIsFaithful

(* What a blob that is taken must be: later than the frame taken last, and *)
(* carrying what was sent, since a sum tells a damaged payload.            *)
LEMMA TakenIsGenuine ==
    ASSUME NEW b \in Bus!Encoded, Bus!Decodes(b), b.mode = mode, Bus!InReplayOrder(b)
    PROVE  /\ b \in Bus!Blob /\ b.payload = b.sent
           /\ b.mode = mode /\ b.profile = Bus!Profile
           /\ b.sequence > last_sequence /\ b.t_ns >= frame_last_t_ns
<1>1. b \in Bus!Blob /\ b.checksum = b.sent
  BY DEF Bus!Encoded
<1>2. b.checksum = b.payload /\ b.profile = Bus!Profile
  BY DEF Bus!Decodes
<1> QED BY <1>1, <1>2 DEF Bus!InReplayOrder

(* What is still in the ring once room is made for a frame.                *)
Kept == IF Len(frames) = RING_CAPACITY THEN Tail(frames) ELSE frames

(* The frames kept continue what was emitted, and the frame taken last is  *)
(* no earlier than any of them.                                            *)
LEMMA KeptContinues ==
    ASSUME BusInv
    PROVE  /\ Kept \in Seq(Bus!Blob) /\ Len(Kept) < RING_CAPACITY
           /\ Len(Kept) = Len(frames) - (IF Len(frames) = RING_CAPACITY THEN 1 ELSE 0)
           /\ \A n \in 1 .. Len(Kept) :
                 LET before == IF n = 1 THEN last_out ELSE Kept[n - 1] IN
                 Kept[n].sequence > before.sequence /\ Kept[n].t_ns >= before.t_ns
           /\ \A n \in 1 .. Len(Kept) :
                 /\ Kept[n].payload = Kept[n].sent
                 /\ Kept[n].mode = mode /\ Kept[n].profile = Bus!Profile
           /\ LET before == IF Len(Kept) = 0 THEN last_out ELSE Kept[Len(Kept)] IN
              last_sequence >= before.sequence /\ frame_last_t_ns >= before.t_ns
<1> USE DEF BusInv, BusTypeOK
<1>0. RING_CAPACITY \in Nat /\ RING_CAPACITY > 0
  BY HostParameters DEF Bus!BusAssumption
<1>1. frames \in Seq(Bus!Blob) /\ Len(frames) \in Nat
  OBVIOUS
<1>2. /\ \A n \in 1 .. Len(frames) :
             LET before == IF n = 1 THEN last_out ELSE frames[n - 1] IN
             frames[n].sequence > before.sequence /\ frames[n].t_ns >= before.t_ns
      /\ \A n \in 1 .. Len(frames) :
             /\ frames[n].payload = frames[n].sent
             /\ frames[n].mode = mode /\ frames[n].profile = Bus!Profile
  BY DEF Bus!ReplayIsFaithful, Bus!ReplaysInOrder
<1>3. CASE Len(frames) # RING_CAPACITY
  <2>1. Kept = frames
    BY <1>3 DEF Kept
  <2>2. /\ Len(frames) = 0 => frames = <<>>
        /\ Len(frames) # 0 => frames # <<>> /\ frames[Len(frames)] \in Bus!Blob
    BY <1>1
  <2>3. LET before == IF Len(frames) = 0 THEN last_out ELSE frames[Len(frames)] IN
        last_sequence >= before.sequence /\ frame_last_t_ns >= before.t_ns
    <3>1. LET before == IF Len(frames) = 0 THEN last_out ELSE frames[Len(frames)] IN
          last_sequence = before.sequence /\ frame_last_t_ns = before.t_ns
      BY <2>2 DEF LatestIsHeld
    <3> QED BY <3>1
  <2> QED BY <1>0, <1>1, <1>2, <1>3, <2>1, <2>3
<1>4. CASE Len(frames) = RING_CAPACITY
  <2>1. /\ Kept = Tail(frames) /\ frames # <<>>
        /\ Kept \in Seq(Bus!Blob) /\ Len(Kept) = Len(frames) - 1
        /\ \A n \in 1 .. Len(Kept) : Kept[n] = frames[n + 1]
    BY <1>0, <1>1, <1>4 DEF Kept
  <2>2. /\ frames[1].sequence > last_out.sequence /\ frames[1].t_ns >= last_out.t_ns
        /\ frames[1] \in Bus!Blob
        /\ \A n \in 1 .. Len(frames) : frames[n] \in Bus!Blob
    BY <1>0, <1>1, <1>2, <1>4
  <2>3. ASSUME NEW n \in 1 .. Len(Kept)
        PROVE  /\ LET before == IF n = 1 THEN last_out ELSE Kept[n - 1] IN
                  Kept[n].sequence > before.sequence /\ Kept[n].t_ns >= before.t_ns
               /\ Kept[n].payload = Kept[n].sent
               /\ Kept[n].mode = mode /\ Kept[n].profile = Bus!Profile
    <3>1. n + 1 \in 1 .. Len(frames) /\ n + 1 # 1 /\ (n + 1) - 1 = n /\ n \in 1 .. Len(frames)
      BY <1>1, <2>1
    <3>2. frames[n + 1].sequence > frames[n].sequence /\ frames[n + 1].t_ns >= frames[n].t_ns
      BY <1>2, <3>1
    <3>3. Kept[n] = frames[n + 1]
      BY <2>1
    <3>4. n # 1 => Kept[n - 1] = frames[n]
      BY <1>1, <2>1
    <3>5. /\ frames[n + 1].payload = frames[n + 1].sent
          /\ frames[n + 1].mode = mode /\ frames[n + 1].profile = Bus!Profile
      BY <1>2, <3>1
    <3>6. /\ frames[n].sequence \in Int /\ frames[n + 1].sequence \in Int
          /\ frames[n].t_ns \in Int /\ frames[n + 1].t_ns \in Int
      <4>1. frames[n] \in Bus!Blob /\ frames[n + 1] \in Bus!Blob
        BY <2>2, <3>1
      <4> HIDE DEF BusInv, BusTypeOK
      <4> QED BY <4>1, BlobFields
    <3>7. n = 1 => frames[n + 1].sequence > last_out.sequence
                     /\ frames[n + 1].t_ns >= last_out.t_ns
      <4>1. ASSUME n = 1 PROVE frames[n].sequence > last_out.sequence
                     /\ frames[n].t_ns >= last_out.t_ns
        BY <2>2, <4>1
      <4> QED BY <3>2, <3>6, <4>1
    <3> QED BY <3>2, <3>3, <3>4, <3>5, <3>7
  <2>4. LET before == IF Len(Kept) = 0 THEN last_out ELSE Kept[Len(Kept)] IN
        last_sequence >= before.sequence /\ frame_last_t_ns >= before.t_ns
    <3>1. last_sequence = frames[Len(frames)].sequence /\ frame_last_t_ns = frames[Len(frames)].t_ns
      BY <2>1 DEF LatestIsHeld
    <3>2. CASE Len(Kept) = 0
      <4>1. Len(frames) = 1
        BY <1>1, <2>1, <3>2
      <4>2. last_sequence = frames[1].sequence /\ frame_last_t_ns = frames[1].t_ns
        BY <3>1, <4>1
      <4> QED BY <2>2, <3>2, <4>2
    <3>3. CASE Len(Kept) # 0
      <4>1. Kept[Len(Kept)] = frames[Len(frames)]
        BY <1>1, <2>1, <3>3
      <4> QED BY <3>1, <3>3, <4>1
    <3> QED BY <3>2, <3>3
  <2>5. Len(Kept) = Len(frames) - 1 /\ Len(Kept) < RING_CAPACITY
    BY <1>0, <1>1, <1>4, <2>1
  <2> HIDE DEF BusInv, BusTypeOK
  <2> QED BY <1>4, <2>1, <2>3, <2>4, <2>5
<1> QED BY <1>3, <1>4

(* A frame taken goes behind them, and a full DMA ring counts its oldest.  *)
LEMMA InjectKeeps ==
    ASSUME BusInv, NEW b \in Bus!Encoded, Bus!inject_frame(b)
    PROVE  BusInv'
<1> USE DEF BusInv, BusTypeOK
<1>0. RING_CAPACITY \in Nat /\ RING_CAPACITY > 0
  BY HostParameters DEF Bus!BusAssumption
<1>1. /\ Bus!Decodes(b) /\ b.mode = mode /\ Bus!InReplayOrder(b)
      /\ frames' = Append(Kept, b)
      /\ dropped_frames' = dropped_frames + (IF Bus!CountsDrop THEN 1 ELSE 0)
      /\ last_sequence' = b.sequence /\ frame_last_t_ns' = b.t_ns
      /\ UNCHANGED <<mode, last_out>>
  BY DEF Bus!inject_frame, Kept
<1>2. /\ b \in Bus!Blob /\ b.payload = b.sent
      /\ b.mode = mode /\ b.profile = Bus!Profile
      /\ b.sequence > last_sequence /\ b.t_ns >= frame_last_t_ns
      /\ b.sequence \in Int /\ b.t_ns \in Int
  BY <1>1, TakenIsGenuine, BlobFields
<1>3. /\ counts' \in [taken : Nat, emitted : Nat]
      /\ counts'.taken = counts.taken + 1 /\ counts'.emitted = counts.emitted
  BY DEF Bus!inject_frame
<1>4. /\ frames' \in Seq(Bus!Blob) /\ Len(Kept) \in Nat /\ Len(frames') = Len(Kept) + 1
      /\ \A n \in 1 .. Len(Kept) : frames'[n] = Kept[n]
      /\ frames'[Len(Kept) + 1] = b
      /\ frames' # <<>>
  BY <1>1, <1>2, KeptContinues
<1>5. BusTypeOK'
  BY <1>0, <1>1, <1>2, <1>3, <1>4, KeptContinues
<1>6. LatestIsHeld'
  BY <1>1, <1>4 DEF LatestIsHeld
<1>7. Bus!ReplaysInOrder'
  <2>1. ASSUME NEW n \in 1 .. Len(frames')
        PROVE  /\ LET before == IF n = 1 THEN last_out' ELSE frames'[n - 1] IN
                  frames'[n].sequence > before.sequence /\ frames'[n].t_ns >= before.t_ns
               /\ frames'[n].payload = frames'[n].sent
               /\ frames'[n].mode = mode' /\ frames'[n].profile = Bus!Profile
    <3>1. CASE n <= Len(Kept)
      <4>1. n \in 1 .. Len(Kept) /\ (n # 1 => n - 1 \in 1 .. Len(Kept))
        BY <1>4, <3>1
      <4>2. frames'[n] = Kept[n] /\ (n # 1 => frames'[n - 1] = Kept[n - 1])
        BY <1>4, <4>1
      <4> QED BY <1>1, <4>1, <4>2, KeptContinues
    <3>2. CASE n > Len(Kept)
      <4>1. n = Len(Kept) + 1 /\ frames'[n] = b
        BY <1>4, <3>2
      <4> DEFINE before == IF Len(Kept) = 0 THEN last_out ELSE Kept[Len(Kept)]
      <4>2. last_sequence >= before.sequence /\ frame_last_t_ns >= before.t_ns
        BY KeptContinues
      <4>3. before.sequence \in Int /\ before.t_ns \in Int
        BY <1>4, KeptContinues, BlobFields
      <4>4. before = (IF n = 1 THEN last_out' ELSE frames'[n - 1])
        BY <1>1, <1>4, <4>1
      <4> HIDE DEF before
      <4>5. b.sequence > before.sequence /\ b.t_ns >= before.t_ns
        BY <1>2, <4>2, <4>3
      <4> QED BY <1>1, <1>2, <4>1, <4>4, <4>5
    <3> QED BY <1>4, <3>1, <3>2
  <2> QED BY <2>1 DEF Bus!ReplaysInOrder
<1>8. Bus!DropsAreCounted'
  <2> DEFINE gone == IF Len(frames) = RING_CAPACITY THEN 1 ELSE 0
  <2>1. Len(frames') = Len(frames) - gone + 1 /\ gone \in {0, 1} /\ Len(frames) \in Nat
    BY <1>4, KeptContinues
  <2>2. mode = "pcie_dma_ring" => dropped_frames' = dropped_frames + gone
    BY <1>1 DEF Bus!CountsDrop
  <2>3. mode = "udp_multicast" => dropped_frames' = dropped_frames
    BY <1>1 DEF Bus!CountsDrop
  <2>4. Len(frames') <= RING_CAPACITY
    BY <1>0, <1>4, KeptContinues
  <2> HIDE DEF gone
  <2>5. counts'.taken - counts'.emitted - Len(frames')
          = counts.taken - counts.emitted - Len(frames) + gone
    BY <1>3, <2>1
  <2>6. counts.taken - counts.emitted - Len(frames) \in Int
    BY <2>1
  <2>7. CASE mode = "pcie_dma_ring"
    <3>1. counts.taken - counts.emitted - Len(frames) = dropped_frames
      BY <2>7 DEF Bus!ReplayIsFaithful, Bus!DropsAreCounted
    <3> QED BY <1>1, <2>2, <2>4, <2>5, <2>7, <3>1 DEF Bus!DropsAreCounted
  <2>8. CASE mode = "udp_multicast"
    <3>1. counts.taken - counts.emitted - Len(frames) \in Nat /\ dropped_frames = 0
      BY <2>8 DEF Bus!ReplayIsFaithful, Bus!DropsAreCounted
    <3>2. counts'.taken - counts'.emitted - Len(frames') \in Nat
      BY <2>1, <2>5, <3>1
    <3> QED BY <1>1, <2>3, <2>4, <2>8, <3>1, <3>2 DEF Bus!DropsAreCounted
  <2> QED BY <2>7, <2>8 DEF Bus!DeliveryMode
<1> QED BY <1>5, <1>6, <1>7, <1>8 DEF Bus!ReplayIsFaithful

(* Every step of the bus keeps the replay faithful, and the host's other   *)
(* buffers do not touch it.                                                *)
LEMMA BusStep == BusInv /\ [HostNext]_hostVars => BusInv'
<1> SUFFICES ASSUME BusInv, [HostNext]_hostVars PROVE BusInv'
  OBVIOUS
<1>1. CASE UNCHANGED busVars
  BY <1>1, BindKeeps DEF busVars
<1>2. CASE Bus!BusNext
  <2>1. ASSUME NEW addr \in Bus!Endpoints, Bus!bind(addr) PROVE BusInv'
    BY <2>1, BindKeeps DEF Bus!bind
  <2>2. ASSUME NEW b \in Bus!Encoded, Bus!inject_frame(b) PROVE BusInv'
    BY <2>2, InjectKeeps
  <2>3. CASE Bus!emit_frame
    BY <2>3, EmitKeeps
  <2> QED BY <1>2, <2>1, <2>2, <2>3 DEF Bus!BusNext
<1> QED BY <1>1, <1>2 DEF HostNext, hostVars

(* The bus replays what it took in order and whole, and its DMA ring tells *)
(* every frame it dropped, for every ring size, numbering and payload.     *)
THEOREM FaithfulReplay == HostSpec => []ReplayIsFaithful
<1>1. HostInit => BusInv
  BY BusInitially DEF HostInit
<1>2. BusInv => ReplayIsFaithful
  BY DEF BusInv, ReplayIsFaithful
<1> QED BY <1>1, <1>2, BusStep, PTL DEF HostSpec

-----------------------------------------------------------------------------
(* The dispatch: whichever backend keeps the state, it is the calls'.      *)

(* Setting one field of an engine sets that field and leaves the others.   *)
Fields == {"kernel", "backend", "inner", "slots"}

LEMMA FieldSet ==
    ASSUME NEW e, Fields \subseteq DOMAIN e, NEW x, NEW y, NEW g \in Fields
    PROVE  /\ [e EXCEPT !.inner = x][g] = IF g = "inner" THEN x ELSE e[g]
           /\ [e EXCEPT !.slots = y][g] = IF g = "slots" THEN y ELSE e[g]
           /\ [e EXCEPT !.inner = x, !.slots = y][g]
                = IF g = "slots" THEN y ELSE IF g = "inner" THEN x ELSE e[g]
           /\ Fields \subseteq DOMAIN [e EXCEPT !.inner = x]
           /\ Fields \subseteq DOMAIN [e EXCEPT !.slots = y]
           /\ Fields \subseteq DOMAIN [e EXCEPT !.inner = x, !.slots = y]
BY DEF Fields

(* What a reader sees of an engine, through the adapter and through the    *)
(* helpers it inherits, is what the calls made of it.                      *)
StandsFor(e, calls) ==
    /\ Fields \subseteq DOMAIN e /\ e.backend \in {"python", "rust"}
    /\ Dispatch!State(e) = calls
    /\ e.kernel = "capacitor_bank" => Dispatch!Inherited(e) = calls
    /\ e.kernel = "udp_multicast_mock" => Dispatch!Inherited(e) = Dispatch!Binds(calls)

Extensions == {"absent", "partial", "incompatible", "importable"}

DispatchInv ==
    /\ kernel \in Dispatch!Engines \cup Dispatch!StatelessKernels
    /\ extension \in Extensions
    /\ given \in Seq({"anew", "bind", "inject", "step"})
    /\ engine # NoEngine => StandsFor(engine, given)
    /\ result.kind = "decoded" => result.of = given
    /\ result.kind = "refused" => engine # NoEngine /\ engine.backend = "rust"
    /\ result.kind = "raised" =>
          \/ cache = Unread
          \/ extension = "incompatible"
          \/ extension = "partial" /\ kernel \notin Dispatch!LifecycleEngines
                /\ kernel \notin {"spike_buffer", "udp_multicast_mock"}

(* The dispatch counts with the cardinality of finite sets.                *)
LEMMA SameCount == ASSUME NEW S PROVE Dispatch!Cardinality(S) = Cardinality(S)
BY DEF Dispatch!Cardinality, Cardinality

(* The binds among a bus's binds are all of them.                          *)
LEMMA BindsOfBinds ==
    ASSUME NEW S, NEW calls \in Seq(S)
    PROVE  Dispatch!Binds(Dispatch!Binds(calls)) = Dispatch!Binds(calls)
<1> DEFINE k == Cardinality(Dispatch!BindsAt(calls))
           binds == Dispatch!Binds(calls)
<1>1. k \in Nat
  <2>1. DOMAIN calls = 1 .. Len(calls) /\ Len(calls) \in Nat
    OBVIOUS
  <2>2. IsFiniteSet(1 .. Len(calls))
    BY <2>1, FS_Interval
  <2>3. Dispatch!BindsAt(calls) \subseteq 1 .. Len(calls)
    BY <2>1 DEF Dispatch!BindsAt
  <2>4. IsFiniteSet(Dispatch!BindsAt(calls))
    BY <2>2, <2>3, FS_Subset
  <2> QED BY <2>4, FS_CardinalityType
<1>2. binds = [n \in 1 .. k |-> "bind"]
  <2>1. Dispatch!Cardinality(Dispatch!BindsAt(calls)) = k
    BY SameCount
  <2> HIDE DEF k
  <2> QED BY <2>1 DEF Dispatch!Binds
<1> HIDE DEF binds, k
<1>3. Dispatch!BindsAt(binds) = 1 .. k
  BY <1>1, <1>2 DEF Dispatch!BindsAt
<1>4. Cardinality(1 .. k) = k
  <2>1. Cardinality(1 .. k) = IF 1 > k THEN 0 ELSE k - 1 + 1
    BY <1>1, FS_Interval
  <2> QED BY <1>1, <2>1
<1>5. Dispatch!Binds(binds) = binds
  <2>1. Dispatch!Cardinality(Dispatch!BindsAt(binds)) = k
    BY <1>3, <1>4, SameCount
  <2> QED BY <1>2, <2>1 DEF Dispatch!Binds
<1> QED BY <1>5 DEF binds

(* An engine as it is made stands for no calls.                            *)
LEMMA FreshEngine ==
    ASSUME NEW k, NEW backend \in {"python", "rust"}
    PROVE  StandsFor(Dispatch!Made(k, backend), <<>>)
<1> DEFINE e == Dispatch!Made(k, backend)
<1>1. Fields \subseteq DOMAIN e /\ e.inner = <<>> /\ e.slots = <<>> /\ e.backend = backend
  BY DEF Dispatch!Made, Fields
<1> HIDE DEF e
<1>2. StandsFor(e, <<>>)
  BY <1>1 DEF StandsFor, Dispatch!State, Dispatch!Inherited
<1> QED BY <1>2 DEF e

(* Every adapter steps what its readers read.                              *)
LEMMA CalledEngine ==
    ASSUME NEW e, NEW before, StandsFor(e, before),
           NEW calls \in Seq({"anew", "bind", "inject", "step"})
    PROVE  StandsFor(Dispatch!After(e, calls), calls)
<1> DEFINE f == Dispatch!After(e, calls)
           binds == Dispatch!Binds(calls)
<1>1. Fields \subseteq DOMAIN e /\ e.backend \in {"python", "rust"}
  BY DEF StandsFor
<1>2. Dispatch!Binds(binds) = binds
  BY BindsOfBinds
<1> HIDE DEF binds
<1>3. CASE e.backend = "python"
  <2>1. f = Dispatch!Python(e, calls)
    BY <1>3 DEF Dispatch!After
  <2>2. f = [e EXCEPT !.slots = calls]
    BY <2>1 DEF Dispatch!Python
  <2> HIDE DEF f
  <2>3. /\ Fields \subseteq DOMAIN f
        /\ f["kernel"] = e["kernel"] /\ f["backend"] = e["backend"] /\ f["slots"] = calls
    BY <1>1, <2>2, FieldSet DEF Fields
  <2>4. StandsFor(f, calls)
    BY <1>1, <1>3, <2>3 DEF StandsFor, Dispatch!State, Dispatch!Inherited
  <2> QED BY <2>4 DEF f
<1>4. CASE e.backend # "python" /\ e.kernel = "capacitor_bank"
  <2>1. f = Dispatch!RustBackedCapacitorBank(e, calls)
    BY <1>4 DEF Dispatch!After, Dispatch!KinematicEngines, Dispatch!DiagnosticEngines
  <2>2. f = [e EXCEPT !.inner = calls, !.slots = calls]
    BY <2>1 DEF Dispatch!RustBackedCapacitorBank
  <2> HIDE DEF f
  <2>3. /\ Fields \subseteq DOMAIN f
        /\ f["kernel"] = e["kernel"] /\ f["backend"] = e["backend"]
        /\ f["inner"] = calls /\ f["slots"] = calls
    BY <1>1, <2>2, FieldSet DEF Fields
  <2>4. StandsFor(f, calls)
    BY <1>1, <1>4, <2>3 DEF StandsFor, Dispatch!State, Dispatch!Inherited
  <2> QED BY <2>4 DEF f
<1>5. CASE e.backend # "python" /\ e.kernel = "udp_multicast_mock"
  <2>1. f = Dispatch!RustBackedDataBusMock(e, calls)
    BY <1>5 DEF Dispatch!After, Dispatch!KinematicEngines, Dispatch!DiagnosticEngines
  <2>2. f = [e EXCEPT !.inner = calls, !.slots = binds]
    BY <2>1 DEF Dispatch!RustBackedDataBusMock, binds
  <2> HIDE DEF f
  <2>3. /\ Fields \subseteq DOMAIN f
        /\ f["kernel"] = e["kernel"] /\ f["backend"] = e["backend"]
        /\ f["inner"] = calls /\ f["slots"] = binds
    BY <1>1, <2>2, FieldSet DEF Fields
  <2>4. Dispatch!State(f) = calls /\ Dispatch!Inherited(f) = binds
    BY <1>2, <1>5, <2>3 DEF Dispatch!State, Dispatch!Inherited
  <2>5. StandsFor(f, calls)
    BY <1>1, <1>5, <2>3, <2>4 DEF StandsFor, binds
  <2> QED BY <2>5 DEF f
<1>6. CASE e.backend # "python" /\ e.kernel \notin {"capacitor_bank", "udp_multicast_mock"}
  <2>1. \/ f = Dispatch!RustBackedKinematic(e, calls)
        \/ f = Dispatch!RustBackedDiagnostics(e, calls)
        \/ f = Dispatch!RustBackedSpikeBuffer(e, calls)
        \/ f = Dispatch!RustBackedLifecycle(e, calls)
    BY <1>6 DEF Dispatch!After
  <2> HIDE DEF f
  <2>2. f = [e EXCEPT !.inner = calls]
    BY <2>1 DEF Dispatch!RustBackedKinematic, Dispatch!RustBackedDiagnostics,
                Dispatch!RustBackedSpikeBuffer, Dispatch!RustBackedLifecycle
  <2>3. /\ Fields \subseteq DOMAIN f
        /\ f["kernel"] = e["kernel"] /\ f["backend"] = e["backend"] /\ f["inner"] = calls
    BY <1>1, <2>2, FieldSet DEF Fields
  <2>4. StandsFor(f, calls)
    BY <1>1, <1>6, <2>3 DEF StandsFor, Dispatch!State
  <2> QED BY <2>4 DEF f
<1> QED BY <1>3, <1>4, <1>5, <1>6

(* A factory names one of two backends, or raises for an extension that    *)
(* the import cannot give it.                                              *)
LEMMA ChosenBackend ==
    ASSUME NEW k \in Dispatch!Engines \cup Dispatch!StatelessKernels, NEW table,
           extension \in Extensions
    PROVE  /\ Dispatch!Chosen(k, table) \in {"rust", "python", "raised"}
           /\ Dispatch!Chosen(k, table) = "raised" =>
                 \/ extension = "incompatible"
                 \/ extension = "partial" /\ k \notin Dispatch!LifecycleEngines
                       /\ k \notin {"spike_buffer", "udp_multicast_mock"}
<1> USE DEF Extensions
<1>1. ASSUME NEW on_missing \in {"python", "raised"}, NEW j
      PROVE  /\ Dispatch!Backend(j, table, on_missing) \in {"rust", "python", "raised"}
             /\ Dispatch!Backend(j, table, on_missing) = "raised" =>
                   \/ extension = "incompatible"
                   \/ extension = "partial" /\ on_missing = "raised"
  BY DEF Dispatch!Backend, Dispatch!Adapter
<1> USE DEF Dispatch!LifecycleEngines, Dispatch!KinematicEngines, Dispatch!KinematicFunctions,
            Dispatch!DiagnosticEngines, Dispatch!Engines, Dispatch!StatelessKernels
<1>2. CASE k \in Dispatch!LifecycleEngines \cup {"merger_campaign"}
  <2>1. Dispatch!Chosen(k, table)
          = Dispatch!Backend(k, table, IF k = "merger_campaign" THEN "raised" ELSE "python")
    BY <1>2 DEF Dispatch!Chosen, Dispatch!lifecycle
  <2>2. CASE k = "merger_campaign"
    BY <1>1, <2>1, <2>2
  <2>3. CASE k # "merger_campaign"
    BY <1>1, <2>1, <2>3
  <2> QED BY <2>2, <2>3
<1>3. CASE k \in {"spike_buffer", "udp_multicast_mock"}
  <2>1. Dispatch!Chosen(k, table) = Dispatch!Backend(k, table, "python")
    BY <1>3 DEF Dispatch!Chosen, Dispatch!aer, Dispatch!daq
  <2> QED BY <1>1, <2>1
<1>4. CASE k \notin Dispatch!LifecycleEngines
             \cup {"merger_campaign", "spike_buffer", "udp_multicast_mock"}
  <2>1. Dispatch!Chosen(k, table) = Dispatch!Backend(k, table, "raised")
    BY <1>4 DEF Dispatch!Chosen, Dispatch!kinematic, Dispatch!diagnostics, Dispatch!physics
  <2>2. k \notin Dispatch!LifecycleEngines /\ k \notin {"spike_buffer", "udp_multicast_mock"}
    BY <1>4
  <2> HIDE DEF Dispatch!LifecycleEngines
  <2> QED BY <1>1, <2>1, <2>2
<1> QED BY <1>2, <1>3, <1>4

LEMMA DispatchInitially == Dispatch!DispatchInit => DispatchInv
BY DEF Dispatch!DispatchInit, DispatchInv, Extensions

(* A factory's engine is fresh, or it raised for the reason given.         *)
LEMMA FactoryKeeps == DispatchInv /\ Dispatch!dispatched => DispatchInv'
<1> SUFFICES ASSUME DispatchInv, Dispatch!dispatched PROVE DispatchInv'
  OBVIOUS
<1>1. UNCHANGED <<kernel, extension>>
  BY DEF Dispatch!dispatched
<1>2. PICK table \in Dispatch!_load :
        /\ cache' = table
        /\ LET backend == IF table = Unread THEN "raised" ELSE Dispatch!Chosen(kernel, table) IN
           /\ result' = [kind |-> backend]
           /\ IF backend = "raised" \/ kernel \in Dispatch!StatelessKernels
              THEN UNCHANGED <<engine, given>>
              ELSE engine' = Dispatch!Made(kernel, backend) /\ given' = <<>>
  BY DEF Dispatch!dispatched
<1> DEFINE backend == IF table = Unread THEN "raised" ELSE Dispatch!Chosen(kernel, table)
<1>3. /\ backend \in {"rust", "python", "raised"}
      /\ backend = "raised" =>
            \/ table = Unread
            \/ extension = "incompatible"
            \/ extension = "partial" /\ kernel \notin Dispatch!LifecycleEngines
                  /\ kernel \notin {"spike_buffer", "udp_multicast_mock"}
  BY ChosenBackend DEF DispatchInv
<1>4. /\ result' = [kind |-> backend]
      /\ \/ UNCHANGED <<engine, given>>
         \/ /\ backend # "raised"
            /\ engine' = Dispatch!Made(kernel, backend) /\ given' = <<>>
  BY <1>2
<1> HIDE DEF backend
<1>5. given' \in Seq({"anew", "bind", "inject", "step"})
  <2>1. given \in Seq({"anew", "bind", "inject", "step"})
    BY DEF DispatchInv
  <2>2. CASE given' = <<>>
    BY <2>2
  <2> QED BY <1>4, <2>1, <2>2
<1>6. engine' # NoEngine => StandsFor(engine', given')
  BY <1>3, <1>4, FreshEngine DEF DispatchInv
<1>7. result'.kind = backend
  BY <1>4
<1>8. result'.kind \notin {"decoded", "refused"}
  BY <1>3, <1>7
<1> QED BY <1>1, <1>2, <1>3, <1>5, <1>6, <1>7, <1>8 DEF DispatchInv

(* A call moves the state of whoever keeps it.                             *)
LEMMA CallKeeps == DispatchInv /\ Dispatch!call => DispatchInv'
<1> SUFFICES ASSUME DispatchInv, Dispatch!call PROVE DispatchInv'
  OBVIOUS
<1> DEFINE C == {"anew", "bind", "inject", "step"}
<1>1. /\ engine # NoEngine /\ result' = [kind |-> "called"]
      /\ UNCHANGED <<kernel, cache, extension>>
  BY DEF Dispatch!call
<1>2. PICK calls \in {Append(given, c) : c \in Dispatch!Calls(kernel)}
                       \cup (IF kernel \in Dispatch!StartedOver THEN {<<"anew">>} ELSE {}) :
        given' = calls /\ engine' = Dispatch!After(engine, calls)
  BY DEF Dispatch!call
<1>3. Dispatch!Calls(kernel) \subseteq C
  BY DEF Dispatch!Calls
<1>4. given \in Seq(C) /\ StandsFor(engine, given)
  BY <1>1 DEF DispatchInv
<1>5. calls \in Seq(C)
  <2>1. CASE calls = <<"anew">>
    BY <2>1
  <2>2. ASSUME NEW c \in Dispatch!Calls(kernel), calls = Append(given, c) PROVE calls \in Seq(C)
    <3>1. c \in C
      BY <1>3
    <3> HIDE DEF C
    <3> QED BY <1>4, <2>2, <3>1
  <2> QED BY <1>2, <2>1, <2>2
<1>6. StandsFor(engine', given')
  BY <1>2, <1>4, <1>5, CalledEngine
<1>7. result'.kind = "called"
  BY <1>1
<1> QED BY <1>1, <1>2, <1>5, <1>6, <1>7 DEF DispatchInv

(* A decode reads the state where the buffer's engine keeps it, or it is   *)
(* Python's and refuses the adapter of a Rust buffer.                      *)
LEMMA DecodeKeeps == DispatchInv /\ Dispatch!dispatched_decode_spike_features => DispatchInv'
<1> SUFFICES ASSUME DispatchInv, Dispatch!dispatched_decode_spike_features PROVE DispatchInv'
  OBVIOUS
<1> DEFINE python == Dispatch!decode_spike_features(engine)
           Same == [kind |-> "decoded", of |-> engine.inner]
<1>1. /\ engine # NoEngine /\ UNCHANGED <<kernel, extension, engine, given>>
  BY DEF Dispatch!dispatched_decode_spike_features
<1>2. \/ result' = python
      \/ result' = Same /\ engine.backend = "rust"
      \/ /\ result' = [kind |-> "raised"]
         /\ cache' = Unread \/ extension = "incompatible"
  <2>1. CASE result' = python
    BY <2>1
  <2>2. ASSUME NEW table \in Dispatch!_load, cache' = table,
               LET backend == IF table = Unread THEN "raised"
                              ELSE Dispatch!aer("decode_rate", table) IN
               result' = CASE backend = "raised" -> [kind |-> "raised"]
                           [] backend = "rust" /\ engine.backend = "rust" -> Same
                           [] OTHER -> python
        PROVE <1>2!2 \/ <1>2!3 \/ result' = python
    <3> DEFINE backend == IF table = Unread THEN "raised" ELSE Dispatch!aer("decode_rate", table)
    <3>1. backend = "raised" => table = Unread \/ extension = "incompatible"
      BY DEF Dispatch!aer, Dispatch!Backend, Dispatch!Adapter, DispatchInv, Extensions
    <3>2. result' = CASE backend = "raised" -> [kind |-> "raised"]
                      [] backend = "rust" /\ engine.backend = "rust" -> Same
                      [] OTHER -> python
      BY <2>2
    <3> HIDE DEF backend, Same, python
    <3>3. CASE backend = "raised"
      <4>1. result' = [kind |-> "raised"]
        BY <3>2, <3>3
      <4> QED BY <2>2, <3>1, <3>3, <4>1
    <3>4. CASE backend # "raised" /\ backend = "rust" /\ engine.backend = "rust"
      BY <3>2, <3>4
    <3>5. CASE backend # "raised" /\ ~(backend = "rust" /\ engine.backend = "rust")
      BY <3>2, <3>5
    <3> QED BY <3>3, <3>4, <3>5
  <2> QED BY <2>1, <2>2 DEF Dispatch!dispatched_decode_spike_features
<1>3. Dispatch!State(engine) = given
  BY <1>1 DEF DispatchInv, StandsFor
<1>4. CASE result' = python
  <2>1. CASE engine.backend = "python"
    <3>1. result'.kind = "decoded" /\ result'.of = engine.slots
      BY <1>4, <2>1 DEF Dispatch!decode_spike_features
    <3>2. engine.slots = given
      BY <1>3, <2>1 DEF Dispatch!State
    <3> QED BY <1>1, <3>1, <3>2 DEF DispatchInv
  <2>2. CASE engine.backend # "python"
    <3>1. result'.kind = "refused"
      BY <1>4, <2>2 DEF Dispatch!decode_spike_features
    <3>2. engine.backend = "rust"
      BY <1>1, <2>2 DEF DispatchInv, StandsFor
    <3> QED BY <1>1, <3>1, <3>2 DEF DispatchInv
  <2> QED BY <2>1, <2>2
<1>5. CASE result' = Same /\ engine.backend = "rust"
  <2>1. result'.kind = "decoded" /\ result'.of = engine.inner
    BY <1>5
  <2>2. engine.inner = given
    BY <1>3, <1>5 DEF Dispatch!State
  <2> QED BY <1>1, <2>1, <2>2 DEF DispatchInv
<1>6. CASE result' = [kind |-> "raised"] /\ (cache' = Unread \/ extension = "incompatible")
  <2>1. result'.kind = "raised"
    BY <1>6
  <2> QED BY <1>1, <1>6, <2>1 DEF DispatchInv
<1> QED BY <1>2, <1>4, <1>5, <1>6

(* Every step of the dispatch, reloads and rewrites of the table included. *)
LEMMA DispatchStep == DispatchInv /\ [HostNext]_hostVars => DispatchInv'
<1> SUFFICES ASSUME DispatchInv, [HostNext]_hostVars PROVE DispatchInv'
  OBVIOUS
<1>1. CASE UNCHANGED dispatchVars
  BY <1>1 DEF dispatchVars, DispatchInv
<1>2. CASE Dispatch!DispatchNext
  <2>1. CASE Dispatch!reload
    BY <2>1 DEF Dispatch!reload, DispatchInv
  <2>2. CASE Dispatch!rewrite_dispatch
    BY <2>2 DEF Dispatch!rewrite_dispatch, DispatchInv
  <2> QED BY <1>2, <2>1, <2>2, FactoryKeeps, CallKeeps, DecodeKeeps DEF Dispatch!DispatchNext
<1> QED BY <1>1, <1>2 DEF HostNext, hostVars

(* No backend loses or mixes up the state of an engine, and a decode that  *)
(* gives features gives the buffer's, for every kernel, table and build of *)
(* the extension and any number of calls.                                  *)
THEOREM DispatchKeeps == HostSpec => []DispatchKeepsState
<1>1. HostInit => DispatchInv
  BY DispatchInitially DEF HostInit
<1>2. DispatchInv => DispatchKeepsState
  BY DEF DispatchInv, StandsFor, DispatchKeepsState, Dispatch!DispatchKeepsState
<1> QED BY <1>1, <1>2, DispatchStep, PTL DEF HostSpec

(***************************************************************************)
(* The spike ring.  Its window is filtered event after event, so that what *)
(* a decoder sees is a claim about every prefix of the ring.  The least    *)
(* natural number outside a set of natural numbers serves for induction.   *)
(***************************************************************************)
LEMMA LeastNatural ==
    ASSUME NEW S \in SUBSET Nat, S # {}
    PROVE  \E n \in S : \A m \in S : ~ (m < n)
<1> DEFINE Less == OpToRel(<, Nat)
<1>1. IsWellFoundedOn(Less, Nat)
    BY NatLessThanWellFounded
<1>2. \A m, n \in Nat : <<m, n>> \in Less <=> m < n
    BY DEF OpToRel
<1> HIDE DEF Less
<1>3. \E n \in S : \A m \in S : ~ (<<m, n>> \in Less)
    BY <1>1, WFMin
<1> QED
    BY <1>2, <1>3

LEMMA NaturalSet ==
    ASSUME NEW S, 0 \in S, \A n \in Nat : n \in S => n + 1 \in S
    PROVE  \A n \in Nat : n \in S
<1> DEFINE Rest == {n \in Nat : n \notin S}
<1> SUFFICES ASSUME Rest # {} PROVE FALSE
    OBVIOUS
<1>1. PICK n \in Rest : \A m \in Rest : ~ (m < n)
    BY LeastNatural
<1>2. n # 0 /\ n - 1 \in Nat /\ n - 1 < n
    BY <1>1
<1>3. n - 1 \in S
    BY <1>1, <1>2
<1> QED
    BY <1>1, <1>2, <1>3

LEMMA LastIsMax ==
    ASSUME NEW n \in Nat, NEW s \in SUBSET (1 .. n), n \in s
    PROVE  Spike!Max(s) = n
<1>1. n \in s /\ \A y \in s : n >= y
    OBVIOUS
<1>2. \A x \in s : (\A y \in s : x >= y) => x = n
    OBVIOUS
<1> QED
    BY <1>1, <1>2 DEF Spike!Max

Windowed(e, begin, window) == begin <= e.t_ns /\ e.t_ns < begin + window

Keep(inside, e, begin, window) ==
    IF Windowed(e, begin, window) THEN Append(inside, e) ELSE inside

(* FoldLeft recurses over the sets of positions, the largest first: the    *)
(* equation it stands for on the positions up to n has a solution.         *)
SolvesFilter(f, seq, begin, window, n) ==
    f = [s \in SUBSET (1 .. n) |->
            IF s = {} THEN <<>>
            ELSE Keep(f[s \ {Spike!Max(s)}], seq[Spike!Max(s)], begin, window)]

LEMMA FilterGrows ==
    ASSUME NEW seq, NEW begin, NEW window, NEW n \in Nat,
           NEW f, SolvesFilter(f, seq, begin, window, n)
    PROVE  \E h : SolvesFilter(h, seq, begin, window, n + 1)
<1> DEFINE h == [s \in SUBSET (1 .. n + 1) |->
                    IF n + 1 \in s THEN Keep(f[s \ {n + 1}], seq[n + 1], begin, window)
                    ELSE f[s]]
           entry(s) == IF s = {} THEN <<>>
                       ELSE Keep(h[s \ {Spike!Max(s)}], seq[Spike!Max(s)], begin, window)
<1>1. \A s \in SUBSET (1 .. n) :
         f[s] = IF s = {} THEN <<>>
                ELSE Keep(f[s \ {Spike!Max(s)}], seq[Spike!Max(s)], begin, window)
    BY DEF SolvesFilter
<1>2. \A s \in SUBSET (1 .. n) : s \in SUBSET (1 .. n + 1) /\ n + 1 \notin s
    OBVIOUS
<1>3. \A s \in SUBSET (1 .. n) : h[s] = f[s]
    BY <1>2
<1>4. \A s \in SUBSET (1 .. n + 1) :
         n + 1 \in s => h[s] = Keep(f[s \ {n + 1}], seq[n + 1], begin, window)
    OBVIOUS
<1>5. h = [s \in SUBSET (1 .. n + 1) |-> h[s]]
    OBVIOUS
<1> HIDE DEF h
<1>6. ASSUME NEW s \in SUBSET (1 .. n + 1) PROVE h[s] = entry(s)
    <2>1. CASE n + 1 \in s
        <3>1. Spike!Max(s) = n + 1
            BY <2>1, LastIsMax
        <3>2. s \ {n + 1} \in SUBSET (1 .. n) /\ s # {}
            BY <2>1
        <3>3. h[s \ {n + 1}] = f[s \ {n + 1}]
            BY <1>3, <3>2
        <3> QED
            BY <1>4, <2>1, <3>1, <3>2, <3>3
    <2>2. CASE n + 1 \notin s
        <3>1. s \in SUBSET (1 .. n)
            BY <2>2
        <3>2. \A x : s \ {x} \in SUBSET (1 .. n)
            BY <3>1
        <3>3. \A x : h[s \ {x}] = f[s \ {x}]
            BY <1>3, <3>2
        <3> QED
            BY <1>1, <1>3, <3>1, <3>3
    <2> QED
        BY <2>1, <2>2
<1>7. h = [s \in SUBSET (1 .. n + 1) |-> entry(s)]
    BY <1>5, <1>6
<1> QED
    BY <1>7 DEF SolvesFilter

LEMMA FilterHasSolution ==
    ASSUME NEW seq, NEW begin, NEW window, NEW n \in Nat
    PROVE  \E f : SolvesFilter(f, seq, begin, window, n)
<1> DEFINE S == {k \in Nat : \E f : SolvesFilter(f, seq, begin, window, k)}
<1>1. 0 \in S
    <2> DEFINE f == [s \in SUBSET (1 .. 0) |-> <<>>]
    <2>1. \A s \in SUBSET (1 .. 0) : s = {}
        OBVIOUS
    <2>2. SolvesFilter(f, seq, begin, window, 0)
        BY <2>1 DEF SolvesFilter
    <2> QED
        BY <2>2
<1>2. \A k \in Nat : k \in S => k + 1 \in S
    BY FilterGrows
<1> HIDE DEF S
<1>3. n \in S
    BY <1>1, <1>2, NaturalSet
<1> QED
    BY <1>3 DEF S

(* So a window takes its events one after the other.                       *)
Filters(g, seq, begin, window, n) ==
    /\ g[0] = <<>> /\ g[n] = Spike!InWindow(seq, begin, window)
    /\ \A k \in 1 .. n : g[k] = Keep(g[k - 1], seq[k], begin, window)

LEMMA EventAfterEvent ==
    ASSUME NEW seq, NEW n \in Nat, DOMAIN seq = 1 .. n, NEW begin, NEW window
    PROVE  \E g : Filters(g, seq, begin, window, n)
<1> DEFINE it == CHOOSE f : SolvesFilter(f, seq, begin, window, n)
           g == [k \in 0 .. n |-> it[1 .. k]]
<1>1. Spike!InWindow(seq, begin, window) = it[1 .. n]
    BY DEF Spike!InWindow, Spike!FoldLeft, Spike!MapThenFoldSet, SolvesFilter, Keep, Windowed
<1>2. SolvesFilter(it, seq, begin, window, n)
    BY FilterHasSolution
<1> HIDE DEF it
<1>3. \A s \in SUBSET (1 .. n) :
         it[s] = IF s = {} THEN <<>>
                 ELSE Keep(it[s \ {Spike!Max(s)}], seq[Spike!Max(s)], begin, window)
    BY <1>2 DEF SolvesFilter
<1>4. g[0] = <<>>
    <2>1. 1 .. 0 \in SUBSET (1 .. n) /\ 1 .. 0 = {} /\ g[0] = it[1 .. 0]
        OBVIOUS
    <2> QED
        BY <1>3, <2>1
<1>5. ASSUME NEW k \in 1 .. n PROVE g[k] = Keep(g[k - 1], seq[k], begin, window)
    <2>1. 1 .. k \in SUBSET (1 .. n) /\ 1 .. k # {} /\ k \in 1 .. k /\ k \in Nat
        OBVIOUS
    <2>2. Spike!Max(1 .. k) = k
        BY <2>1, LastIsMax
    <2>3. (1 .. k) \ {k} = 1 .. (k - 1) /\ k - 1 \in 0 .. n
        OBVIOUS
    <2>4. g[k] = it[1 .. k] /\ g[k - 1] = it[1 .. (k - 1)]
        BY <2>1, <2>3
    <2> HIDE DEF g
    <2>5. it[1 .. k] = Keep(it[1 .. (k - 1)], seq[k], begin, window)
        BY <1>3, <2>1, <2>2, <2>3
    <2> QED
        BY <2>4, <2>5
<1>6. g[n] = Spike!InWindow(seq, begin, window)
    BY <1>1
<1> HIDE DEF g
<1> QED
    BY <1>4, <1>5, <1>6 DEF Filters

(* Dropping events that are not in the window changes nothing in it.       *)
LEMMA LostOutsideIsUnseen ==
    ASSUME NEW S, NEW p \in Seq(S), NEW q \in Seq(S), Len(q) <= Len(p),
           \A k \in 1 .. Len(q) : q[k] = p[Len(p) - Len(q) + k],
           NEW begin, NEW window,
           \A m \in 1 .. Len(p) - Len(q) : ~Windowed(p[m], begin, window)
    PROVE  Spike!InWindow(q, begin, window) = Spike!InWindow(p, begin, window)
<1> DEFINE lost == Len(p) - Len(q)
<1>1. lost \in Nat /\ Len(p) \in Nat /\ Len(q) \in Nat /\ lost + Len(q) = Len(p)
      /\ DOMAIN p = 1 .. Len(p) /\ DOMAIN q = 1 .. Len(q)
    OBVIOUS
<1>2. PICK g : Filters(g, p, begin, window, Len(p))
    BY <1>1, EventAfterEvent
<1>3. PICK h : Filters(h, q, begin, window, Len(q))
    BY <1>1, EventAfterEvent
<1>4. g[lost] = <<>>
    <2> DEFINE T == {k \in Nat : k <= lost => g[k] = <<>>}
    <2>1. 0 \in T
        BY <1>2 DEF Filters
    <2>2. ASSUME NEW k \in Nat, k \in T PROVE k + 1 \in T
        <3> SUFFICES ASSUME k + 1 <= lost PROVE g[k + 1] = <<>>
            OBVIOUS
        <3>1. k <= lost /\ k + 1 \in 1 .. Len(p) /\ k + 1 \in 1 .. lost /\ (k + 1) - 1 = k
            BY <1>1
        <3>2. g[k + 1] = Keep(g[k], p[k + 1], begin, window)
            BY <1>2, <3>1 DEF Filters
        <3> QED
            BY <2>2, <3>1, <3>2 DEF Keep
    <2> HIDE DEF T
    <2>3. lost \in T
        BY <1>1, <2>1, <2>2, NaturalSet
    <2> QED
        BY <1>1, <2>3 DEF T
<1>5. g[lost + Len(q)] = h[Len(q)]
    <2> DEFINE T == {k \in Nat : k <= Len(q) => g[lost + k] = h[k]}
    <2>1. 0 \in T
        BY <1>1, <1>3, <1>4 DEF Filters
    <2>2. ASSUME NEW k \in Nat, k \in T PROVE k + 1 \in T
        <3> SUFFICES ASSUME k + 1 <= Len(q) PROVE g[lost + (k + 1)] = h[k + 1]
            OBVIOUS
        <3>1. k <= Len(q) /\ k + 1 \in 1 .. Len(q) /\ (k + 1) - 1 = k
              /\ lost + (k + 1) \in 1 .. Len(p) /\ (lost + (k + 1)) - 1 = lost + k
            BY <1>1
        <3>2. h[k + 1] = Keep(h[k], q[k + 1], begin, window)
            BY <1>3, <3>1 DEF Filters
        <3>3. g[lost + (k + 1)] = Keep(g[lost + k], p[lost + (k + 1)], begin, window)
            BY <1>2, <3>1 DEF Filters
        <3>4. g[lost + k] = h[k] /\ q[k + 1] = p[lost + (k + 1)]
            BY <2>2, <3>1
        <3> QED
            BY <3>2, <3>3, <3>4
    <2> HIDE DEF T
    <2>3. Len(q) \in T
        BY <1>1, <2>1, <2>2, NaturalSet
    <2> QED
        BY <1>1, <2>3 DEF T
<1> QED
    BY <1>1, <1>2, <1>3, <1>5 DEF Filters

(* A window holds events of the sequence, and the first one if that is in  *)
(* the window.                                                             *)
LEMMA WindowHoldsEvents ==
    ASSUME NEW S, NEW seq \in Seq(S), NEW begin, NEW window
    PROVE  LET inside == Spike!InWindow(seq, begin, window)
           IN  /\ inside \in Seq(S)
               /\ \A j \in 1 .. Len(inside) : \E m \in 1 .. Len(seq) : inside[j] = seq[m]
               /\ Len(seq) > 0 /\ Windowed(seq[1], begin, window) => Len(inside) > 0
<1>1. Len(seq) \in Nat /\ DOMAIN seq = 1 .. Len(seq)
    OBVIOUS
<1>2. PICK g : Filters(g, seq, begin, window, Len(seq))
    BY <1>1, EventAfterEvent
<1> DEFINE Holds(s) == /\ s \in Seq(S)
                       /\ \A j \in 1 .. Len(s) : \E m \in 1 .. Len(seq) : s[j] = seq[m]
           T == {k \in Nat : k <= Len(seq) =>
                    /\ Holds(g[k])
                    /\ k > 0 /\ Windowed(seq[1], begin, window) => Len(g[k]) > 0}
<1>3. 0 \in T
    <2>1. <<>> \in Seq(S) /\ \A j : j \notin 1 .. Len(<<>>)
        OBVIOUS
    <2>2. Holds(<<>>)
        BY <2>1
    <2> HIDE DEF Holds
    <2> QED
        BY <1>2, <2>2 DEF Filters
<1>4. ASSUME NEW k \in Nat, k \in T PROVE k + 1 \in T
    <2> SUFFICES ASSUME k + 1 <= Len(seq)
                 PROVE  /\ Holds(g[k + 1])
                        /\ Windowed(seq[1], begin, window) => Len(g[k + 1]) > 0
        OBVIOUS
    <2>1. k <= Len(seq) /\ k + 1 \in 1 .. Len(seq) /\ (k + 1) - 1 = k
        BY <1>1
    <2>2. g[k + 1] = Keep(g[k], seq[k + 1], begin, window)
        BY <1>2, <2>1 DEF Filters
    <2>3. Holds(g[k]) /\ (k > 0 /\ Windowed(seq[1], begin, window) => Len(g[k]) > 0)
        BY <1>4, <2>1
    <2>4. g[k] \in Seq(S) /\ seq[k + 1] \in S
        BY <2>1, <2>3
    <2>5. CASE ~Windowed(seq[k + 1], begin, window)
        <3>1. g[k + 1] = g[k]
            BY <2>2, <2>5 DEF Keep
        <3>2. Windowed(seq[1], begin, window) => k > 0
            BY <2>5
        <3> QED
            BY <2>3, <3>1, <3>2
    <2>6. CASE Windowed(seq[k + 1], begin, window)
        <3>1. g[k + 1] = Append(g[k], seq[k + 1])
            BY <2>2, <2>6 DEF Keep
        <3>2. g[k + 1] \in Seq(S) /\ Len(g[k + 1]) = Len(g[k]) + 1 /\ Len(g[k]) \in Nat
            BY <2>4, <3>1
        <3>3. ASSUME NEW j \in 1 .. Len(g[k + 1])
              PROVE  \E m \in 1 .. Len(seq) : g[k + 1][j] = seq[m]
            <4>1. CASE j \in 1 .. Len(g[k])
                <5>1. g[k + 1][j] = g[k][j]
                    BY <2>4, <3>1, <4>1
                <5> QED
                    BY <2>3, <4>1, <5>1
            <4>2. CASE j = Len(g[k]) + 1
                <5>1. g[k + 1][j] = seq[k + 1]
                    BY <2>4, <3>1, <4>2
                <5> QED
                    BY <2>1, <5>1
            <4> QED
                BY <3>2, <4>1, <4>2
        <3>4. Len(g[k + 1]) > 0
            BY <3>2
        <3> QED
            BY <3>2, <3>3, <3>4
    <2> QED
        BY <2>5, <2>6
<1> HIDE DEF T
<1>5. Len(seq) \in T
    BY <1>1, <1>3, <1>4, NaturalSet
<1> QED
    BY <1>1, <1>2, <1>5 DEF T, Filters

(* The largest of finitely many numbers.                                   *)
LEMMA LargestOf ==
    ASSUME NEW f, NEW n \in Nat, n > 0, \A k \in 1 .. n : f[k] \in Nat
    PROVE  \E m \in 1 .. n : \A k \in 1 .. n : f[k] <= f[m]
<1> DEFINE T == {k \in Nat : k < n =>
                    \E m \in 1 .. k + 1 : \A l \in 1 .. k + 1 : f[l] <= f[m]}
<1>1. 0 \in T
    <2>1. 1 \in 1 .. 0 + 1 /\ \A l \in 1 .. 0 + 1 : l = 1
        OBVIOUS
    <2>2. f[1] \in Nat
        OBVIOUS
    <2>3. f[1] <= f[1]
        BY <2>2
    <2> QED
        BY <2>1, <2>3
<1>2. ASSUME NEW k \in Nat, k \in T PROVE k + 1 \in T
    <2> SUFFICES ASSUME k + 1 < n
                 PROVE  \E m \in 1 .. k + 2 : \A l \in 1 .. k + 2 : f[l] <= f[m]
        OBVIOUS
    <2>1. PICK m \in 1 .. k + 1 : \A l \in 1 .. k + 1 : f[l] <= f[m]
        BY <1>2
    <2>2. m \in 1 .. k + 2 /\ m \in 1 .. n /\ k + 2 \in 1 .. n /\ k + 2 \in 1 .. k + 2
        OBVIOUS
    <2>3. f[m] \in Nat /\ f[k + 2] \in Nat /\ \A l \in 1 .. k + 1 : f[l] \in Nat
        BY <2>2
    <2>4. \A l \in 1 .. k + 2 : l \in 1 .. k + 1 \/ l = k + 2
        OBVIOUS
    <2>5. CASE f[k + 2] <= f[m]
        <3>1. \A l \in 1 .. k + 2 : f[l] <= f[m]
            BY <2>1, <2>4, <2>5
        <3> QED
            BY <2>2, <3>1
    <2>6. CASE f[m] <= f[k + 2]
        <3>1. \A l \in 1 .. k + 1 : f[l] <= f[k + 2]
            BY <2>1, <2>3, <2>6
        <3>2. \A l \in 1 .. k + 2 : f[l] <= f[k + 2]
            BY <2>3, <2>4, <3>1
        <3> QED
            BY <2>2, <3>2
    <2> QED
        BY <2>3, <2>5, <2>6
<1> HIDE DEF T
<1>3. n - 1 \in T
    BY <1>1, <1>2, NaturalSet
<1> QED
    BY <1>3 DEF T

RingTypeOK ==
    /\ ring \in Seq(Spike!AERSpikeEvent) /\ pushed \in Seq(Spike!AERSpikeEvent)
    /\ spike_last_t_ns \in Int
    /\ spike_accepted \in Nat /\ evicted \in Nat /\ inherited \in Int
    /\ forgotten \in Nat /\ spike_high_watermark \in Nat /\ overflowed \in BOOLEAN

(* The ring is the end of what was pushed.                                 *)
RingIsTheEnd ==
    /\ Len(ring) <= Len(pushed)
    /\ \A k \in 1 .. Len(ring) : ring[k] = pushed[Len(pushed) - Len(ring) + k]

(* What was pushed is in the order of time, up to the last time stamp.     *)
PushedInOrder ==
    /\ \A k \in 1 .. Len(pushed) : pushed[k].t_ns <= spike_last_t_ns
    /\ \A k, m \in 1 .. Len(pushed) : k <= m => pushed[k].t_ns <= pushed[m].t_ns

RingInv == RingTypeOK /\ RingIsTheEnd /\ PushedInOrder /\ Spike!EvictionsAreCounted

LEMMA SpikeConstants ==
    CAPACITY \in Nat /\ CAPACITY > 0 /\ SPIKE_MAX \in Nat /\ Addresses \subseteq Nat
    BY HostParameters DEF Spike!SpikeAssumption

LEMMA EventFields ==
    ASSUME NEW e \in Spike!AERSpikeEvent
    PROVE  e.t_ns \in Nat /\ e.address \in Nat
<1>1. e.t_ns \in 0 .. SPIKE_MAX /\ e.address \in Addresses
    BY DEF Spike!AERSpikeEvent
<1>2. SPIKE_MAX \in Nat /\ Addresses \subseteq Nat
    BY SpikeConstants
<1>3. e.t_ns \in Nat
    BY <1>1, <1>2
<1>4. e.address \in Nat
    BY <1>1, <1>2
<1> QED
    BY <1>3, <1>4

LEMMA LargerOfTwo ==
    ASSUME NEW a \in Int, NEW b \in Int
    PROVE  /\ Spike!Max({a, b}) \in {a, b}
           /\ a <= Spike!Max({a, b}) /\ b <= Spike!Max({a, b})
<1>1. \E x \in {a, b} : \A y \in {a, b} : x >= y
    OBVIOUS
<1> QED
    BY <1>1 DEF Spike!Max

LEMMA RingInitially == Spike!SpikeInit => RingInv
<1> SUFFICES ASSUME Spike!SpikeInit PROVE RingInv
    OBVIOUS
<1>1. /\ ring = <<>> /\ pushed = <<>> /\ spike_last_t_ns = -1
      /\ spike_accepted = 0 /\ evicted = 0 /\ inherited = 0 /\ forgotten = 0
      /\ spike_high_watermark = 0 /\ overflowed = FALSE
    BY DEF Spike!SpikeInit
<1>2. <<>> \in Seq(Spike!AERSpikeEvent) /\ Len(<<>>) = 0
    OBVIOUS
<1>3. RingTypeOK
    <2>1. ring \in Seq(Spike!AERSpikeEvent) /\ pushed \in Seq(Spike!AERSpikeEvent)
        BY <1>1, <1>2
    <2>2. spike_last_t_ns \in Int /\ inherited \in Int /\ forgotten \in Nat
        BY <1>1
    <2>4. overflowed \in BOOLEAN
        BY <1>1
    <2>3. spike_accepted \in Nat /\ evicted \in Nat /\ spike_high_watermark \in Nat
        BY <1>1
    <2> QED
        BY <2>1, <2>2, <2>3, <2>4 DEF RingTypeOK
<1>4. RingIsTheEnd /\ PushedInOrder
    BY <1>1, <1>2 DEF RingIsTheEnd, PushedInOrder
<1>5. Spike!EvictionsAreCounted
    BY <1>1, <1>2, SpikeConstants DEF Spike!EvictionsAreCounted
<1> QED
    BY <1>3, <1>4, <1>5 DEF RingInv

LEMMA PushKeepsRing ==
    ASSUME RingInv, NEW e \in Spike!AERSpikeEvent, Spike!PushAccepted(e)
    PROVE  RingInv'
<1>1. /\ e.t_ns >= spike_last_t_ns
      /\ evicted' = evicted + (IF Len(ring) = CAPACITY THEN 1 ELSE 0)
      /\ overflowed' = (overflowed \/ Len(ring) = CAPACITY)
      /\ ring' = IF Len(ring) < CAPACITY THEN Append(ring, e) ELSE Append(Tail(ring), e)
      /\ spike_last_t_ns' = e.t_ns
      /\ spike_accepted' = spike_accepted + 1
      /\ spike_high_watermark' = Spike!Max({spike_high_watermark, Len(ring')})
      /\ pushed' = Append(pushed, e)
      /\ inherited' = inherited /\ forgotten' = forgotten
    BY DEF Spike!PushAccepted, Spike!Evicts, Spike!RingAppend
<1>2. /\ ring \in Seq(Spike!AERSpikeEvent) /\ pushed \in Seq(Spike!AERSpikeEvent)
      /\ spike_last_t_ns \in Int
      /\ spike_accepted \in Nat /\ evicted \in Nat /\ inherited \in Int /\ forgotten \in Nat
      /\ spike_high_watermark \in Nat /\ overflowed \in BOOLEAN
    BY DEF RingInv, RingTypeOK
<1>3. /\ inherited + spike_accepted - evicted = Len(ring)
      /\ overflowed <=> evicted > 0
      /\ forgotten <= Len(pushed) - Len(ring)
      /\ Len(pushed) - Len(ring) <= forgotten + evicted
      /\ Len(ring) <= spike_high_watermark /\ spike_high_watermark <= CAPACITY
    BY DEF RingInv, Spike!EvictionsAreCounted
<1>4. CAPACITY \in Nat /\ CAPACITY > 0 /\ Len(ring) \in Nat /\ Len(ring) <= CAPACITY
    BY <1>2, <1>3, SpikeConstants
<1>5. /\ pushed' \in Seq(Spike!AERSpikeEvent) /\ Len(pushed') = Len(pushed) + 1
      /\ Len(pushed) \in Nat
      /\ \A k \in 1 .. Len(pushed) : pushed'[k] = pushed[k]
      /\ pushed'[Len(pushed) + 1] = e
    BY <1>1, <1>2
<1> DEFINE gone == IF Len(ring) < CAPACITY THEN 0 ELSE 1
<1>6. /\ ring' \in Seq(Spike!AERSpikeEvent) /\ Len(ring') = Len(ring) + 1 - gone
      /\ \A k \in 1 .. Len(ring) - gone : ring'[k] = ring[k + gone]
      /\ ring'[Len(ring')] = e
    <2>1. CASE Len(ring) < CAPACITY
        <3>1. ring' = Append(ring, e) /\ gone = 0
            BY <1>1, <2>1
        <3>2. ring' \in Seq(Spike!AERSpikeEvent) /\ Len(ring') = Len(ring) + 1
              /\ ring'[Len(ring) + 1] = e /\ \A k \in 1 .. Len(ring) : ring'[k] = ring[k]
            BY <1>2, <3>1
        <3>3. \A k \in 1 .. Len(ring) : k + 0 = k
            OBVIOUS
        <3> QED
            BY <1>4, <3>1, <3>2, <3>3
    <2>2. CASE ~(Len(ring) < CAPACITY)
        <3> DEFINE rest == Tail(ring)
        <3>1. ring' = Append(rest, e) /\ gone = 1
            BY <1>1, <2>2
        <3>2. ring # <<>>
            BY <1>4, <2>2
        <3>3. rest \in Seq(Spike!AERSpikeEvent) /\ Len(rest) = Len(ring) - 1
              /\ \A k \in 1 .. Len(ring) - 1 : rest[k] = ring[k + 1]
            BY <1>2, <3>2
        <3> HIDE DEF rest
        <3>4. ring' \in Seq(Spike!AERSpikeEvent) /\ Len(ring') = Len(rest) + 1
              /\ ring'[Len(rest) + 1] = e /\ \A k \in 1 .. Len(rest) : ring'[k] = rest[k]
            BY <3>1, <3>3
        <3> QED
            BY <1>4, <3>1, <3>3, <3>4
    <2> QED
        BY <2>1, <2>2
<1>7. gone \in {0, 1} /\ (gone = 1 <=> Len(ring) = CAPACITY) /\ Len(ring) - gone \in Nat
    BY <1>4
<1> HIDE DEF gone
<1>8. Len(ring') \in Nat /\ Len(ring') <= CAPACITY
    BY <1>4, <1>6, <1>7 DEF gone
<1>13. /\ spike_high_watermark' \in {spike_high_watermark, Len(ring')}
       /\ Len(ring') <= spike_high_watermark'
    <2>1. spike_high_watermark \in Int /\ Len(ring') \in Int
        BY <1>2, <1>8
    <2>2. spike_high_watermark' = Spike!Max({spike_high_watermark, Len(ring')})
        BY <1>1
    <2> HIDE DEF Spike!Max
    <2> QED
        BY <2>1, <2>2, LargerOfTwo
<1>9. RingTypeOK'
    <2>1. spike_last_t_ns' \in Int
        BY <1>1, EventFields
    <2>2. spike_accepted' \in Nat /\ evicted' \in Nat /\ inherited' \in Int /\ forgotten' \in Nat
          /\ overflowed' \in BOOLEAN
        BY <1>1, <1>2
    <2>3. spike_high_watermark' \in Nat
        BY <1>2, <1>8, <1>13
    <2> QED
        BY <1>5, <1>6, <2>1, <2>2, <2>3 DEF RingTypeOK
<1>10. RingIsTheEnd'
    <2>1. Len(ring) <= Len(pushed)
          /\ \A k \in 1 .. Len(ring) : ring[k] = pushed[Len(pushed) - Len(ring) + k]
        BY DEF RingInv, RingIsTheEnd
    <2>2. Len(ring') <= Len(pushed')
        BY <1>4, <1>5, <1>6, <1>7, <2>1
    <2>3. ASSUME NEW k \in 1 .. Len(ring')
          PROVE  ring'[k] = pushed'[Len(pushed') - Len(ring') + k]
        <3>1. Len(pushed') - Len(ring') = Len(pushed) - Len(ring) + gone
            BY <1>4, <1>5, <1>6, <1>7
        <3>2. CASE k = Len(ring')
            BY <1>5, <1>6, <1>8, <3>2
        <3>3. CASE k < Len(ring')
            <4>1. k \in 1 .. Len(ring) - gone /\ k + gone \in 1 .. Len(ring)
                BY <1>4, <1>6, <1>7, <1>8, <3>3
            <4>2. ring'[k] = pushed[Len(pushed) - Len(ring) + (k + gone)]
                BY <1>6, <2>1, <4>1
            <4>3. Len(pushed) \in Nat /\ Len(ring) \in Nat /\ gone \in Nat /\ k \in Nat
                  /\ Len(ring) <= Len(pushed)
                BY <1>4, <1>5, <1>7, <2>1, <4>1
            <4>4. Len(pushed) - Len(ring) + (k + gone) \in 1 .. Len(pushed)
                BY <4>1, <4>3
            <4>5. Len(pushed) - Len(ring) + (k + gone) = (Len(pushed) - Len(ring) + gone) + k
                BY <4>3
            <4> QED
                BY <1>5, <3>1, <4>2, <4>4, <4>5
        <3> QED
            BY <1>8, <3>2, <3>3
    <2> QED
        BY <2>2, <2>3 DEF RingIsTheEnd
<1>11. PushedInOrder'
    <2>1. /\ \A k \in 1 .. Len(pushed) : pushed[k].t_ns <= spike_last_t_ns
          /\ \A k, m \in 1 .. Len(pushed) : k <= m => pushed[k].t_ns <= pushed[m].t_ns
        BY DEF RingInv, PushedInOrder
    <2>2. \A k \in 1 .. Len(pushed) : pushed[k] \in Spike!AERSpikeEvent
        BY <1>2
    <2>3. \A k \in 1 .. Len(pushed) : pushed[k].t_ns \in Nat
        BY <2>2, EventFields
    <2>4. e.t_ns \in Nat
        BY EventFields
    <2>5. \A k \in 1 .. Len(pushed) : pushed[k].t_ns <= e.t_ns
        BY <1>1, <1>2, <2>1, <2>3, <2>4
    <2>6. \A k \in 1 .. Len(pushed') : k \in 1 .. Len(pushed) \/ k = Len(pushed) + 1
        BY <1>5
    <2>7. \A k \in 1 .. Len(pushed') : pushed'[k].t_ns <= spike_last_t_ns'
        BY <1>1, <1>5, <2>4, <2>5, <2>6
    <2>8. ASSUME NEW k \in 1 .. Len(pushed'), NEW m \in 1 .. Len(pushed'), k <= m
          PROVE  pushed'[k].t_ns <= pushed'[m].t_ns
        <3>1. CASE m \in 1 .. Len(pushed)
            <4>1. k \in 1 .. Len(pushed)
                BY <2>8, <3>1
            <4> QED
                BY <1>5, <2>1, <2>8, <3>1, <4>1
        <3>2. CASE m = Len(pushed) + 1
            BY <1>1, <1>5, <2>7, <3>2
        <3> QED
            BY <2>6, <3>1, <3>2
    <2> QED
        BY <2>7, <2>8 DEF PushedInOrder
<1>12. (Spike!EvictionsAreCounted)'
    <2>1. inherited' + spike_accepted' - evicted' = Len(ring')
        <3>1. evicted' = evicted + gone
            BY <1>1, <1>2, <1>7
        <3>2. inherited' = inherited /\ spike_accepted' = spike_accepted + 1
            BY <1>1
        <3>3. Len(ring') = Len(ring) + 1 - gone
            BY <1>6
        <3>4. inherited \in Int /\ spike_accepted \in Int /\ evicted \in Int
              /\ gone \in Int /\ Len(ring) \in Int
            BY <1>2, <1>4, <1>7
        <3>5. inherited + spike_accepted - evicted = Len(ring)
            BY <1>3
        <3> QED
            BY <3>1, <3>2, <3>3, <3>4, <3>5
    <2>2. overflowed' <=> evicted' > 0
        <3>1. CASE Len(ring) = CAPACITY
            <4>1. overflowed' /\ evicted' = evicted + 1
                BY <1>1, <3>1
            <4> QED
                BY <1>2, <4>1
        <3>2. CASE Len(ring) # CAPACITY
            <4>1. (overflowed' <=> overflowed) /\ evicted' = evicted + 0
                BY <1>1, <3>2
            <4>2. evicted' = evicted
                BY <1>2, <4>1
            <4> QED
                BY <1>3, <4>1, <4>2
        <3> QED
            BY <3>1, <3>2
    <2>3. Len(ring') <= spike_high_watermark' /\ spike_high_watermark' <= CAPACITY
        BY <1>2, <1>3, <1>8, <1>13
    <2>4. /\ forgotten' <= Len(pushed') - Len(ring')
          /\ Len(pushed') - Len(ring') <= forgotten' + evicted'
        <3>1. Len(pushed') - Len(ring') = Len(pushed) - Len(ring) + gone
            BY <1>4, <1>5, <1>6, <1>7
        <3>2. evicted' = evicted + gone /\ forgotten' = forgotten
            BY <1>1, <1>2, <1>7
        <3>3. /\ forgotten \in Int /\ evicted \in Int /\ gone \in Int /\ gone >= 0
              /\ Len(pushed) \in Int /\ Len(ring) \in Int
            BY <1>2, <1>4, <1>5, <1>7
        <3>4. /\ forgotten <= Len(pushed) - Len(ring)
              /\ Len(pushed) - Len(ring) <= forgotten + evicted
            BY <1>3
        <3> QED
            BY <3>1, <3>2, <3>3, <3>4
    <2> QED
        BY <2>1, <2>2, <2>3, <2>4 DEF Spike!EvictionsAreCounted
<1> QED
    BY <1>9, <1>10, <1>11, <1>12 DEF RingInv

LEMMA RingStep == RingInv /\ [HostNext]_hostVars => RingInv'
<1> SUFFICES ASSUME RingInv, [HostNext]_hostVars PROVE RingInv'
    OBVIOUS
<1>1. CASE Spike!push
    <2>1. CASE Spike!PushRefused
        BY <2>1 DEF Spike!PushRefused, RingInv, RingTypeOK, RingIsTheEnd, PushedInOrder,
                    Spike!EvictionsAreCounted
    <2>2. CASE \E e \in Spike!AERSpikeEvent : Spike!PushAccepted(e)
        BY <2>2, PushKeepsRing
    <2> QED
        BY <1>1, <2>1, <2>2 DEF Spike!push
<1>2. CASE Spike!clear
    <2>1. ring' = <<>> /\ pushed' = <<>> /\ spike_last_t_ns' = -1
          /\ inherited' = inherited - Len(ring) /\ forgotten' = 0
          /\ UNCHANGED <<spike_accepted, evicted, spike_high_watermark, overflowed>>
        BY <1>2 DEF Spike!clear, Spike!telemetry
    <2>2. <<>> \in Seq(Spike!AERSpikeEvent) /\ Len(<<>>) = 0
        OBVIOUS
    <2>3. Len(ring) \in Nat /\ RingTypeOK
        BY DEF RingInv, RingTypeOK
    <2>4. RingTypeOK'
        BY <2>1, <2>2, <2>3 DEF RingTypeOK
    <2>5. RingIsTheEnd' /\ PushedInOrder'
        BY <2>1, <2>2 DEF RingIsTheEnd, PushedInOrder
    <2>6. (Spike!EvictionsAreCounted)'
        BY <2>1, <2>2, <2>3, SpikeConstants DEF RingInv, RingTypeOK, Spike!EvictionsAreCounted
    <2> QED
        BY <2>4, <2>5, <2>6 DEF RingInv
<1>3. CASE Spike!reset_telemetry
    <2>1. UNCHANGED <<ring, pushed, spike_last_t_ns>>
          /\ spike_accepted' = 0 /\ evicted' = 0 /\ inherited' = Len(ring)
          /\ forgotten' = Len(pushed) - Len(ring)
          /\ spike_high_watermark' = Len(ring) /\ overflowed' = FALSE
        BY <1>3 DEF Spike!reset_telemetry
    <2>2. Len(ring) \in Nat /\ Len(ring) <= CAPACITY
        BY SpikeConstants DEF RingInv, RingTypeOK, Spike!EvictionsAreCounted
    <2>6. Len(pushed) \in Nat /\ Len(pushed) - Len(ring) \in Nat
        BY <2>2 DEF RingInv, RingTypeOK, RingIsTheEnd
    <2>3. RingTypeOK'
        <3>1. inherited' \in Int /\ spike_high_watermark' \in Nat /\ forgotten' \in Nat
            BY <2>1, <2>2, <2>6
        <3>2. spike_accepted' \in Nat /\ evicted' \in Nat /\ overflowed' \in BOOLEAN
            BY <2>1
        <3> QED
            BY <2>1, <3>1, <3>2 DEF RingInv, RingTypeOK
    <2>4. RingIsTheEnd' /\ PushedInOrder'
        BY <2>1 DEF RingInv, RingIsTheEnd, PushedInOrder
    <2>5. (Spike!EvictionsAreCounted)'
        BY <2>1, <2>2, <2>6 DEF Spike!EvictionsAreCounted
    <2> QED
        BY <2>3, <2>4, <2>5 DEF RingInv
<1>4. CASE UNCHANGED spikeVars
    BY <1>4 DEF spikeVars, RingInv, RingTypeOK, RingIsTheEnd, PushedInOrder,
                Spike!EvictionsAreCounted
<1> QED
    BY <1>1, <1>2, <1>3, <1>4 DEF HostNext, hostVars, Spike!SpikeNext

(* No event of the ring has an address beyond the ring's channels.         *)
LEMMA ChannelsCover ==
    ASSUME RingInv, ring # <<>>
    PROVE  Spike!n_channels \in Nat
           /\ \A k \in 1 .. Len(ring) : ring[k].address < Spike!n_channels
<1> DEFINE addresses == {ring[k].address : k \in 1 .. Len(ring)}
           f == [k \in 1 .. Len(ring) |-> ring[k].address]
<1>1. Len(ring) \in Nat /\ Len(ring) > 0
    BY DEF RingInv, RingTypeOK
<1>2. \A k \in 1 .. Len(ring) : ring[k] \in Spike!AERSpikeEvent
    BY DEF RingInv, RingTypeOK
<1>3. \A k \in 1 .. Len(ring) : ring[k].address \in Nat
    BY <1>2, EventFields
<1>4. PICK m \in 1 .. Len(ring) : \A k \in 1 .. Len(ring) : f[k] <= f[m]
    <2>1. \A k \in 1 .. Len(ring) : f[k] \in Nat
        BY <1>3
    <2> HIDE DEF f
    <2> QED
        BY <1>1, <2>1, LargestOf
<1>5. ring[m].address \in addresses /\ \A x \in addresses : ring[m].address >= x
    BY <1>3, <1>4
<1>6. Spike!n_channels = 1 + Spike!Max(addresses)
    BY DEF Spike!n_channels
<1>7. \A x \in addresses : x \in Nat
    BY <1>3
<1> HIDE DEF addresses
<1>8. Spike!Max(addresses) \in addresses /\ \A x \in addresses : Spike!Max(addresses) >= x
    BY <1>5 DEF Spike!Max
<1>9. \A k \in 1 .. Len(ring) : ring[k].address \in addresses
    BY DEF addresses
<1> QED
    BY <1>3, <1>6, <1>7, <1>8, <1>9

LEMMA WholeWindowSeen == RingInv => Spike!DecodeSeesWholeWindow
<1> DEFINE lost == Len(pushed) - Len(ring)
           Whole(begin) == lost = 0 \/ begin > pushed[lost].t_ns
<1> SUFFICES ASSUME RingInv, NEW start \in -1 .. SPIKE_MAX, NEW window \in 1 .. SPIKE_MAX,
                    NEW n \in {Spike!n_channels} \ {0}
             PROVE  LET begin == Spike!WindowStart(ring, start)
                        short == Spike!Decode(ring, begin, window, n)
                                     # Spike!Decode(pushed, begin, window, n)
                    IN
                    /\ Whole(begin) => ~short
                    /\ short => overflowed \/ forgotten > 0
                    /\ Spike!Decode(ring, begin, window, n)[1] # "out_of_range"
                    /\ start = -1 => Len(Spike!InWindow(ring, begin, window)) > 0
    BY DEF Spike!DecodeSeesWholeWindow
<1> DEFINE begin == Spike!WindowStart(ring, start)
           inside == Spike!InWindow(ring, begin, window)
<1>1. ring \in Seq(Spike!AERSpikeEvent) /\ pushed \in Seq(Spike!AERSpikeEvent)
      /\ Len(ring) <= Len(pushed) /\ Len(ring) \in Nat /\ Len(pushed) \in Nat
      /\ \A k \in 1 .. Len(ring) : ring[k] = pushed[Len(pushed) - Len(ring) + k]
    BY DEF RingInv, RingTypeOK, RingIsTheEnd
<1>2. ring # <<>> /\ Len(ring) > 0
    BY <1>1 DEF Spike!n_channels
<1>3. n \in Nat /\ \A k \in 1 .. Len(ring) : ring[k].address < n
    BY <1>2, ChannelsCover
<1>4. SPIKE_MAX \in Nat /\ start \in Int /\ window \in Nat /\ window >= 1
    BY SpikeConstants
<1>5. begin = IF start >= 0 THEN start ELSE ring[1].t_ns
    BY <1>2 DEF Spike!WindowStart
<1>6. ring[1] \in Spike!AERSpikeEvent
    BY <1>1, <1>2
<1>7. ring[1].t_ns \in Nat
    BY <1>6, EventFields
<1>8. begin \in Nat
    BY <1>4, <1>5, <1>7
<1> HIDE DEF begin
<1>9. /\ inside \in Seq(Spike!AERSpikeEvent)
      /\ \A j \in 1 .. Len(inside) : \E m \in 1 .. Len(ring) : inside[j] = ring[m]
      /\ Windowed(ring[1], begin, window) => Len(inside) > 0
    BY <1>1, <1>2, WindowHoldsEvents
<1>10. ASSUME Whole(begin) PROVE Spike!InWindow(pushed, begin, window) = inside
    <2>1. ASSUME NEW m \in 1 .. lost PROVE ~Windowed(pushed[m], begin, window)
        <3>1. lost \in 1 .. Len(pushed) /\ m \in 1 .. Len(pushed) /\ m <= lost /\ lost # 0
            BY <1>1
        <3>2. pushed[m].t_ns <= pushed[lost].t_ns /\ begin > pushed[lost].t_ns
            BY <1>10, <3>1 DEF RingInv, PushedInOrder
        <3>3. pushed[m] \in Spike!AERSpikeEvent /\ pushed[lost] \in Spike!AERSpikeEvent
            BY <1>1, <3>1
        <3>4. pushed[m].t_ns \in Nat /\ pushed[lost].t_ns \in Nat
            BY <3>3, EventFields
        <3> QED
            BY <1>8, <3>2, <3>4 DEF Windowed
    <2> QED
        BY <1>1, <2>1, LostOutsideIsUnseen
<1>11. Whole(begin) => Spike!Decode(ring, begin, window, n)
                           = Spike!Decode(pushed, begin, window, n)
    BY <1>10 DEF Spike!Decode
<1>15. ASSUME Spike!Decode(ring, begin, window, n) # Spike!Decode(pushed, begin, window, n)
       PROVE  overflowed \/ forgotten > 0
    <2>1. lost \in Nat /\ lost # 0
        BY <1>1, <1>11, <1>15
    <2>2. /\ forgotten \in Nat /\ evicted \in Nat
          /\ lost <= forgotten + evicted /\ (overflowed <=> evicted > 0)
        BY DEF RingInv, RingTypeOK, Spike!EvictionsAreCounted
    <2> HIDE DEF lost
    <2> QED
        BY <2>1, <2>2
<1> HIDE DEF inside
<1>12. ~(\E j \in 1 .. Len(inside) : inside[j].address >= n)
    <2> SUFFICES ASSUME NEW j \in 1 .. Len(inside) PROVE ~(inside[j].address >= n)
        OBVIOUS
    <2>1. PICK m \in 1 .. Len(ring) : inside[j] = ring[m]
        BY <1>9
    <2>2. ring[m] \in Spike!AERSpikeEvent /\ ring[m].address < n
        BY <1>1, <1>3
    <2>3. ring[m].address \in Nat
        BY <2>2, EventFields
    <2> QED
        BY <1>3, <2>1, <2>2, <2>3
<1>13. Spike!Decode(ring, begin, window, n)[1] # "out_of_range"
    <2>1. CASE begin + window > SPIKE_MAX
        <3>1. Spike!Decode(ring, begin, window, n) = <<"overflowed">>
            BY <2>1 DEF Spike!Decode
        <3> QED
            BY <3>1
    <2>2. CASE ~(begin + window > SPIKE_MAX)
        <3> DEFINE features == [a \in 0 .. n - 1 |->
                <<Spike!Rate(inside, a), Spike!Latency(inside, a, begin),
                  Spike!Intervals(inside, a)>>]
        <3>1. Spike!Decode(ring, begin, window, n) = <<"no", Len(inside), features>>
            BY <1>12, <2>2 DEF Spike!Decode, inside
        <3> HIDE DEF features
        <3> QED
            BY <3>1
    <2> QED
        BY <2>1, <2>2
<1>14. ASSUME start = -1 PROVE Len(inside) > 0
    <2>1. begin = ring[1].t_ns
        BY <1>5, <1>14
    <2>2. Windowed(ring[1], begin, window)
        BY <1>4, <1>7, <2>1 DEF Windowed
    <2> QED
        BY <1>9, <2>2
<1> QED
    BY <1>11, <1>13, <1>14, <1>15 DEF begin, inside

(* However many events the ring has dropped, a window after the last of    *)
(* them decodes as if none had been, a short one is told by the telemetry  *)
(* of its epoch or was lost before it, and no window meets an address      *)
(* without a channel: for every capacity, time domain and set of addresses. *)
THEOREM HidesNoLoss == HostSpec => []RingHidesNoLoss
<1>1. HostInit => RingInv
    BY RingInitially DEF HostInit
<1>2. RingInv /\ [HostNext]_hostVars => RingInv'
    BY RingStep
<1>3. RingInv => RingHidesNoLoss
    BY WholeWindowSeen DEF RingInv, RingHidesNoLoss, Spike!RingHidesNoLoss
<1> QED
    BY <1>1, <1>2, <1>3, PTL DEF HostSpec

=============================================================================
