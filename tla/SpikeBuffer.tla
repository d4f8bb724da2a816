----------------------------- MODULE SpikeBuffer -----------------------------
(***************************************************************************)
(* SpikeBuffer of src/scpn_mif_core/aer/spike_buffer.py: a ring of AER     *)
(* spikes that drops its oldest event when full, its lifetime telemetry,   *)
(* and the decoding of a window of it into features.                       *)
(*                                                                         *)
(* A feature is kept as what decides it: the summed polarity of a rate,    *)
(* the first time of a latency, the gaps and the span of an interval rate. *)
(* `pushed' is everything accepted since the last clear, evicted or not.   *)
(***************************************************************************)
EXTENDS Integers, Sequences, SequencesExt, FiniteSetsExt

CONSTANTS CAPACITY,
          U64_MAX,         \* last time stamp a window may end at
          Addresses,       \* addresses events carry
          MAX_ACCEPTED,    \* pushes tried between two clears and epochs
          MAX_REJECTED     \* refused pushes tried in a telemetry epoch

SpikeAssumption ==
    /\ CAPACITY \in Nat \ {0} /\ U64_MAX \in Nat /\ Addresses \subseteq Nat
    /\ MAX_ACCEPTED \in Nat /\ MAX_REJECTED \in Nat

VARIABLES
    events,          \* _events
    last_t_ns,       \* _last_t_ns, -1 for None
    accepted, evicted, rejected, high_watermark, overflowed,
    pushed,          \* history: accepted events since the last clear
    inherited,       \* history: events in the ring as the epoch began, less
                     \* those cleared in it
    forgotten        \* history: events of `pushed' evicted before the epoch

telemetry == <<accepted, evicted, rejected, high_watermark, overflowed>>
spikeVars == <<events, last_t_ns, telemetry, pushed, inherited, forgotten>>

AERSpikeEvent == [address : Addresses, t_ns : 0 .. U64_MAX, polarity : {-1, 1}]

SpikeInit ==
    /\ events = <<>> /\ last_t_ns = -1
    /\ accepted = 0 /\ evicted = 0 /\ rejected = 0 /\ high_watermark = 0
    /\ overflowed = FALSE /\ pushed = <<>> /\ inherited = 0 /\ forgotten = 0

-----------------------------------------------------------------------------
(* deque(maxlen = capacity).append *)
(* Mutant: a full ring drops the event that comes and not the oldest one.  *)
RingKeepsOldest(ring, event) ==
    IF Len(ring) < CAPACITY THEN Append(ring, event) ELSE ring

RingAppend(ring, event) ==
    IF Len(ring) < CAPACITY THEN Append(ring, event) ELSE Append(Tail(ring), event)

Evicts(event) == Len(events) = CAPACITY

PushAccepted(event) ==
    /\ event.t_ns >= last_t_ns
    /\ accepted < MAX_ACCEPTED /\ Len(pushed) < MAX_ACCEPTED     \* bounds
    /\ evicted' = evicted + (IF Evicts(event) THEN 1 ELSE 0)
    /\ overflowed' = (overflowed \/ Evicts(event))
    /\ events' = RingAppend(events, event)
    /\ last_t_ns' = event.t_ns
    /\ accepted' = accepted + 1
    /\ high_watermark' = Max({high_watermark, Len(events')})
    /\ pushed' = Append(pushed, event)
    /\ UNCHANGED <<rejected, inherited, forgotten>>

(* An object that is no event, or one that is older than the last.         *)
PushRefused ==
    /\ rejected < MAX_REJECTED                                   \* bound
    /\ rejected' = rejected + 1
    /\ UNCHANGED <<events, last_t_ns, accepted, evicted, high_watermark,
                   overflowed, pushed, inherited, forgotten>>

push == PushRefused \/ \E event \in AERSpikeEvent : PushAccepted(event)

clear ==
    /\ events' = <<>> /\ last_t_ns' = -1
    /\ pushed' = <<>> /\ inherited' = inherited - Len(events) /\ forgotten' = 0
    /\ UNCHANGED telemetry

reset_telemetry ==
    /\ accepted' = 0 /\ evicted' = 0 /\ rejected' = 0
    /\ high_watermark' = Len(events) /\ overflowed' = FALSE
    /\ inherited' = Len(events) /\ forgotten' = Len(pushed) - Len(events)
    /\ UNCHANGED <<events, last_t_ns, pushed>>

SpikeNext == push \/ clear \/ reset_telemetry

SpikeSpec == SpikeInit /\ [][SpikeNext]_spikeVars

-----------------------------------------------------------------------------
(* decode_spike_observation on a sequence of events; start -1 is None.     *)
WindowStart(seq, start) ==
    IF start >= 0 THEN start ELSE IF seq = <<>> THEN 0 ELSE seq[1].t_ns

InWindow(seq, begin, window) ==
    FoldLeft(LAMBDA inside, e :
                 IF begin <= e.t_ns /\ e.t_ns < begin + window THEN Append(inside, e) ELSE inside,
             <<>>, seq)

TimesOf(seq, address) ==
    LET own == SelectSeq(seq, LAMBDA e : e.address = address)
    IN  [n \in 1 .. Len(own) |-> own[n].t_ns]

(* _decode_rate, _decode_temporal and _decode_isi of one channel           *)
Rate(seq, address) ==
    FoldLeft(LAMBDA sum, e : IF e.address = address THEN sum + e.polarity ELSE sum, 0, seq)
Latency(seq, address, begin) ==
    LET t == TimesOf(seq, address) IN IF t = <<>> THEN <<>> ELSE <<t[1] - begin>>
Intervals(seq, address) ==
    LET t == TimesOf(seq, address) IN
    IF Len(t) < 2 \/ t[Len(t)] = t[1] THEN <<0, 1>> ELSE <<Len(t) - 1, t[Len(t)] - t[1]>>

(* The window may not end past the last time stamp, nor hold an address    *)
(* without a channel.                                                      *)
Decode(seq, begin, window, n_channels) ==
    LET inside == InWindow(seq, begin, window)
        refused == IF begin + window > U64_MAX THEN "overflowed"
                   ELSE IF \E n \in 1 .. Len(inside) : inside[n].address >= n_channels
                   THEN "out_of_range" ELSE "no"
    IN  IF refused # "no" THEN <<refused>>
        ELSE <<refused, Len(inside),
               [a \in 0 .. n_channels - 1 |->
                   <<Rate(inside, a), Latency(inside, a, begin), Intervals(inside, a)>>]>>

(* AERControlObservation: as many channels as the buffered addresses need. *)
n_channels ==
    IF events = <<>> THEN 0 ELSE 1 + Max({events[n].address : n \in 1 .. Len(events)})

-----------------------------------------------------------------------------
(* A window that starts after everything the ring has dropped decodes as   *)
(* if nothing had been dropped, in rates, latencies and intervals; one that *)
(* comes out short does so on record, with the overflow of this epoch or    *)
(* with evictions of an earlier one, which a reset of the telemetry has     *)
(* forgotten.  With the channels of the buffer no window meets an address   *)
(* out of range, and one without a start of its own counts an event.        *)
DecodeSeesWholeWindow ==
    LET lost == Len(pushed) - Len(events)
        Whole(begin) == lost = 0 \/ begin > pushed[lost].t_ns
    IN  /\ \A start \in -1 .. U64_MAX, window \in 1 .. U64_MAX, n \in {n_channels} \ {0} :
              LET begin == WindowStart(events, start)
                  short == Decode(events, begin, window, n) # Decode(pushed, begin, window, n)
              IN
              /\ Whole(begin) => ~short
              /\ short => overflowed \/ forgotten > 0
              /\ Decode(events, begin, window, n)[1] # "out_of_range"
              /\ start = -1 => Len(InWindow(events, begin, window)) > 0

(* Every event that was accepted in a telemetry epoch, or was there when   *)
(* it began, is in the ring, was cleared, or is counted as evicted; the    *)
(* epoch tells of an overflow exactly if it lost something, and what the   *)
(* ring misses beyond its count was lost before the epoch.                 *)
EvictionsAreCounted ==
    LET lost == Len(pushed) - Len(events) IN
    /\ inherited + accepted - evicted = Len(events)
    /\ overflowed <=> evicted > 0
    /\ forgotten <= lost /\ lost <= forgotten + evicted
    /\ Len(events) <= high_watermark /\ high_watermark <= CAPACITY

(* The ring hides no loss of the epoch, neither from a decoder nor from    *)
(* its telemetry.                                                          *)
RingHidesNoLoss == DecodeSeesWholeWindow /\ EvictionsAreCounted
=============================================================================
