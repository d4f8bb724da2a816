------------------------------ MODULE EventQueue ------------------------------
(***************************************************************************)
(* What a lossless ready/valid event buffer promises, without clocks,      *)
(* pointers or codes: a bounded first-in first-out queue whose consumer    *)
(* side is either silent or offers exactly the oldest event, and keeps     *)
(* offering it until it is taken.  A shot boundary may flush it.           *)
(***************************************************************************)
EXTENDS Naturals, Sequences

CONSTANTS Events, NoEvent, Capacity

VARIABLES queue,     \* events accepted and not yet taken, oldest first
          offered    \* the event on the consumer's port, or NoEvent

vars == <<queue, offered>>

Init == queue = <<>> /\ offered = NoEvent

OfferNext(taken) ==
    IF offered # NoEvent /\ ~taken
    THEN offered' = offered
    ELSE offered' = NoEvent \/ (queue' # <<>> /\ offered' = Head(queue'))

(* One step takes at most one event and puts at most one; the event it     *)
(* takes makes room for the one it puts.                                   *)
Transfer(put, taken) ==
    LET rest == IF taken THEN Tail(queue) ELSE queue
    IN  /\ taken => offered # NoEvent
        /\ put # <<>> => Len(rest) < Capacity
        /\ queue' = rest \o put
        /\ OfferNext(taken)

Flush == queue' = <<>> /\ offered' = NoEvent

Next ==
    \/ \E put \in {<<>>} \cup {<<e>> : e \in Events}, taken \in BOOLEAN :
          Transfer(put, taken)
    \/ Flush

Spec == Init /\ [][Next]_vars
=============================================================================
