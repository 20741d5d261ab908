------------------------------- MODULE Scanner -------------------------------
(***************************************************************************)
(* What the packet decoders of the reader tools promise, without buffers:  *)
(* the bytes received are scanned once, from left to right.  A place is    *)
(* passed only when no frame can start there whatever follows, or when it  *)
(* is inside a frame that was taken.                                       *)
(***************************************************************************)
EXTENDS Packets

VARIABLES
    received,  \* every byte read from the device
    pos,       \* how many of them are dealt with
    taken      \* the places where the frames start that were returned

vars == <<received, pos, taken>>

(* The bytes at place q, as many of a frame as there are.                   *)
At(q) == SubSeq(received, q + 1, IF q + Size <= Len(received) THEN q + Size ELSE Len(received))

FrameAt(q) == q + Size <= Len(received) /\ At(q) \in Packet

Hopeless(q) == \A p \in Packet : At(q) # SubSeq(p, 1, Len(At(q)))

Init == received = <<>> /\ pos = 0 /\ taken = {}

Receive ==
    /\ received' \in Seq(Byte)
    /\ Len(received) <= Len(received')
    /\ SubSeq(received', 1, Len(received)) = received
    /\ UNCHANGED <<pos, taken>>

PassOver ==
    /\ pos' \in pos..Len(received)
    /\ \A q \in pos..(pos' - 1) : Hopeless(q)
    /\ UNCHANGED <<received, taken>>

Accept ==
    \E q \in pos..Len(received) :
        /\ \A k \in pos..(q - 1) : Hopeless(k)
        /\ FrameAt(q)
        /\ pos' = q + Size
        /\ taken' = taken \cup {q}
        /\ UNCHANGED received

Next == Receive \/ PassOver \/ Accept

Spec == Init /\ [][Next]_vars

(* No frame is lost: one that lies in the bytes dealt with was returned, or *)
(* begins inside one that was.                                              *)
NoFrameMissed ==
    \A q \in 0..(pos - 1) :
        FrameAt(q) => \E t \in taken : t <= q /\ q < t + Size
=============================================================================
