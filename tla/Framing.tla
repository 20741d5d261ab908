------------------------------- MODULE Framing -------------------------------
(***************************************************************************)
(* The packet decoder of the reader tools: PacketReader.read of            *)
(* attitude_rpmsg_imu.py and MpuReader.read of monitor_dual_imu.py are the *)
(* same code, and the loops of read_rpmsg_imu.py and monitor_rpmsg_imu.py  *)
(* do the same.  read(2) returns any part of the byte stream, in which     *)
(* frames may be cut: the device may be opened, or its buffer run over, in *)
(* the middle of one, and the payload may hold any bytes.                  *)
(***************************************************************************)
EXTENDS Packets

CONSTANTS
    ChunkMax,    \* most bytes one read(2) returns
    MaxReceived  \* bound: bytes received

ASSUME ChunkAssumption == ChunkMax \in Nat /\ MaxReceived \in Nat

VARIABLES
    pc,        \* "check" the deadline, "parse" the buffer, "wait" in select, "gaveUp"
    buffer,    \* the bytes not dealt with
    received,  \* history: every byte read
    taken      \* history: where in received the frames start that were returned

vars == <<pc, buffer, received, taken>>

Chunk == UNION {[1..k -> Byte] : k \in 0..ChunkMax}

Drop(s, k) == SubSeq(s, k + 1, Len(s))

(* How many of the bytes received are gone from the buffer.                 *)
Gone == Len(received) - Len(buffer)

Init == pc = "check" /\ buffer = <<>> /\ received = <<>> /\ taken = {}

-----------------------------------------------------------------------------
(* Before the deadline of this call of read: look at the buffer.            *)
EnterParse ==
    /\ pc = "check"
    /\ pc' = "parse"
    /\ UNCHANGED <<buffer, received, taken>>

(* TimeoutError; what is in the buffer is not looked at again.              *)
GiveUp ==
    /\ pc = "check"
    /\ pc' = "gaveUp"
    /\ UNCHANGED <<buffer, received, taken>>

(* select, then os.read if the device is ready: nothing may be there.       *)
Arrive ==
    /\ pc = "wait"
    /\ pc' = "check"
    /\ \E chunk \in Chunk :
        /\ Len(received) + Len(chunk) <= MaxReceived
        /\ buffer' = buffer \o chunk
        /\ received' = received \o chunk
    /\ UNCHANGED taken

(* bytearray.find(MAGIC)                                                    *)
MagicAt(b) ==
    {k \in 0..(Len(b) - Len(Magic)) : SubSeq(b, k + 1, k + Len(Magic)) = Magic}

First(b, k) == k \in MagicAt(b) /\ \A j \in MagicAt(b) : k <= j

TooShort ==
    /\ pc = "parse"
    /\ Len(buffer) < Size
    /\ pc' = "wait"
    /\ UNCHANGED <<buffer, received, taken>>

(* Fault: nothing is kept when no magic is found. *)
NoMagicClear ==
    /\ pc = "parse"
    /\ Len(buffer) >= Size
    /\ MagicAt(buffer) = {}
    /\ buffer' = <<>>
    /\ pc' = "wait"
    /\ UNCHANGED <<received, taken>>

(* del buffer[:-3]: all but what may be the beginning of a magic.           *)
NoMagic ==
    /\ pc = "parse"
    /\ Len(buffer) >= Size
    /\ MagicAt(buffer) = {}
    /\ buffer' = Drop(buffer, Len(buffer) - (Len(Magic) - 1))
    /\ pc' = "wait"
    /\ UNCHANGED <<received, taken>>

(* The rest of an iteration, with the buffer from its first magic on: too   *)
(* short to be a frame, a frame, or a magic that starts none.               *)
Incomplete(rest) ==
    /\ Len(rest) < Size
    /\ buffer' = rest
    /\ pc' = "wait"
    /\ UNCHANGED <<received, taken>>

Return(rest) ==
    /\ Len(rest) >= Size
    /\ SubSeq(rest, 1, Size) \in Packet
    /\ buffer' = Drop(rest, Size)
    /\ taken' = taken \cup {Len(received) - Len(rest)}
    /\ pc' = "check"
    /\ UNCHANGED received

(* Fault: a candidate that fails is dropped as a whole. *)
RejectWhole(rest) ==
    /\ Len(rest) >= Size
    /\ SubSeq(rest, 1, Size) \notin Packet
    /\ buffer' = Drop(rest, Size)
    /\ UNCHANGED <<pc, received, taken>>

Reject(rest) ==
    /\ Len(rest) >= Size
    /\ SubSeq(rest, 1, Size) \notin Packet
    /\ buffer' = Drop(rest, 1)
    /\ UNCHANGED <<pc, received, taken>>

Aligned ==
    /\ pc = "parse"
    /\ Len(buffer) >= Size
    /\ \E k \in 0..Len(buffer) :
        /\ First(buffer, k)
        /\ LET rest == Drop(buffer, k)
           IN  Incomplete(rest) \/ Return(rest) \/ Reject(rest)

Parse == TooShort \/ NoMagic \/ Aligned

Next == EnterParse \/ GiveUp \/ Arrive \/ Parse

Spec == Init /\ [][Next]_vars

-----------------------------------------------------------------------------
(* Properties.                                                              *)

(* The search, the three deletions and the chunks read(2) happens to return *)
(* amount to one scan of the bytes from left to right.                      *)
Scan == INSTANCE Scanner WITH pos <- Gone
Scanned == Scan!Spec

(* No frame is lost, whatever is cut or damaged around it: a valid frame in *)
(* the bytes dealt with was returned, or begins inside one that was.        *)
NoFrameMissed == Scan!NoFrameMissed
=============================================================================
