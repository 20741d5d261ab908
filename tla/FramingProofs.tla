---------------------------- MODULE FramingProofs ----------------------------
(***************************************************************************)
(* Proofs about Framing and Scanner, for any protocol that Packets allows  *)
(* and any way the bytes are cut: the decoder is a scan from left to right *)
(* and the scan loses no frame.                                            *)
(*                                                                         *)
(* NoFrameMissed by itself is not inductive: a place may be passed before  *)
(* all bytes of a frame there have come.  What is kept is that the bytes   *)
(* that were there at the time already rule every frame out.               *)
(***************************************************************************)
EXTENDS Framing, SequenceTheorems, TLAPS

(* The bytes of r from place q on, as many of a frame as there are.         *)
Window(r, q) == SubSeq(r, q + 1, IF q + Size <= Len(r) THEN q + Size ELSE Len(r))

(* No byte that is there speaks against frame p at place q of r.            *)
Fits(r, q, p) == \A i \in 1..Size : q + i <= Len(r) => r[q + i] = p[i]

(* What the assumption says of one frame, byte by byte.                     *)
LEMMA PacketBytes ==
    ASSUME NEW p \in Packet
    PROVE  /\ Size \in Nat /\ Len(Magic) \in 1..Size /\ Magic \in Seq(Byte)
           /\ p \in Seq(Byte) /\ Len(p) = Size
           /\ \A i \in 1..Len(Magic) : p[i] = Magic[i]
<1>1. /\ Size \in Nat /\ Len(Magic) \in 1..Size /\ Magic \in Seq(Byte)
      /\ p \in Seq(Byte) /\ Len(p) = Size /\ SubSeq(p, 1, Len(Magic)) = Magic
  BY PacketAssumption
<1>2. \A i \in 1..Len(Magic) : p[i] \in Byte
  BY <1>1, ElementOfSeq
<1>3. \A i \in 1..Len(Magic) : SubSeq(p, 1, Len(Magic))[i] = p[i]
  BY <1>1, <1>2, SubSeqProperties
<1>4. QED
  BY <1>1, <1>3

(* The window and a prefix of a frame, byte by byte.                        *)
LEMMA WindowBytes ==
    ASSUME NEW r \in Seq(Byte), NEW q \in 0..Len(r), NEW p \in Packet
    PROVE  LET w == Window(r, q)
               u == SubSeq(p, 1, Len(w)) IN
           /\ w \in Seq(Byte) /\ Len(w) \in 0..Size
           /\ Len(w) = IF q + Size <= Len(r) THEN Size ELSE Len(r) - q
           /\ \A i \in 1..Len(w) : w[i] = r[q + i]
           /\ u \in Seq(Byte) /\ Len(u) = Len(w)
           /\ \A i \in 1..Len(w) : u[i] = p[i]
<1> DEFINE w == Window(r, q)
           u == SubSeq(p, 1, Len(w))
           last == IF q + Size <= Len(r) THEN q + Size ELSE Len(r)
<1>1. /\ Size \in Nat /\ p \in Seq(Byte) /\ Len(p) = Size /\ Len(r) \in Nat
      /\ last \in q..Len(r) /\ last <= q + Size
  BY PacketBytes
<1>2. \A i \in (q + 1)..last : r[i] \in Byte
  BY <1>1, ElementOfSeq
<1>3. /\ w = SubSeq(r, q + 1, last) /\ w \in Seq(Byte) /\ Len(w) = last - q
      /\ \A i \in 1..(last - q) : w[i] = r[q + i]
  <2>1. w = SubSeq(r, q + 1, last)
    BY DEF Window
  <2> HIDE DEF w, last
  <2>2. /\ SubSeq(r, q + 1, last) \in Seq(Byte)
        /\ Len(SubSeq(r, q + 1, last)) = IF q + 1 <= last THEN last - (q + 1) + 1 ELSE 0
        /\ \A i \in 1..(last - (q + 1) + 1) : SubSeq(r, q + 1, last)[i] = r[(q + 1) + i - 1]
    BY <1>1, <1>2, SubSeqProperties
  <2>3. QED
    BY <1>1, <2>1, <2>2
<1> HIDE DEF w
<1>4. Len(w) \in 0..Size /\ Len(w) = IF q + Size <= Len(r) THEN Size ELSE Len(r) - q
  BY <1>1, <1>3
<1>5. \A i \in 1..Len(w) : p[i] \in Byte
  BY <1>1, <1>4, ElementOfSeq
<1>6. /\ u \in Seq(Byte) /\ Len(u) = Len(w)
      /\ \A i \in 1..Len(w) : u[i] = p[i]
  <2>1. /\ SubSeq(p, 1, Len(w)) \in Seq(Byte)
        /\ Len(SubSeq(p, 1, Len(w))) = IF 1 <= Len(w) THEN Len(w) - 1 + 1 ELSE 0
        /\ \A i \in 1..(Len(w) - 1 + 1) : SubSeq(p, 1, Len(w))[i] = p[1 + i - 1]
    BY <1>4, <1>5, SubSeqProperties
  <2>2. QED
    BY <1>1, <1>4, <2>1
<1>7. QED
  BY <1>1, <1>3, <1>4, <1>6 DEF w

(* The bytes of a window are those of a frame as far as they go exactly if  *)
(* none of them speaks against it.                                          *)
LEMMA PrefixIffFits ==
    ASSUME NEW r \in Seq(Byte), NEW q \in 0..Len(r), NEW p \in Packet
    PROVE  Window(r, q) = SubSeq(p, 1, Len(Window(r, q))) <=> Fits(r, q, p)
<1> DEFINE w == Window(r, q)
           u == SubSeq(p, 1, Len(w))
<1>1. /\ w \in Seq(Byte) /\ Len(w) \in 0..Size
      /\ Len(w) = IF q + Size <= Len(r) THEN Size ELSE Len(r) - q
      /\ \A i \in 1..Len(w) : w[i] = r[q + i]
      /\ u \in Seq(Byte) /\ Len(u) = Len(w)
      /\ \A i \in 1..Len(w) : u[i] = p[i]
  BY WindowBytes
<1>2. Size \in Nat /\ Len(r) \in Nat
  BY PacketBytes
<1> HIDE DEF w, u
<1>3. \A i \in 1..Size : q + i <= Len(r) <=> i <= Len(w)
  BY <1>1, <1>2
<1>4. ASSUME w = u PROVE Fits(r, q, p)
  BY <1>1, <1>2, <1>3, <1>4 DEF Fits
<1>5. ASSUME Fits(r, q, p) PROVE w = u
  <2>1. \A i \in 1..Len(w) : w[i] = u[i]
    BY <1>1, <1>2, <1>3, <1>5 DEF Fits
  <2>2. QED
    BY <1>1, <2>1, SeqEqual
<1>6. QED
  BY <1>4, <1>5 DEF w, u

(* All bytes of a place are there: they are a frame or not.                 *)
LEMMA FrameIffFits ==
    ASSUME NEW r \in Seq(Byte), NEW q \in 0..Len(r), q + Size <= Len(r)
    PROVE  Window(r, q) \in Packet <=> \E p \in Packet : Fits(r, q, p)
<1>1. ASSUME NEW p \in Packet
      PROVE  SubSeq(p, 1, Len(Window(r, q))) = p
  <2>1. p \in Seq(Byte) /\ Len(p) = Size /\ Size \in Nat
    BY PacketBytes
  <2>2. Len(Window(r, q)) = Size
    BY <2>1, WindowBytes
  <2>3. QED
    BY <2>1, <2>2, SubSeqFull
<1>2. \A p \in Packet : Window(r, q) = p <=> Fits(r, q, p)
  BY <1>1, PrefixIffFits
<1>3. QED
  BY <1>2

-----------------------------------------------------------------------------
(* The scan.                                                                *)

(* No frame can start at place q of r, whatever follows.                    *)
RuledOut(r, q) == \A p \in Packet : ~Fits(r, q, p)

(* Place q begins inside a frame that was returned, or before it.           *)
Covered(q) == \E t \in taken : t <= q /\ q < t + Size

ScanInv ==
    /\ received \in Seq(Byte) /\ Gone \in 0..Len(received) /\ taken \subseteq Nat
    /\ \A q \in 0..(Gone - 1) : RuledOut(received, q) \/ Covered(q)

(* What has been ruled out stays so when more bytes come.                   *)
LEMMA RuledOutStays ==
    ASSUME NEW r \in Seq(Byte), NEW s \in Seq(Byte), Len(r) <= Len(s),
           SubSeq(s, 1, Len(r)) = r, NEW q \in Nat, RuledOut(r, q)
    PROVE  RuledOut(s, q)
<1>1. Len(r) \in Nat /\ Len(s) \in Nat
  OBVIOUS
<1>2. \A i \in 1..Len(r) : s[i] = r[i]
  <2>1. \A i \in 1..Len(r) : s[i] \in Byte
    BY <1>1, ElementOfSeq
  <2>2. \A i \in 1..(Len(r) - 1 + 1) : SubSeq(s, 1, Len(r))[i] = s[1 + i - 1]
    BY <1>1, <2>1, SubSeqProperties
  <2>3. QED
    BY <1>1, <2>2
<1>3. ASSUME NEW p \in Packet, Fits(s, q, p) PROVE Fits(r, q, p)
  <2>1. Size \in Nat
    BY PacketBytes
  <2>2. QED
    BY <1>1, <1>2, <1>3, <2>1 DEF Fits
<1>4. QED
  BY <1>3 DEF RuledOut

(* Initially nothing is passed.                                             *)
LEMMA ScanInit == Scan!Init => ScanInv
  BY DEF Scan!Init, ScanInv

(* The scanner's own word for ruled out.                                    *)
LEMMA HopelessRuledOut ==
    ASSUME received \in Seq(Byte), NEW q \in 0..Len(received)
    PROVE  Scan!Hopeless(q) <=> RuledOut(received, q)
<1>1. Scan!At(q) = Window(received, q)
  BY DEF Scan!At, Window
<1>2. QED
  BY <1>1, PrefixIffFits DEF Scan!Hopeless, RuledOut

(* Each step of the scanner passes only what is ruled out or covered.       *)
LEMMA ScanStep == ScanInv /\ [Scan!Next]_(Scan!vars) => ScanInv'
<1> SUFFICES ASSUME ScanInv, [Scan!Next]_(Scan!vars) PROVE ScanInv'
  OBVIOUS
<1>1. /\ received \in Seq(Byte) /\ Len(received) \in Nat
      /\ Gone \in 0..Len(received) /\ taken \subseteq Nat /\ Gone \in Nat
      /\ \A q \in 0..(Gone - 1) : RuledOut(received, q) \/ Covered(q)
  BY DEF ScanInv
<1>2. CASE UNCHANGED Scan!vars
  <2>1. received' = received /\ taken' = taken /\ Gone' = Gone
    BY <1>2 DEF Scan!vars
  <2> HIDE DEF Gone
  <2>2. QED
    BY <1>1, <2>1 DEF ScanInv, Covered
<1>3. CASE Scan!Receive
  <2>1. /\ received' \in Seq(Byte) /\ Len(received) <= Len(received')
        /\ SubSeq(received', 1, Len(received)) = received
        /\ taken' = taken /\ Gone' = Gone
    BY <1>3 DEF Scan!Receive
  <2>2. \A q \in 0..(Gone - 1) : RuledOut(received', q) \/ Covered(q)
    BY <1>1, <2>1, RuledOutStays
  <2>3. Gone' \in 0..Len(received')
    BY <1>1, <2>1
  <2>4. QED
    BY <1>1, <2>1, <2>2, <2>3 DEF ScanInv, Covered
<1>4. CASE Scan!PassOver
  <2>1. /\ Gone' \in Gone..Len(received) /\ received' = received /\ taken' = taken
        /\ \A q \in Gone..(Gone' - 1) : Scan!Hopeless(q)
    BY <1>4 DEF Scan!PassOver
  <2>2. PICK k \in Nat : Gone' = Gone + k /\ Gone + k <= Len(received)
    <3>1. PICK h \in Gone..Len(received) : Gone' = h
      BY <2>1
    <3>2. h - Gone \in Nat /\ h = Gone + (h - Gone)
      BY <1>1
    <3>3. QED
      BY <1>1, <3>1, <3>2
  <2>3. \A q \in Gone..(Gone + k - 1) : RuledOut(received, q)
    BY <1>1, <2>1, <2>2, HopelessRuledOut
  <2>4. \A q \in 0..(Gone + k - 1) : RuledOut(received, q) \/ Covered(q)
    BY <1>1, <2>3
  <2>5. QED
    BY <1>1, <2>1, <2>2, <2>4 DEF ScanInv, Covered
<1>5. CASE Scan!Accept
  <2>1. PICK t \in Gone..Len(received) :
            /\ \A k \in Gone..(t - 1) : Scan!Hopeless(k)
            /\ t + Size <= Len(received) /\ Scan!At(t) \in Packet
            /\ Gone' = t + Size /\ taken' = taken \cup {t} /\ received' = received
    BY <1>5 DEF Scan!Accept, Scan!FrameAt
  <2>2. Size \in Nat /\ t \in Nat
    BY <1>1, <2>1, PacketAssumption
  <2>3. \A q \in Gone..(t - 1) : RuledOut(received, q)
    BY <1>1, <2>1, HopelessRuledOut
  <2>4. \A q \in t..(t + Size - 1) : t <= q /\ q < t + Size
    BY <2>2
  <2>5. \A q \in 0..(Gone' - 1) : RuledOut(received, q) \/ Covered(q)'
    BY <1>1, <2>1, <2>2, <2>3, <2>4 DEF Covered
  <2>6. Gone' \in 0..Len(received') /\ taken' \subseteq Nat
    BY <1>1, <2>1, <2>2
  <2>7. QED
    BY <1>1, <2>1, <2>5, <2>6 DEF ScanInv
<1>6. QED
  BY <1>2, <1>3, <1>4, <1>5 DEF Scan!Next

(* A frame is not ruled out, so that it is covered.                         *)
LEMMA ScanLosesNone == ScanInv => NoFrameMissed
<1> SUFFICES ASSUME ScanInv, NEW q \in 0..(Gone - 1), Scan!FrameAt(q)
             PROVE  Covered(q)
  BY DEF NoFrameMissed, Scan!NoFrameMissed, Covered
<1>1. received \in Seq(Byte) /\ Gone \in 0..Len(received) /\ q \in 0..Len(received)
  BY DEF ScanInv
<1>2. Window(received, q) \in Packet /\ q + Size <= Len(received)
  BY DEF Scan!FrameAt, Scan!At, Window
<1>3. ~RuledOut(received, q)
  BY <1>1, <1>2, FrameIffFits DEF RuledOut
<1>4. QED
  BY <1>3 DEF ScanInv

-----------------------------------------------------------------------------
(* The decoder.                                                             *)

(* The buffer holds the last bytes received.                                *)
BufferInv ==
    /\ buffer \in Seq(Byte) /\ received \in Seq(Byte)
    /\ Len(buffer) <= Len(received)
    /\ \A i \in 1..Len(buffer) : buffer[i] = received[Gone + i]

LEMMA DropBytes ==
    ASSUME NEW s \in Seq(Byte), NEW k \in 0..Len(s)
    PROVE  /\ Drop(s, k) \in Seq(Byte) /\ Len(Drop(s, k)) = Len(s) - k
           /\ \A i \in 1..(Len(s) - k) : Drop(s, k)[i] = s[k + i]
<1>1. \A i \in (k + 1)..Len(s) : s[i] \in Byte
  BY ElementOfSeq
<1>2. /\ SubSeq(s, k + 1, Len(s)) \in Seq(Byte)
      /\ Len(SubSeq(s, k + 1, Len(s))) =
           IF k + 1 <= Len(s) THEN Len(s) - (k + 1) + 1 ELSE 0
      /\ \A i \in 1..(Len(s) - (k + 1) + 1) :
           SubSeq(s, k + 1, Len(s))[i] = s[(k + 1) + i - 1]
  BY <1>1, SubSeqProperties
<1>3. QED
  BY <1>2 DEF Drop

(* A step that takes k bytes off the buffer moves the place by k.           *)
LEMMA BufferShortened ==
    ASSUME BufferInv, NEW k \in 0..Len(buffer), received' = received,
           buffer' \in Seq(Byte), Len(buffer') = Len(buffer) - k,
           \A i \in 1..(Len(buffer) - k) : buffer'[i] = buffer[k + i]
    PROVE  BufferInv' /\ Gone' = Gone + k
<1>1. Len(buffer) \in Nat /\ Len(received) \in Nat /\ Len(buffer) <= Len(received)
  BY DEF BufferInv
<1>2. Gone' = Gone + k
  BY <1>1 DEF Gone
<1>3. Gone \in Nat
  BY <1>1 DEF Gone
<1>4. \A i \in 1..Len(buffer') : buffer'[i] = received'[Gone + k + i]
  BY <1>1, <1>3 DEF BufferInv
<1>5. QED
  BY <1>1, <1>2, <1>4 DEF BufferInv

(* Where the buffer has no magic no frame can start.                        *)
LEMMA NoMagicRulesOut ==
    ASSUME BufferInv, NEW j \in 0..(Len(buffer) - Len(Magic)), j \notin MagicAt(buffer)
    PROVE  RuledOut(received, Gone + j)
<1>1. /\ buffer \in Seq(Byte) /\ received \in Seq(Byte) /\ Len(buffer) \in Nat
      /\ Len(received) \in Nat /\ Len(buffer) <= Len(received)
      /\ Gone \in Nat /\ Len(received) = Gone + Len(buffer)
      /\ \A i \in 1..Len(buffer) : buffer[i] = received[Gone + i]
  BY DEF BufferInv, Gone
<1>2. SUFFICES ASSUME NEW p \in Packet, Fits(received, Gone + j, p)
               PROVE  SubSeq(buffer, j + 1, j + Len(Magic)) = Magic
  BY DEF RuledOut, MagicAt
<1>3. /\ Size \in Nat /\ Len(Magic) \in 1..Size /\ Magic \in Seq(Byte)
      /\ \A i \in 1..Len(Magic) : p[i] = Magic[i]
  BY PacketBytes
<1>4. \A i \in (j + 1)..(j + Len(Magic)) : buffer[i] \in Byte
  BY <1>1, <1>3, ElementOfSeq
<1>5. /\ SubSeq(buffer, j + 1, j + Len(Magic)) \in Seq(Byte)
      /\ Len(SubSeq(buffer, j + 1, j + Len(Magic))) =
           IF j + 1 <= j + Len(Magic) THEN j + Len(Magic) - (j + 1) + 1 ELSE 0
      /\ \A i \in 1..(j + Len(Magic) - (j + 1) + 1) :
           SubSeq(buffer, j + 1, j + Len(Magic))[i] = buffer[(j + 1) + i - 1]
  BY <1>3, <1>4, SubSeqProperties
<1>6. \A i \in 1..Len(Magic) : buffer[j + i] = Magic[i]
  <2>1. ASSUME NEW i \in 1..Len(Magic) PROVE buffer[j + i] = Magic[i]
    <3>1. i \in 1..Size /\ j + i \in 1..Len(buffer) /\ Gone + j + i <= Len(received)
      BY <1>1, <1>3
    <3>2. received[(Gone + j) + i] = p[i]
      BY <1>1, <1>2, <3>1 DEF Fits
    <3>3. received[Gone + (j + i)] = buffer[j + i]
      BY <1>1, <3>1
    <3>4. (Gone + j) + i = Gone + (j + i)
      BY <1>1, <1>3
    <3>5. QED
      BY <1>3, <3>2, <3>3, <3>4
  <2>2. QED
    BY <2>1
<1>7. QED
  <2>1. \A i \in 1..Len(Magic) : SubSeq(buffer, j + 1, j + Len(Magic))[i] = Magic[i]
    BY <1>3, <1>5, <1>6
  <2>2. Len(SubSeq(buffer, j + 1, j + Len(Magic))) = Len(Magic)
    BY <1>3, <1>5
  <2>3. QED
    BY <1>3, <1>5, <2>1, <2>2, SeqEqual

(* A step over k places that are ruled out.                                 *)
LEMMA PassesOver ==
    ASSUME BufferInv, NEW k \in 0..Len(buffer), Gone' = Gone + k,
           UNCHANGED <<received, taken>>,
           \A j \in 0..(k - 1) : RuledOut(received, Gone + j)
    PROVE  Scan!PassOver
<1>1. /\ received \in Seq(Byte) /\ Len(buffer) \in Nat /\ Len(received) \in Nat
      /\ Gone \in Nat /\ Len(received) = Gone + Len(buffer)
  BY DEF BufferInv, Gone
<1>2. ASSUME NEW q \in Gone..(Gone + k - 1) PROVE Scan!Hopeless(q)
  <2>1. q - Gone \in 0..(k - 1) /\ q = Gone + (q - Gone) /\ q \in 0..Len(received)
    BY <1>1
  <2>2. RuledOut(received, q)
    BY <2>1
  <2>3. QED
    BY <1>1, <2>1, <2>2, HopelessRuledOut
<1>3. Gone + k \in Gone..Len(received)
  BY <1>1
<1>4. Gone' \in Gone..Len(received) /\ \A q \in Gone..(Gone' - 1) : Scan!Hopeless(q)
  <2>1. ASSUME NEW h, h = Gone + k
        PROVE  h \in Gone..Len(received) /\ \A q \in Gone..(h - 1) : Scan!Hopeless(q)
    BY <1>1, <1>2, <1>3, <2>1
  <2>2. QED
    BY <2>1, Zenon
<1>5. QED
  BY <1>4, Zenon DEF Scan!PassOver

(* Every way to look at the buffer is a step of the scan, or none.          *)
LEMMA ParseStep ==
    ASSUME BufferInv, Parse
    PROVE  BufferInv' /\ [Scan!Next]_(Scan!vars)
<1>1. /\ buffer \in Seq(Byte) /\ received \in Seq(Byte) /\ Len(buffer) \in Nat
      /\ Len(received) \in Nat /\ Gone \in Nat /\ Len(received) = Gone + Len(buffer)
      /\ \A i \in 1..Len(buffer) : buffer[i] = received[Gone + i]
  BY DEF BufferInv, Gone
<1>2. Size \in Nat /\ Len(Magic) \in 1..Size
  BY PacketAssumption
<1>3. CASE TooShort
  <2>1. UNCHANGED <<buffer, received, taken>> /\ Gone' = Gone
    BY <1>3 DEF TooShort, Gone
  <2>2. QED
    BY <2>1 DEF BufferInv, Scan!vars
<1>4. CASE NoMagic
  <2> DEFINE k == Len(buffer) - (Len(Magic) - 1)
  <2>1. /\ buffer' = Drop(buffer, k) /\ UNCHANGED <<received, taken>>
        /\ MagicAt(buffer) = {} /\ k \in 0..Len(buffer)
    BY <1>1, <1>2, <1>4 DEF NoMagic
  <2>2. BufferInv' /\ Gone' = Gone + k
    BY <1>1, <2>1, DropBytes, BufferShortened
  <2>3. \A j \in 0..(k - 1) : RuledOut(received, Gone + j)
    BY <1>1, <1>2, <2>1, NoMagicRulesOut
  <2> HIDE DEF k
  <2>4. Scan!PassOver
    BY <2>1, <2>2, <2>3, PassesOver
  <2>5. QED
    BY <2>2, <2>4 DEF Scan!Next
<1>5. CASE Aligned
  <2>1. PICK k \in 0..Len(buffer) :
            /\ First(buffer, k)
            /\ \/ Incomplete(Drop(buffer, k))
               \/ Return(Drop(buffer, k))
               \/ Reject(Drop(buffer, k))
    BY <1>5 DEF Aligned
  <2> DEFINE rest == Drop(buffer, k)
  <2>2. /\ rest \in Seq(Byte) /\ Len(rest) \in Nat /\ Len(rest) = Len(buffer) - k
        /\ \A i \in 1..Len(rest) : rest[i] = buffer[k + i]
    <3>1. /\ Drop(buffer, k) \in Seq(Byte) /\ Len(Drop(buffer, k)) = Len(buffer) - k
          /\ \A i \in 1..(Len(buffer) - k) : Drop(buffer, k)[i] = buffer[k + i]
      BY <1>1, DropBytes
    <3>2. QED
      BY <1>1, <3>1
  <2>3. \A j \in 0..(k - 1) : RuledOut(received, Gone + j)
    <3>1. k <= Len(buffer) - Len(Magic) /\ \A j \in MagicAt(buffer) : k <= j
      <4>1. k \in MagicAt(buffer) /\ \A j \in MagicAt(buffer) : k <= j
        BY <2>1 DEF First
      <4>2. k \in 0..(Len(buffer) - Len(Magic))
        BY <4>1, Zenon DEF MagicAt
      <4>3. QED
        BY <1>1, <1>2, <4>1, <4>2
    <3>2. \A j \in MagicAt(buffer) : j \in Int
      BY <1>1, <1>2 DEF MagicAt
    <3>3. \A j \in 0..(k - 1) :
            j \in 0..(Len(buffer) - Len(Magic)) /\ j \notin MagicAt(buffer)
      BY <1>1, <1>2, <3>1, <3>2
    <3>4. QED
      BY <3>3, NoMagicRulesOut
  <2>4. /\ Len(rest) >= Size =>
             LET c == SubSeq(rest, 1, Size) IN
             /\ c \in Seq(Byte) /\ Len(c) = Size
             /\ \A i \in 1..Size : c[i] = rest[i]
    <3>1. CASE Len(rest) >= Size
      <4>1. \A i \in 1..Size : rest[i] \in Byte
        BY <1>2, <2>2, <3>1, ElementOfSeq
      <4> HIDE DEF rest
      <4>2. /\ SubSeq(rest, 1, Size) \in Seq(Byte)
            /\ Len(SubSeq(rest, 1, Size)) = IF 1 <= Size THEN Size - 1 + 1 ELSE 0
            /\ \A i \in 1..(Size - 1 + 1) : SubSeq(rest, 1, Size)[i] = rest[1 + i - 1]
        BY <1>2, <4>1, SubSeqProperties
      <4>3. QED
        BY <1>2, <4>2
    <3>2. QED
      BY <3>1
  <2>5. \A i \in 1..Len(rest) : rest[i] = received[(Gone + k) + i]
    <3>1. ASSUME NEW i \in 1..Len(rest) PROVE rest[i] = received[(Gone + k) + i]
      <4>1. k + i \in 1..Len(buffer) /\ (Gone + k) + i = Gone + (k + i)
        BY <1>1, <2>2
      <4>2. QED
        BY <1>1, <2>2, <4>1
    <3>2. QED
      BY <3>1
  <2> HIDE DEF rest
  <2>6. CASE Incomplete(rest)
    <3>1. buffer' = rest /\ UNCHANGED <<received, taken>>
      BY <2>6 DEF Incomplete
    <3>2. BufferInv' /\ Gone' = Gone + k
      BY <2>2, <3>1, BufferShortened
    <3>3. Scan!PassOver
      BY <2>3, <3>1, <3>2, PassesOver
    <3>4. QED
      BY <3>2, <3>3 DEF Scan!Next
  <2>7. CASE Return(rest)
    <3>1. /\ Len(rest) >= Size /\ SubSeq(rest, 1, Size) \in Packet
          /\ buffer' = Drop(rest, Size) /\ received' = received
          /\ taken' = taken \cup {Len(received) - Len(rest)}
      BY <2>7 DEF Return
    <3>2. BufferInv' /\ Gone' = Gone + (k + Size)
      <4>1. /\ buffer' \in Seq(Byte) /\ Len(buffer') = Len(rest) - Size
            /\ \A i \in 1..(Len(rest) - Size) : buffer'[i] = rest[Size + i]
        <5>1. Size \in 0..Len(rest)
          BY <1>2, <2>2, <3>1
        <5>2. QED
          BY <2>2, <3>1, <5>1, DropBytes
      <4>2. k + Size \in 0..Len(buffer) /\ Len(buffer') = Len(buffer) - (k + Size)
        BY <1>1, <1>2, <2>2, <3>1, <4>1
      <4>3. ASSUME NEW i \in 1..(Len(buffer) - (k + Size))
            PROVE  buffer'[i] = buffer[(k + Size) + i]
        <5>1. i \in 1..(Len(rest) - Size) /\ Size + i \in 1..Len(rest)
          BY <1>1, <1>2, <2>2, <3>1
        <5>2. k + (Size + i) = (k + Size) + i
          BY <1>2
        <5>3. QED
          BY <2>2, <4>1, <5>1, <5>2
      <4>4. QED
        BY <3>1, <4>1, <4>2, <4>3, BufferShortened
    <3>3. Scan!FrameAt(Gone + k)
      <4>1. /\ Gone + k \in 0..Len(received) /\ (Gone + k) + Size <= Len(received)
        BY <1>1, <1>2, <2>2, <3>1
      <4>2. Fits(received, Gone + k, SubSeq(rest, 1, Size))
        <5>1. \A i \in 1..Size : i \in 1..Len(rest)
          BY <1>2, <2>2, <3>1
        <5>2. QED
          BY <2>4, <2>5, <3>1, <5>1 DEF Fits
      <4>3. Window(received, Gone + k) \in Packet
        BY <1>1, <3>1, <4>1, <4>2, FrameIffFits
      <4>4. QED
        BY <4>1, <4>3 DEF Scan!FrameAt, Scan!At, Window
    <3>4. /\ Gone + k \in Gone..Len(received) /\ Gone' = (Gone + k) + Size
          /\ Len(received) - Len(rest) = Gone + k
      BY <1>1, <1>2, <2>2, <3>1, <3>2
    <3>5. \A q \in Gone..(Gone + k - 1) : Scan!Hopeless(q)
      <4>1. ASSUME NEW q \in Gone..(Gone + k - 1) PROVE Scan!Hopeless(q)
        <5>1. q - Gone \in 0..(k - 1) /\ q = Gone + (q - Gone) /\ q \in 0..Len(received)
          BY <1>1, <3>4
        <5>2. RuledOut(received, q)
          BY <2>3, <5>1
        <5>3. QED
          BY <1>1, <5>1, <5>2, HopelessRuledOut
      <4>2. QED
        BY <4>1
    <3>6. Scan!Accept
      <4>1. taken' = taken \cup {Gone + k}
        BY <3>1, <3>4, Zenon
      <4>2. PICK q : q = Gone + k
        OBVIOUS
      <4>3. /\ q \in Gone..Len(received) /\ Scan!FrameAt(q) /\ Gone' = q + Size
            /\ taken' = taken \cup {q} /\ received' = received
        BY <3>1, <3>3, <3>4, <4>1, <4>2, Zenon
      <4>4. \A j \in Gone..(q - 1) : Scan!Hopeless(j)
        BY <1>1, <3>5, <4>2
      <4>5. QED
        BY <4>3, <4>4, Zenon DEF Scan!Accept
    <3>7. QED
      BY <3>2, <3>6 DEF Scan!Next
  <2>8. CASE Reject(rest)
    <3>1. /\ Len(rest) >= Size /\ SubSeq(rest, 1, Size) \notin Packet
          /\ buffer' = Drop(rest, 1) /\ UNCHANGED <<received, taken>>
      BY <2>8 DEF Reject
    <3>2. BufferInv' /\ Gone' = Gone + (k + 1)
      <4>1. 1 \in 0..Len(rest)
        BY <1>2, <2>2, <3>1
      <4>2. /\ buffer' \in Seq(Byte) /\ Len(buffer') = Len(rest) - 1
            /\ \A i \in 1..(Len(rest) - 1) : buffer'[i] = rest[1 + i]
        BY <2>2, <3>1, <4>1, DropBytes
      <4>3. k + 1 \in 0..Len(buffer) /\ Len(buffer') = Len(buffer) - (k + 1)
        BY <1>1, <2>2, <4>1, <4>2
      <4>4. ASSUME NEW i \in 1..(Len(buffer) - (k + 1))
            PROVE  buffer'[i] = buffer[(k + 1) + i]
        <5>1. i \in 1..(Len(rest) - 1) /\ 1 + i \in 1..Len(rest) /\ k + (1 + i) = (k + 1) + i
          BY <1>1, <2>2, <4>1
        <5>2. QED
          BY <2>2, <4>2, <5>1
      <4>5. QED
        BY <3>1, <4>2, <4>3, <4>4, BufferShortened
    <3>3. RuledOut(received, Gone + k)
      <4> SUFFICES ASSUME NEW p \in Packet, Fits(received, Gone + k, p) PROVE FALSE
        BY DEF RuledOut
      <4>1. p \in Seq(Byte) /\ Len(p) = Size
        BY PacketBytes
      <4>2. ASSUME NEW i \in 1..Size PROVE SubSeq(rest, 1, Size)[i] = p[i]
        <5>1. i \in 1..Len(rest) /\ (Gone + k) + i <= Len(received)
          BY <1>1, <1>2, <2>2, <3>1
        <5>2. QED
          BY <2>4, <2>5, <3>1, <5>1 DEF Fits
      <4>3. SubSeq(rest, 1, Size) = p
        BY <2>4, <3>1, <4>1, <4>2, SeqEqual
      <4>4. QED
        BY <3>1, <4>3
    <3>4. k + 1 \in 0..Len(buffer)
      BY <1>1, <1>2, <2>2, <3>1
    <3>5. \A j \in 0..((k + 1) - 1) : RuledOut(received, Gone + j)
      BY <2>3, <3>3
    <3>6. Scan!PassOver
      BY <3>1, <3>2, <3>4, <3>5, PassesOver
    <3>7. QED
      BY <3>2, <3>6 DEF Scan!Next
  <2>9. QED
    BY <2>1, <2>6, <2>7, <2>8 DEF rest
<1>6. QED
  BY <1>3, <1>4, <1>5 DEF Parse

(* Bytes that come are received, wherever they are cut.                     *)
LEMMA ArriveStep ==
    ASSUME BufferInv, Arrive
    PROVE  BufferInv' /\ Scan!Receive
<1>1. PICK chunk \in Seq(Byte) : /\ buffer' = buffer \o chunk
                                /\ received' = received \o chunk /\ taken' = taken
  <2>1. \A c \in Chunk : c \in Seq(Byte)
    BY ChunkAssumption DEF Chunk
  <2>2. QED
    BY <2>1 DEF Arrive
<1>2. /\ buffer \in Seq(Byte) /\ received \in Seq(Byte) /\ Len(buffer) \in Nat
      /\ Len(received) \in Nat /\ Gone \in Nat /\ Len(received) = Gone + Len(buffer)
      /\ Len(chunk) \in Nat
      /\ \A i \in 1..Len(buffer) : buffer[i] = received[Gone + i]
  BY DEF BufferInv, Gone
<1>3. /\ buffer' \in Seq(Byte) /\ Len(buffer') = Len(buffer) + Len(chunk)
      /\ \A i \in 1..(Len(buffer) + Len(chunk)) :
           buffer'[i] = IF i <= Len(buffer) THEN buffer[i] ELSE chunk[i - Len(buffer)]
  BY <1>1, <1>2, ConcatProperties
<1>4. /\ received' \in Seq(Byte) /\ Len(received') = Len(received) + Len(chunk)
      /\ \A i \in 1..(Len(received) + Len(chunk)) :
           received'[i] = IF i <= Len(received) THEN received[i] ELSE chunk[i - Len(received)]
  BY <1>1, <1>2, ConcatProperties
<1>5. Gone' = Gone
  BY <1>2, <1>3, <1>4 DEF Gone
<1>6. BufferInv'
  <2>1. ASSUME NEW i \in 1..Len(buffer') PROVE buffer'[i] = received'[Gone + i]
    <3>1. /\ i \in 1..(Len(buffer) + Len(chunk))
          /\ Gone + i \in 1..(Len(received) + Len(chunk))
          /\ i <= Len(buffer) <=> Gone + i <= Len(received)
          /\ (Gone + i) - Len(received) = i - Len(buffer)
      BY <1>2, <1>3
    <3>2. CASE i <= Len(buffer)
      <4>1. i \in 1..Len(buffer) /\ buffer'[i] = buffer[i]
        BY <1>2, <1>3, <3>1, <3>2
      <4>2. received'[Gone + i] = received[Gone + i]
        BY <1>4, <3>1, <3>2
      <4>3. QED
        BY <1>2, <4>1, <4>2
    <3>3. CASE ~(i <= Len(buffer))
      BY <1>3, <1>4, <3>1, <3>3
    <3>4. QED
      BY <3>2, <3>3
  <2>2. Len(buffer') <= Len(received')
    BY <1>2, <1>3, <1>4
  <2>3. QED
    BY <1>3, <1>4, <1>5, <2>1, <2>2 DEF BufferInv
<1>7. SubSeq(received', 1, Len(received)) = received
  <2>1. \A i \in 1..Len(received) : received'[i] \in Byte
    BY <1>2, <1>4, ElementOfSeq
  <2>2. /\ SubSeq(received', 1, Len(received)) \in Seq(Byte)
        /\ Len(SubSeq(received', 1, Len(received))) =
             IF 1 <= Len(received) THEN Len(received) - 1 + 1 ELSE 0
        /\ \A i \in 1..(Len(received) - 1 + 1) :
             SubSeq(received', 1, Len(received))[i] = received'[1 + i - 1]
    BY <1>2, <2>1, SubSeqProperties
  <2>3. \A i \in 1..Len(received) : SubSeq(received', 1, Len(received))[i] = received[i]
    BY <1>2, <1>4, <2>2
  <2>4. Len(SubSeq(received', 1, Len(received))) = Len(received)
    BY <1>2, <2>2
  <2>5. QED
    BY <1>2, <2>2, <2>3, <2>4, SeqEqual
<1>8. QED
  BY <1>1, <1>2, <1>4, <1>5, <1>6, <1>7 DEF Scan!Receive

LEMMA BufferInit == Init => BufferInv /\ Scan!Init
  BY DEF Init, BufferInv, Scan!Init, Gone

LEMMA BufferStep ==
    BufferInv /\ [Next]_vars => BufferInv' /\ [Scan!Next]_(Scan!vars)
<1> SUFFICES ASSUME BufferInv, [Next]_vars PROVE BufferInv' /\ [Scan!Next]_(Scan!vars)
  OBVIOUS
<1>1. CASE EnterParse \/ GiveUp \/ UNCHANGED vars
  <2>1. UNCHANGED <<buffer, received, taken>> /\ Gone' = Gone
    BY <1>1 DEF EnterParse, GiveUp, vars, Gone
  <2>2. QED
    BY <2>1 DEF BufferInv, Scan!vars
<1>2. CASE Arrive
  BY <1>2, ArriveStep DEF Scan!Next
<1>3. CASE Parse
  BY <1>3, ParseStep
<1>4. QED
  BY <1>1, <1>2, <1>3 DEF Next

-----------------------------------------------------------------------------
(* The search, the deletions and the chunks amount to one scan of the bytes *)
(* from left to right, for every protocol and every way they are cut.       *)
THEOREM DecoderScans == Spec => Scanned
  BY BufferInit, BufferStep, PTL DEF Spec, Scanned, Scan!Spec

(* A scan loses no frame.                                                   *)
THEOREM ScanComplete == Scanned => []NoFrameMissed
  BY ScanInit, ScanStep, ScanLosesNone, PTL DEF Scanned, Scan!Spec

(* So that no valid frame in the bytes dealt with was lost, whatever is cut *)
(* or damaged around it.                                                    *)
THEOREM NothingMissed == Spec => []NoFrameMissed
  BY DecoderScans, ScanComplete, PTL
=============================================================================
