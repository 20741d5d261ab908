------------------------------ MODULE MCFraming ------------------------------
(***************************************************************************)
(* Framing on a small protocol: a magic of two bytes, one byte of payload  *)
(* that may look like the beginning of a magic, and a check byte that may  *)
(* too.                                                                    *)
(***************************************************************************)
EXTENDS Framing

MCByte == {"I", "M", "x"}

MCMagic == <<"I", "M">>

Check(payload) == CASE payload = "I" -> "M" [] payload = "M" -> "x" [] payload = "x" -> "I"

MCPacket == {<<"I", "M", b, Check(b)>> : b \in MCByte}
=============================================================================
