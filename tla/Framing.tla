------------------------------ MODULE Framing ------------------------------
(***************************************************************************)
(* The cutting of a byte stream into Modbus/TCP frames: iter_frames of     *)
(* testbed/modbus_tap.py, which the tap runs on its rolling buffers and    *)
(* tools/pcap_to_csv.py on the streams it puts together.                   *)
(*                                                                         *)
(* A buffer is s[a+1 .. b]: the part of a sequence of bytes that has been  *)
(* received and not yet been cut off.                                      *)
(*                                                                         *)
(* Here as in the other modules, a definition whose name has the form      *)
(* D_HowItIsWrong is D with a plausible bug in it.  No behaviour uses one: *)
(* they show that a property would notice (README.md, "Mutants").          *)
(***************************************************************************)
EXTENDS Integers, Sequences

CONSTANTS
  HEADER,       (* bytes of an MBAP header: 7 in the code                    *)
  LENGTH_AT,    (* which of them holds the length field                      *)
  MIN_LENGTH,   (* the smallest and ...                                      *)
  MAX_LENGTH    (* ... the largest length field of a valid frame             *)

ASSUME FramingAssumption ==
  /\ HEADER \in Nat \ {0}
  /\ LENGTH_AT \in 1..HEADER
  /\ MIN_LENGTH \in Nat
  /\ MAX_LENGTH \in Nat
  /\ MIN_LENGTH >= 2

\* The buffer starts with a whole header, whose length field ...
HasHeader(a, b) == b - a >= HEADER
LengthField(s, a) == s[a + LENGTH_AT]
ValidLength(s, a) == LengthField(s, a) \in MIN_LENGTH..MAX_LENGTH
Total_Subtracts(s, a) == LengthField(s, a) - HEADER - 1

Total(s, a) == HEADER - 1 + LengthField(s, a)

\* ... announces a frame that the buffer holds whole, or no frame at all.
WholeFrame(s, a, b) ==
  HasHeader(a, b) /\ ValidLength(s, a) /\ Total(s, a) <= b - a
BadHeader(s, a, b) == HasHeader(a, b) /\ ~ValidLength(s, a)

\* There is something for iter_frames to yield.
Unit(s, a, b) == WholeFrame(s, a, b) \/ BadHeader(s, a, b)

\* Where the yields of all of s begin and end: whole frames while there are any,
\* and everything that is left at the first impossible length field.
Cuts(s) ==
  LET n == Len(s)
      from[a \in 0..n] ==
        IF WholeFrame(s, a, n) THEN <<a>> \o from[a + Total(s, a)]
        ELSE IF BadHeader(s, a, n) THEN <<a, n>>
        ELSE <<a>>
  IN from[0]

\* The yields, each a part of s, and how much of s they take together.
iter_frames(s) ==
  LET cuts == Cuts(s) IN [k \in 1..Len(cuts) - 1 |-> SubSeq(s, cuts[k] + 1, cuts[k + 1])]
Taken(s) == LET cuts == Cuts(s) IN cuts[Len(cuts)]
=============================================================================
