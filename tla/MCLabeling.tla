----------------------------- MODULE MCLabeling -----------------------------
(***************************************************************************)
(* Labeling with the scripts' packets cut to what tells them apart.  The   *)
(* basic replay sends its seed and then the same bytes again; the others   *)
(* count transaction identifiers, and a cover poll may be, byte for byte,  *)
(* a poll of the operator's.                                               *)
(***************************************************************************)
EXTENDS Labeling

Packet(kind, b) == [kind |-> kind, raw_hex |-> b]

MCBytes == {"x", "y", "z"}
MCOwnPort == [replay |-> 2, injection |-> 3]
MCBasicPlan ==
  [replay |-> <<Packet("seed", "x"), Packet("attack", "x"), Packet("attack", "x")>>,
   injection |-> <<Packet("attack", "y"), Packet("attack", "z")>>]
MCHarderPlan ==
  [replay |-> <<Packet("cover", "x"), Packet("attack", "y")>>,
   injection |-> <<Packet("cover", "x"), Packet("attack", "z")>>]
=============================================================================
