---------------------------- MODULE MCModbusTap ----------------------------
(* Instances of ModbusTap for TLC.  Two header bytes, the second of which is  *)
(* the length field; 2 is the one valid length, so a frame is three bytes.   *)
EXTENDS ModbusTap

Whole == <<0, 2, 0>>      \* a well-formed frame
Part  == <<0, 2>>         \* a frame cut short
Bad   == <<0, 9>>         \* a header with an impossible length field

AnyRequests == {Whole, Part, Bad}
ShortFrame == {<<2, 0>>}   \* the same with a header of one byte, the length field
OneReply == {Whole}
=============================================================================
