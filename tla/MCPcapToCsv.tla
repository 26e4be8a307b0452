---------------------------- MODULE MCPcapToCsv ----------------------------
(* Instances of PcapToCsv for TLC.  A header is one byte, the length field;   *)
(* frames are two or three bytes.  Exported files have up to three rows of    *)
(* two connections, with times half a millisecond apart or equal.             *)
EXTENDS PcapToCsv

MCContent == <<2, 6, 3, 7, 8>>

Whole == <<2, 0>>
Part  == <<3, 0>>      \* all a connection had left when it closed
Bad   == <<9, 0>>

CONSTANT MAX_ROWS

AnyRow == {Row(c, d, t, raw) : c \in Clients, d \in {"req", "resp"}, t \in {20, 25},
                               raw \in {Whole, Part, Bad, <<>>}}

\* A stream's rows are in the order of their times, and a part of a frame is
\* its last.
Recordable(file) ==
  \A m \in 1..Len(file) : \A n \in 1..m-1 :
    StreamOf(file[n]) = StreamOf(file[m]) =>
      file[n].wall_time <= file[m].wall_time /\ ~IsPart(file[n].raw_hex)

MCRowFiles == {file \in UNION {[1..n -> AnyRow] : n \in 1..MAX_ROWS} : Recordable(file)}
=============================================================================
