---------------------------- MODULE PcapToCsv ----------------------------
(***************************************************************************)
(* convert of tools/pcap_to_csv.py: the payload of each TCP stream of a    *)
(* pcap file is put together in sequence order as the packets are read,    *)
(* cut into frames, and written as rows sorted by time.  The file is an    *)
(* exported capture (ExportPcap), or what a sniffer saw of a connection:   *)
(* segments that may be lost, repeated, late, split anew or overlapping,   *)
(* and packets that are none of Modbus's.                                  *)
(***************************************************************************)
EXTENDS ExportPcap

CONSTANTS
  Foreign,      (* the sender of anything that is not Modbus                 *)
  Content,      (* the bytes of the sniffed stream, no two of them equal     *)
  FirstSeqs,    (* the sequence numbers its first byte may have              *)
  RowFiles,     (* the CSV files that may be exported                        *)
  MAX_PACKETS   (* bound of the model: the packets a sniffer sees            *)

ASSUME ContentAssumption ==
  /\ Content \in Seq(Nat) /\ IsInjective(Content)
  /\ 2 * Len(Content) <= SEQS
  /\ FirstSeqs \subseteq 0..SEQS-1

\* The rows of a connection's direction are what the tap logged of it: yields of
\* iter_frames, in the order of their times, and at last perhaps a part of a frame.
IsYield(raw) == Cuts(raw) = <<0, Len(raw)>>
IsPart(raw) == raw # <<>> /\ Cuts(raw) = <<0>>
ASSUME RowFilesAssumption ==
  \A file \in RowFiles :
    /\ file \in Seq([client_port : Clients, direction : {"req", "resp"},
                     wall_time : Int, raw_hex : Seq(Nat)])
    /\ \A m \in 1..Len(file) :
         /\ file[m].raw_hex = <<>> \/ IsYield(file[m].raw_hex) \/ IsPart(file[m].raw_hex)
         /\ \A n \in 1..m-1 : StreamOf(file[n]) = StreamOf(file[m]) =>
              file[n].wall_time <= file[m].wall_time /\ ~IsPart(file[n].raw_hex)

VARIABLES
  isn,      (* the sequence number of the first byte of Content, if sniffed  *)
  at,       (* packets read                                                  *)
  streams,  (* what is kept of each stream: buf, next and ts                 *)
  keys,     (* the streams with an entry, in the order they got it           *)
  records,  (* the rows so far                                               *)
  skipped,  (* how often each reason to skip something was counted           *)
  csv       (* the rows of the file written                                  *)

convertVars == <<isn, at, streams, keys, records, skipped, csv>>
vars == <<step, exportVars, pcap, convertVars>>

----------------------------------------------------------------------------
(* The sniffer's file.                                                     *)

Sniffed == CHOOSE s \in Streams : TRUE
Seqno(n) == (isn + n - 1) % SEQS

Capture(p) ==
  /\ step = "sniff"
  /\ Len(pcap) < MAX_PACKETS
  /\ pcap' = Append(pcap, p)
  /\ UNCHANGED <<step, exportVars, convertVars>>

\* Any part of the stream, whatever was captured before.
CaptureSegment(first, last) ==
  Capture(Packet(Sniffed[1], Sniffed[2], Len(pcap), Seqno(first), 0, {ACK},
                 SubSeq(Content, first, last)))
CaptureForeign == Capture(Packet(Foreign, "req", Len(pcap), 0, 0, {}, <<>>))

EndOfCapture ==
  /\ step = "sniff"
  /\ step' = "convert"
  /\ UNCHANGED <<pcap, exportVars, convertVars>>

----------------------------------------------------------------------------
(* convert.                                                                *)

NONE == -1
NewStream == [buf |-> <<>>, next |-> NONE, ts |-> 0]

SeqDiff_Unsigned(a, b) == (a - b) % SEQS

\* a - b as a signed number.
SeqDiff(a, b) ==
  LET d == (a - b) % SEQS IN IF d >= SEQS \div 2 THEN d - SEQS ELSE d

Pkt == pcap[at + 1]
Key == StreamOf(Pkt)
st == streams[Key]
Next_(s, seq) == IF s.next = NONE THEN seq ELSE s.next
Ahead == SeqDiff(Pkt.seq, Next_(st, Pkt.seq))

Reading == step = "convert" /\ at < Len(pcap)
Count(reason) == skipped' = [skipped EXCEPT ![reason] = @ + 1]

\* Not IPv4, not TCP, not on the port ...: counted by reason.
SkipForeign ==
  /\ Reading
  /\ Key \notin Streams
  /\ at' = at + 1
  /\ Count("foreign")
  /\ UNCHANGED <<step, pcap, exportVars, isn, streams, keys, records, csv>>

\* A handshake, a pure ACK or a FIN is not counted.
SkipEmpty ==
  /\ Reading
  /\ Key \in Streams
  /\ Pkt.payload = <<>>
  /\ at' = at + 1
  /\ UNCHANGED <<step, pcap, exportVars, isn, streams, keys, records, skipped, csv>>

\* A stream's first payload makes it an entry.
HasPayload ==
  /\ Reading
  /\ Key \in Streams
  /\ Pkt.payload # <<>>
  /\ keys' = IF Contains(keys, Key) THEN keys ELSE Append(keys, Key)

Record(ts, key, raw) == Row(key[1], key[2], ts, raw)

\* st takes payload, from sequence number next on, after buf: the frames that are
\* whole now become records and the rest stays in the buffer.
Take(flushed, buf, next, payload) ==
  LET all == buf \o payload
      frames == [k \in 1..Len(iter_frames(all)) |->
                   Record(Pkt.wall_time, Key, iter_frames(all)[k])]
  IN /\ streams' = [streams EXCEPT ![Key] =
           [buf |-> SubSeq(all, Taken(all) + 1, Len(all)),
            next |-> (next + Len(payload)) % SEQS,
            ts |-> Pkt.wall_time]]
     /\ records' = records \o flushed \o frames

InOrder ==
  /\ HasPayload
  /\ Ahead = 0
  /\ Take(<<>>, st.buf, Next_(st, Pkt.seq), Pkt.payload)
  /\ at' = at + 1
  /\ UNCHANGED <<step, pcap, exportVars, isn, skipped, csv>>

\* The bytes in between were never captured: the frame that was being put
\* together is broken, and framing restarts here.
Broken == IF st.buf = <<>> THEN <<>> ELSE <<Record(st.ts, Key, st.buf)>>
Gap_CountsBroken ==
  /\ HasPayload
  /\ Ahead > 0
  /\ IF st.buf # <<>> THEN Count("gap") ELSE UNCHANGED skipped
  /\ Take(Broken, <<>>, Pkt.seq, Pkt.payload)
  /\ at' = at + 1
  /\ UNCHANGED <<step, pcap, exportVars, isn, csv>>

Gap ==
  /\ HasPayload
  /\ Ahead > 0
  /\ Count("gap")
  /\ Take(Broken, <<>>, Pkt.seq, Pkt.payload)
  /\ at' = at + 1
  /\ UNCHANGED <<step, pcap, exportVars, isn, csv>>

SeenBefore ==
  /\ HasPayload
  /\ Ahead < 0 /\ -Ahead >= Len(Pkt.payload)
  /\ Count("retransmission")
  /\ at' = at + 1
  /\ UNCHANGED <<step, pcap, exportVars, isn, streams, records, csv>>

Overlap_CutsOneMore ==
  /\ HasPayload
  /\ Ahead < 0 /\ -Ahead < Len(Pkt.payload)
  /\ Take(<<>>, st.buf, st.next, SubSeq(Pkt.payload, 2 - Ahead, Len(Pkt.payload)))
  /\ at' = at + 1
  /\ UNCHANGED <<step, pcap, exportVars, isn, skipped, csv>>

\* Only the new tail of the payload is kept.
Overlap ==
  /\ HasPayload
  /\ Ahead < 0 /\ -Ahead < Len(Pkt.payload)
  /\ Take(<<>>, st.buf, st.next, SubSeq(Pkt.payload, 1 - Ahead, Len(Pkt.payload)))
  /\ at' = at + 1
  /\ UNCHANGED <<step, pcap, exportVars, isn, skipped, csv>>

----------------------------------------------------------------------------
(* The end of the file: what is left in a buffer is a row too, in the      *)
(* order the streams were first seen, and the rows are sorted by time.     *)

Left == [k \in 1..Len(keys) |-> Record(streams[keys[k]].ts, keys[k], streams[keys[k]].buf)]
Incomplete == {key \in Streams : streams[key].buf # <<>>}

WriteCsv_OnlyFrames ==
  /\ step = "convert"
  /\ at = Len(pcap)
  /\ csv' = WithBytes(records)
  /\ skipped' = [skipped EXCEPT !["incomplete"] = Cardinality(Incomplete)]
  /\ step' = "done"
  /\ UNCHANGED <<pcap, exportVars, isn, at, streams, keys, records>>

WriteCsv ==
  /\ step = "convert"
  /\ at = Len(pcap)
  /\ csv' = WithBytes(records \o Left)
  /\ skipped' = [skipped EXCEPT !["incomplete"] = Cardinality(Incomplete)]
  /\ step' = "done"
  /\ UNCHANGED <<pcap, exportVars, isn, at, streams, keys, records>>

Convert == SkipForeign \/ SkipEmpty \/ InOrder \/ Gap \/ SeenBefore \/ Overlap \/ WriteCsv

----------------------------------------------------------------------------
Reasons == {"foreign", "gap", "retransmission", "incomplete"}

Init ==
  /\ \/ step = "load" /\ rows \in RowFiles /\ isn = NONE
     \/ step = "sniff" /\ rows = <<>> /\ isn \in FirstSeqs
  /\ row = 1
  /\ packets = <<>>
  /\ conns = <<>>
  /\ pcap = <<>>
  /\ at = 0
  /\ streams = [s \in Streams |-> NewStream]
  /\ keys = <<>>
  /\ records = <<>>
  /\ skipped = [r \in Reasons |-> 0]
  /\ csv = <<>>

Sniff ==
  \/ \E first \in 1..Len(Content) : \E last \in first..Len(Content) : CaptureSegment(first, last)
  \/ CaptureForeign
  \/ EndOfCapture

Next ==
  \/ Export /\ UNCHANGED convertVars
  \/ Sniff
  \/ Convert

Spec == Init /\ [][Next]_vars

----------------------------------------------------------------------------
(* Properties.                                                             *)

Exported == step = "done" /\ isn = NONE
SniffedDone == step = "done" /\ isn # NONE

\* The places in Content of the bytes of the rows, and of those the packets carried.
Place(b) == CHOOSE n \in 1..Len(Content) : Content[n] = b
Places(bytes) == {Place(bytes[i]) : i \in 1..Len(bytes)}
Written == UNION {Places(csv[k].raw_hex) : k \in 1..Len(csv)}
Carried == UNION {Places(pcap[k].payload) : k \in 1..Len(pcap)}

\* A byte is in one row only, and the rows follow each other as the bytes of the
\* stream do, whatever was repeated, split anew or wrapped: "a real capture
\* contains TCP retransmissions; counting them would duplicate Modbus frames"
\* (pcap_to_csv.py:134-137).
NoByteTwice ==
  SniffedDone =>
    \A n \in 1..Len(csv) : \A m \in 1..n :
      \A j \in 1..Len(csv[n].raw_hex) : \A i \in 1..Len(csv[m].raw_hex) :
        m < n \/ i < j => Place(csv[m].raw_hex[i]) < Place(csv[n].raw_hex[j])

\* Where bytes are missing between those that were written, a gap was counted, and
\* none is counted elsewhere; the last byte captured is there: "a capture that lost
\* data [...] cannot silently produce a short CSV" (pcap_to_csv.py:21-23).
LossIsCounted ==
  SniffedDone /\ Carried # {} =>
    /\ Max(Carried) \in Written
    /\ skipped["gap"] = Cardinality({n \in Written \ {Max(Carried)} : n + 1 \notin Written})

\* With no gap from the first byte of the stream on, the rows are the frames of the
\* stream, as if it had come in one piece: "a frame can span two segments, and a
\* segment can hold several frames" (pcap_to_csv.py:16-19).  At an impossible length
\* field there is no next frame to speak of.
WellFramed == \A k \in 1..Len(Cuts(Content)) : ~BadHeader(Content, Cuts(Content)[k], Len(Content))
FramesDespiteSegmentation ==
  SniffedDone /\ WellFramed /\ skipped["gap"] = 0 /\ 1 \in Written =>
    LET all == SubSeq(Content, 1, Max(Carried))
        rest == SubSeq(all, Taken(all) + 1, Len(all))
    IN [k \in 1..Len(csv) |-> csv[k].raw_hex] =
         iter_frames(all) \o (IF rest = <<>> THEN <<>> ELSE <<rest>>)

\* A capture that is exported and read back is the capture: each stream has its
\* rows, malformed ones and a last part of a frame included, and the order of the
\* whole is that of the times, ties as in the file, unless a part of a frame is
\* appended: "The Modbus bytes, their order and their timestamps are exactly as
\* captured" (export_pcap.py:23).
RoundTrip ==
  Exported =>
    /\ \E source \in Bijection(1..Len(csv), 1..Len(rows)) :
         /\ \A k \in 1..Len(csv) : csv[k] = rows[source[k]]
         /\ \A k \in 1..Len(csv) : \A j \in 1..k-1 :
              StreamOf(csv[j]) = StreamOf(csv[k]) => source[j] < source[k]
    /\ skipped["incomplete"] = 0 => csv = rows
    /\ skipped["gap"] = 0 /\ skipped["retransmission"] = 0
=============================================================================
