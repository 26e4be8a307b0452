------------------------------ MODULE Packets ------------------------------
(***************************************************************************)
(* What tools/export_pcap.py writes and tools/pcap_to_csv.py reads: the    *)
(* rows of a capture's CSV file, and the packets of a pcap file.           *)
(*                                                                         *)
(* A packet keeps its time, the stream it belongs to (the four addresses   *)
(* that are the key of pcap_to_csv's `streams`), its sequence and          *)
(* acknowledgement numbers, flags and payload.  Checksums and the other    *)
(* header fields are left out.  Times are in tenths of a millisecond.      *)
(***************************************************************************)
EXTENDS Framing, SequencesExt

CONSTANTS
  Clients,      (* (ip, port) of the client of each connection               *)
  SEQS          (* sequence numbers are modulo SEQS: 2^32                    *)

ASSUME SEQSAssumption == SEQS \in Nat /\ SEQS > 1
ASSUME ClientsAssumption == Clients # {}

Streams == Clients \X {"req", "resp"}
Other(d) == IF d = "req" THEN "resp" ELSE "req"

Row(client, direction, time, raw) ==
  [client_port |-> client, direction |-> direction, wall_time |-> time, raw_hex |-> raw]
StreamOf(r) == <<r.client_port, r.direction>>

SYN == "SYN"
ACK == "ACK"
PSH == "PSH"
FIN == "FIN"
Packet(client, direction, time, seq, ack, flags, payload) ==
  [client_port |-> client, direction |-> direction, wall_time |-> time,
   seq |-> seq, ack |-> ack, flags |-> flags, payload |-> payload]

\* What a packet takes of its sender's sequence numbers.
Takes(p) == Len(p.payload) + (IF p.flags \cap {SYN, FIN} # {} THEN 1 ELSE 0)

\* The elements of s at the places in S, as list.sort by time leaves them: elements
\* of equal times keep their order.
SortedByTime(s, S) ==
  LET UpTo(k) == {j \in S : \/ s[j].wall_time < s[k].wall_time
                            \/ s[j].wall_time = s[k].wall_time /\ j <= k}
      rank == [k \in S |-> Cardinality(UpTo(k))]
  IN [n \in 1..Cardinality(S) |-> s[CHOOSE k \in S : rank[k] = n]]

\* The rows of s that have bytes, by time.
HasBytes(r) == r.raw_hex # <<>>
WithBytes(s) == SortedByTime(s, {k \in 1..Len(s) : HasBytes(s[k])})
=============================================================================
