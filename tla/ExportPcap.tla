---------------------------- MODULE ExportPcap ----------------------------
(***************************************************************************)
(* export of tools/export_pcap.py: the rows of a capture as the packets of *)
(* one TCP connection per client port, with a handshake 1 ms before its    *)
(* first frame, a close 1 ms after its last, and sequence numbers that a   *)
(* tool that reassembles streams accepts.                                  *)
(***************************************************************************)
EXTENDS Packets

CONSTANTS
  CLIENT_SEQ,   (* the first sequence number of a client: 1000 in the code   *)
  PLC_SEQ       (* ... and of the PLC: 5000                                  *)

ASSUME FirstSeqAssumption == CLIENT_SEQ \in Nat /\ PLC_SEQ \in Nat

VARIABLES
  step,     (* of the tool at work: load, export, write, and then the reader *)
  rows,     (* the rows of the CSV file; once loaded, those that are exported *)
  row,      (* the row that is next                                          *)
  packets,  (* built so far                                                  *)
  conns,    (* for each open connection, the next c_seq and s_seq            *)
  pcap      (* the packets of the pcap file                                  *)

exportVars == <<rows, row, packets, conns>>

Load ==
  /\ step = "load"
  /\ rows' = WithBytes(rows)
  /\ row' = 1
  /\ step' = "export"
  /\ UNCHANGED <<packets, conns, pcap>>

\* The close follows a connection's last frame, by position and not by time.
last_index(port) == SelectLastInSeq(rows, LAMBDA r : r.client_port = port)
IsLast_ByTime(k) == rows[k].wall_time = rows[last_index(rows[k].client_port)].wall_time

IsLast(k) == k = last_index(rows[k].client_port)

\* c2s and s2c: one packet of port, from the side that sends direction d.
Put(state, port, d, time, flags, payload) ==
  LET p == Packet(port, d, time, state.next[d], state.next[Other(d)], flags, payload)
  IN [packets |-> Append(state.packets, p),
      next |-> [state.next EXCEPT ![d] = @ + Takes(p)]]

Handshake(state, port, time) ==
  LET syn == Packet(port, "req", time - 10, CLIENT_SEQ, 0, {SYN}, <<>>)
      opened == [packets |-> Append(state.packets, syn),
                 next |-> [req |-> CLIENT_SEQ + 1, resp |-> PLC_SEQ]]
  IN Put(Put(opened, port, "resp", time - 9, {SYN, ACK}, <<>>),
         port, "req", time - 8, {ACK}, <<>>)

Close(state, port, time) ==
  Put(Put(Put(state, port, "req", time + 10, {FIN, ACK}, <<>>),
          port, "resp", time + 11, {FIN, ACK}, <<>>),
      port, "req", time + 12, {ACK}, <<>>)

ExportRow ==
  /\ step = "export"
  /\ row <= Len(rows)
  /\ LET r == rows[row]
         port == r.client_port
         before == [packets |-> packets,
                    next |-> IF port \in DOMAIN conns THEN conns[port] ELSE <<>>]
         opened == IF port \in DOMAIN conns THEN before
                   ELSE Handshake(before, port, r.wall_time)
         sent == Put(opened, port, r.direction, r.wall_time, {PSH, ACK}, r.raw_hex)
         after == IF IsLast(row) THEN Close(sent, port, r.wall_time) ELSE sent
     IN /\ packets' = after.packets
        /\ conns' = [q \in DOMAIN conns \cup {port} |-> IF q = port THEN after.next ELSE conns[q]]
  /\ row' = row + 1
  /\ UNCHANGED <<step, rows, pcap>>

WritePcap ==
  /\ step = "export"
  /\ row > Len(rows)
  /\ pcap' = SortedByTime(packets, 1..Len(packets))
  /\ step' = "convert"
  /\ UNCHANGED exportVars

Export == Load \/ ExportRow \/ WritePcap

----------------------------------------------------------------------------
(* Properties.                                                             *)

FirstSeq(d) == IF d = "req" THEN CLIENT_SEQ ELSE PLC_SEQ

\* The packets of a connection among the first n of s, and the sequence number
\* that follows those of its side d.
Among(s, n, port) == {k \in 1..n : s[k].client_port = port}
Following(s, n, port, d) ==
  LET sent == {k \in Among(s, n, port) : s[k].direction = d}
      p == s[Max(sent)]
  IN IF sent = {} THEN FirstSeq(d) ELSE p.seq + Takes(p)

\* Every connection of the file opens with a handshake, each side continues where
\* it stopped and acknowledges all that came, and nothing is sent after a close:
\* "with correct sequence/ack numbers, so stream-reassembling tools accept it"
\* (export_pcap.py:11-14), though a connection's last frames may share a time
\* and thus lie on either side of a close that was placed by time (85-89).
Fits(s, n) ==
  LET p == s[n]
      earlier == Among(s, n - 1, p.client_port)
      Expected(d) == Following(s, n - 1, p.client_port, d)
  IN /\ p.seq = Expected(p.direction)
     /\ ACK \in p.flags => p.ack = Expected(Other(p.direction))
     /\ p.flags = {SYN} <=> earlier = {}
     /\ p.flags = {SYN, ACK} <=> Cardinality(earlier) = 1
     /\ SYN \in p.flags => Cardinality(earlier) < 2
     /\ p.payload # <<>> =>
          /\ Cardinality(earlier) > 2
          /\ p.flags = {PSH, ACK}
          /\ \A k \in earlier : /\ FIN \notin s[k].flags
                                /\ s[k].payload = <<>> => Cardinality(Among(s, k, p.client_port)) <= 3
ToolsAcceptIt ==
  step \in {"convert", "done"} /\ rows # <<>> => \A n \in 1..Len(pcap) : Fits(pcap, n)
=============================================================================
