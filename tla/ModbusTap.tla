----------------------------- MODULE ModbusTap -----------------------------
(***************************************************************************)
(* The transparent TCP tap between the SCADA side (HMI, attacker) and the  *)
(* PLC: testbed/modbus_tap.py.  Each accepted connection is served by two  *)
(* pump threads, one per direction.  A pump reads a chunk of bytes, cuts   *)
(* every complete Modbus frame off its rolling buffer, appends one CSV row *)
(* per frame under the logger's lock, and only then forwards the chunk.    *)
(*                                                                         *)
(* A byte stream is an immutable sequence read through indices: a pump has *)
(* received the first got[p] bytes of sent[p], its parser has yielded the  *)
(* first cut[p] of them, and the first fwd[p] are at the destination.  So  *)
(* the code's `buffer` is bytes cut[p]+1 .. got[p], and its `chunk`, while *)
(* one is held, is bytes fwd[p]+1 .. got[p].  A CSV row is the range of    *)
(* bytes its raw_hex holds, with the stream it belongs to and its stamp.   *)
(***************************************************************************)
EXTENDS Framing

CONSTANTS
  Conns,        (* client connections, each with its own (ip, port)          *)
  NoPump,       (* the logger's lock is free                                 *)
  Requests,     (* what a client may write in one call: sequences of bytes   *)
  Replies,      (* what the PLC may answer a request with                    *)
  CHUNK,        (* the most bytes one recv returns: 4096 in the code         *)
  MAX_BYTES,    (* bound of the model: the longest stream a peer writes      *)
  Faults        (* bound of the model: the faults that may happen, of         *)
                (* "client", "plc" (an end disappears), "unreachable" (the    *)
                (* PLC), "interrupt" and "kill" (of the tap)                  *)

Directions == {"req", "resp"}
Pumps == Conns \X Directions

ASSUME ConnsAssumption == NoPump \notin Pumps

ASSUME BoundsAssumption ==
  /\ CHUNK \in Nat \ {0}
  /\ MAX_BYTES \in Nat

ASSUME PayloadAssumption ==
  /\ Requests \subseteq Seq(Nat)
  /\ Replies \subseteq Seq(Nat) \ {<<>>}

VARIABLES
  tap,       (* the process: up, stopping, closed (its logger is), down      *)
  conn,      (* life of a connection in main and handle_client               *)
  gone,      (* ends of connections that have been reset by their owner      *)
  sent,      (* the bytes the source of a stream has written                 *)
  ends,      (* where in the stream each write of its source ended           *)
  fin,       (* the source has finished its stream                           *)
  answered,  (* for each reply the PLC wrote, where its request ends         *)
  got, cut, fwd,  (* bytes received, yielded by the parser, forwarded        *)
  shut,      (* the pump has half-closed its destination                     *)
  pc,        (* where a pump thread is                                       *)
  frame,     (* the frame a pump is logging, and where it goes on after that *)
  lock,      (* the holder of CsvLogger._lock                                *)
  file,      (* rows written to the CSV file object ...                      *)
  flushed,   (* ... how many of them have reached the disk                   *)
  clock      (* the time of the last stamp                                   *)

peerVars == <<gone, sent, ends, fin, answered>>
pumpVars == <<got, cut, fwd, shut, pc, frame>>
logVars  == <<lock, file, flushed, clock>>
vars == <<tap, conn, peerVars, pumpVars, logVars>>

----------------------------------------------------------------------------
(* Streams, their ends, and the rows of the file.                          *)

Req(c)  == <<c, "req">>
Resp(c) == <<c, "resp">>

\* The two ends of a connection, and which of them a stream runs between.
Ends == Conns \X {"client", "plc"}
Source(p) == <<p[1], IF p[2] = "req" THEN "client" ELSE "plc">>
Dest(p)   == <<p[1], IF p[2] = "req" THEN "plc" ELSE "client">>

\* Where a row lies in the file, and whether the disk holds byte o of stream p.
RowOf(p, i) == file[i].pump = p
OnDisk(p, o) == \E i \in 1..flushed : RowOf(p, i) /\ o \in file[i].first..file[i].last

NoFrame == [first |-> 0, last |-> 0, stamp |-> 0, then |-> "recv"]

----------------------------------------------------------------------------
(* The peers.  The client is an attack script or the HMI: it connects,     *)
(* writes requests, and closes its side or is reset at any moment.  The    *)
(* PLC answers whole requests in order; it closes once it has read the end *)
(* of the requests and owes no reply, or is reset at any moment.  Neither  *)
(* has a connection any more once the tap is down.                         *)

Running == tap # "down"

ClientConnect(c) ==
  /\ tap = "up"
  /\ conn[c] = "none"
  /\ conn' = [conn EXCEPT ![c] = "backlog"]
  /\ UNCHANGED <<tap, peerVars, pumpVars, logVars>>

Emit(p, m) ==
  /\ Len(sent[p]) + Len(m) <= MAX_BYTES
  /\ sent' = [sent EXCEPT ![p] = @ \o m]
  /\ ends' = [ends EXCEPT ![p] = Append(@, Len(sent[p]) + Len(m))]

ClientWrite(c, m) ==
  /\ Running
  /\ conn[c] \in {"backlog", "accepted", "open"}
  /\ ~fin[Req(c)]
  /\ <<c, "client">> \notin gone
  /\ Emit(Req(c), m)
  /\ UNCHANGED <<tap, conn, gone, fin, answered, pumpVars, logVars>>

ClientClose(c) ==
  /\ Running
  /\ conn[c] \in {"backlog", "accepted", "open"}
  /\ ~fin[Req(c)]
  /\ fin' = [fin EXCEPT ![Req(c)] = TRUE]
  /\ UNCHANGED <<tap, conn, gone, sent, ends, answered, pumpVars, logVars>>

\* The end disappears: a reset, or the death of the process that owned it.
Reset(e) ==
  /\ Running
  /\ conn[e[1]] \in (IF e[2] = "plc" THEN {"open"} ELSE {"backlog", "accepted", "open"})
  /\ e \notin gone
  /\ e[2] \in Faults
  /\ gone' = gone \cup {e}
  /\ UNCHANGED <<tap, conn, sent, ends, fin, answered, pumpVars, logVars>>

\* The PLC has consumed the request stream up to the end of the last request
\* it answered.
PlcAt(c) == IF answered[c] = <<>> THEN 0 ELSE answered[c][Len(answered[c])]
PendingRequest(c) == WholeFrame(sent[Req(c)], PlcAt(c), fwd[Req(c)])

PlcReply(c, m) ==
  /\ Running
  /\ conn[c] = "open"
  /\ <<c, "plc">> \notin gone
  /\ ~fin[Resp(c)]
  /\ PendingRequest(c)
  /\ Emit(Resp(c), m)
  /\ answered' = [answered EXCEPT
       ![c] = Append(@, PlcAt(c) + Total(sent[Req(c)], PlcAt(c)))]
  /\ UNCHANGED <<tap, conn, gone, fin, pumpVars, logVars>>

PlcClose(c) ==
  /\ Running
  /\ conn[c] = "open"
  /\ shut[Req(c)]
  /\ ~fin[Resp(c)]
  /\ ~PendingRequest(c)
  /\ fin' = [fin EXCEPT ![Resp(c)] = TRUE]
  /\ UNCHANGED <<tap, conn, gone, sent, ends, answered, pumpVars, logVars>>

----------------------------------------------------------------------------
(* main's accept loop and handle_client.                                   *)

Accept(c) ==
  /\ tap = "up"
  /\ conn[c] = "backlog"
  /\ conn' = [conn EXCEPT ![c] = "accepted"]
  /\ UNCHANGED <<tap, peerVars, pumpVars, logVars>>

PlcConnected(c) ==
  /\ Running
  /\ conn[c] = "accepted"
  /\ conn' = [conn EXCEPT ![c] = "open"]
  /\ pc' = [p \in Pumps |-> IF p[1] = c THEN "recv" ELSE pc[p]]
  /\ UNCHANGED <<tap, peerVars, got, cut, fwd, shut, frame, logVars>>

PlcUnreachable(c) ==
  /\ Running
  /\ conn[c] = "accepted"
  /\ "unreachable" \in Faults
  /\ conn' = [conn EXCEPT ![c] = "refused"]
  /\ UNCHANGED <<tap, peerVars, pumpVars, logVars>>

\* handle_client closes both sockets when it has joined both pumps; a thread
\* that dies of an exception is joined like any other.
CloseBoth_JoinsOne(c) ==
  /\ Running
  /\ conn[c] = "open"
  /\ pc[Req(c)] = "done"
  /\ conn' = [conn EXCEPT ![c] = "closed"]
  /\ UNCHANGED <<tap, peerVars, pumpVars, logVars>>

CloseBoth(c) ==
  /\ Running
  /\ conn[c] = "open"
  /\ pc[Req(c)] = "done"
  /\ pc[Resp(c)] = "done"
  /\ conn' = [conn EXCEPT ![c] = "closed"]
  /\ UNCHANGED <<tap, peerVars, pumpVars, logVars>>

----------------------------------------------------------------------------
(* pump and iter_frames.                                                   *)

At(p, place) == Running /\ conn[p[1]] = "open" /\ pc[p] = place
GoTo(p, place) == pc' = [pc EXCEPT ![p] = place]

RecvChunk_ForwardsFirst(p, n) ==
  /\ At(p, "recv")
  /\ got[p] + n <= Len(sent[p])
  /\ got' = [got EXCEPT ![p] = @ + n]
  /\ fwd' = [fwd EXCEPT ![p] = got[p] + n]
  /\ GoTo(p, "parse")
  /\ UNCHANGED <<tap, conn, peerVars, cut, shut, frame, logVars>>

RecvChunk(p, n) ==
  /\ At(p, "recv")
  /\ got[p] + n <= Len(sent[p])
  /\ got' = [got EXCEPT ![p] = @ + n]
  /\ GoTo(p, "parse")
  /\ UNCHANGED <<tap, conn, peerVars, cut, fwd, shut, frame, logVars>>

RecvEnd_Early(p) ==
  /\ At(p, "recv")
  /\ fin[p]
  /\ GoTo(p, "final")
  /\ UNCHANGED <<tap, conn, peerVars, got, cut, fwd, shut, frame, logVars>>

\* recv returned b"": the source finished its stream and all of it was read.
RecvEnd(p) ==
  /\ At(p, "recv")
  /\ fin[p]
  /\ got[p] = Len(sent[p])
  /\ GoTo(p, "final")
  /\ UNCHANGED <<tap, conn, peerVars, got, cut, fwd, shut, frame, logVars>>

\* recv raised OSError: the source was reset.
RecvError(p) ==
  /\ At(p, "recv")
  /\ Source(p) \in gone
  /\ GoTo(p, "final")
  /\ UNCHANGED <<tap, conn, peerVars, got, cut, fwd, shut, frame, logVars>>

Yield(p, last) ==
  /\ cut' = [cut EXCEPT ![p] = last]
  /\ frame' = [frame EXCEPT
       ![p] = [first |-> cut[p] + 1, last |-> last, stamp |-> 0, then |-> "parse"]]
  /\ GoTo(p, "stamp")

YieldFrame_TakesAll(p) ==
  /\ At(p, "parse")
  /\ WholeFrame(sent[p], cut[p], got[p])
  /\ Yield(p, got[p])
  /\ UNCHANGED <<tap, conn, peerVars, got, fwd, shut, logVars>>

YieldFrame(p) ==
  /\ At(p, "parse")
  /\ WholeFrame(sent[p], cut[p], got[p])
  /\ Yield(p, cut[p] + Total(sent[p], cut[p]))
  /\ UNCHANGED <<tap, conn, peerVars, got, fwd, shut, logVars>>

\* An impossible length field: everything buffered is one malformed chunk.
YieldRest_KeepsBuffer(p) ==
  /\ At(p, "parse")
  /\ BadHeader(sent[p], cut[p], got[p])
  /\ frame' = [frame EXCEPT
       ![p] = [first |-> cut[p] + 1, last |-> got[p], stamp |-> 0, then |-> "parse"]]
  /\ cut' = [cut EXCEPT ![p] = @ + HEADER]
  /\ GoTo(p, "stamp")
  /\ UNCHANGED <<tap, conn, peerVars, got, fwd, shut, logVars>>

YieldRest(p) ==
  /\ At(p, "parse")
  /\ BadHeader(sent[p], cut[p], got[p])
  /\ Yield(p, got[p])
  /\ UNCHANGED <<tap, conn, peerVars, got, fwd, shut, logVars>>

NoMoreFrames(p) ==
  /\ At(p, "parse")
  /\ ~Unit(sent[p], cut[p], got[p])
  /\ GoTo(p, "send")
  /\ UNCHANGED <<tap, conn, peerVars, got, cut, fwd, shut, frame, logVars>>

\* dst.sendall(chunk).
SendAll(p) ==
  /\ At(p, "send")
  /\ fwd' = [fwd EXCEPT ![p] = got[p]]
  /\ GoTo(p, "recv")
  /\ UNCHANGED <<tap, conn, peerVars, got, cut, shut, frame, logVars>>

\* It raises OSError once the destination was reset; part may have gone out.
SendError(p) ==
  /\ At(p, "send")
  /\ Dest(p) \in gone
  /\ \E n \in fwd[p]..got[p] : fwd' = [fwd EXCEPT ![p] = n]
  /\ GoTo(p, "final")
  /\ UNCHANGED <<tap, conn, peerVars, got, cut, shut, frame, logVars>>

\* The finally clause: a partial frame left in the buffer is logged too.
Leftover_Dropped(p) ==
  /\ At(p, "final")
  /\ GoTo(p, "shut")
  /\ UNCHANGED <<tap, conn, peerVars, got, cut, fwd, shut, frame, logVars>>

Leftover(p) ==
  /\ At(p, "final")
  /\ IF cut[p] < got[p]
       THEN /\ frame' = [frame EXCEPT ![p] =
                 [first |-> cut[p] + 1, last |-> got[p], stamp |-> 0, then |-> "shut"]]
            /\ GoTo(p, "stamp")
       ELSE /\ GoTo(p, "shut")
            /\ UNCHANGED frame
  /\ UNCHANGED <<tap, conn, peerVars, got, cut, fwd, shut, logVars>>

HalfClose_Skipped(p) ==
  /\ At(p, "shut")
  /\ GoTo(p, "done")
  /\ UNCHANGED <<tap, conn, peerVars, got, cut, fwd, shut, frame, logVars>>

\* dst.shutdown(SHUT_WR); the OSError of a reset destination is ignored.
HalfClose(p) ==
  /\ At(p, "shut")
  /\ shut' = [shut EXCEPT ![p] = TRUE]
  /\ GoTo(p, "done")
  /\ UNCHANGED <<tap, conn, peerVars, got, cut, fwd, frame, logVars>>

----------------------------------------------------------------------------
(* log_frame and CsvLogger.log.  The time stamps are taken before the lock *)
(* is: rows of different streams may reach the file in another order than  *)
(* their stamps.                                                           *)

Stamp(p) ==
  /\ At(p, "stamp")
  /\ clock' = clock + 1
  /\ frame' = [frame EXCEPT ![p].stamp = clock + 1]
  /\ GoTo(p, "acquire")
  /\ UNCHANGED <<tap, conn, peerVars, got, cut, fwd, shut, lock, file, flushed>>

Acquire_Unlocked(p) ==
  /\ At(p, "acquire")
  /\ lock' = p
  /\ GoTo(p, "write")
  /\ UNCHANGED <<tap, conn, peerVars, got, cut, fwd, shut, frame, file, flushed, clock>>

Acquire(p) ==
  /\ At(p, "acquire")
  /\ lock = NoPump
  /\ lock' = p
  /\ GoTo(p, "write")
  /\ UNCHANGED <<tap, conn, peerVars, got, cut, fwd, shut, frame, file, flushed, clock>>

WriteRow(p) ==
  /\ At(p, "write")
  /\ tap # "closed"
  /\ file' = Append(file, [pump |-> p, first |-> frame[p].first,
                           last |-> frame[p].last, stamp |-> frame[p].stamp])
  /\ GoTo(p, "flush")
  /\ UNCHANGED <<tap, conn, peerVars, got, cut, fwd, shut, frame, lock, flushed, clock>>

\* The file was closed under the pump: ValueError, which pump does not catch.
\* In the loop it still runs the finally clause; in there it ends the thread.
WriteClosed(p) ==
  /\ At(p, "write")
  /\ tap = "closed"
  /\ lock' = NoPump
  /\ GoTo(p, IF frame[p].then = "parse" THEN "final" ELSE "done")
  /\ UNCHANGED <<tap, conn, peerVars, got, cut, fwd, shut, frame, file, flushed, clock>>

Flush_Buffered(p) ==
  /\ At(p, "flush")
  /\ lock' = NoPump
  /\ GoTo(p, frame[p].then)
  /\ frame' = [frame EXCEPT ![p] = NoFrame]
  /\ UNCHANGED <<tap, conn, peerVars, got, cut, fwd, shut, file, flushed, clock>>

Flush(p) ==
  /\ At(p, "flush")
  /\ flushed' = Len(file)
  /\ lock' = NoPump
  /\ GoTo(p, frame[p].then)
  /\ frame' = [frame EXCEPT ![p] = NoFrame]
  /\ UNCHANGED <<tap, conn, peerVars, got, cut, fwd, shut, file, clock>>

----------------------------------------------------------------------------
(* The end of the process: Ctrl-C runs main's finally clause; terminate()  *)
(* from the orchestrator kills it at any step, and what the file object    *)
(* had not flushed is lost.                                                *)

Interrupt ==
  /\ tap = "up"
  /\ "interrupt" \in Faults
  /\ tap' = "stopping"
  /\ UNCHANGED <<conn, peerVars, pumpVars, logVars>>

CloseLogger ==
  /\ tap = "stopping"
  /\ lock = NoPump
  /\ tap' = "closed"
  /\ UNCHANGED <<conn, peerVars, pumpVars, logVars>>

Kill ==
  /\ Running
  /\ "kill" \in Faults
  /\ tap' = "down"
  /\ file' = SubSeq(file, 1, flushed)
  /\ UNCHANGED <<conn, peerVars, pumpVars, lock, flushed, clock>>

----------------------------------------------------------------------------
Init ==
  /\ tap = "up"
  /\ conn = [c \in Conns |-> "none"]
  /\ gone = {}
  /\ sent = [p \in Pumps |-> <<>>]
  /\ ends = [p \in Pumps |-> <<>>]
  /\ fin = [p \in Pumps |-> FALSE]
  /\ answered = [c \in Conns |-> <<>>]
  /\ got = [p \in Pumps |-> 0]
  /\ cut = [p \in Pumps |-> 0]
  /\ fwd = [p \in Pumps |-> 0]
  /\ shut = [p \in Pumps |-> FALSE]
  /\ pc = [p \in Pumps |-> "idle"]
  /\ frame = [p \in Pumps |-> NoFrame]
  /\ lock = NoPump
  /\ file = <<>>
  /\ flushed = 0
  /\ clock = 0

Client(c) ==
  \/ ClientConnect(c)
  \/ \E m \in Requests : ClientWrite(c, m)
  \/ ClientClose(c)

Plc(c) == (\E m \in Replies : PlcReply(c, m)) \/ PlcClose(c)

Handler(c) == Accept(c) \/ PlcConnected(c) \/ CloseBoth(c)

Pump(p) ==
  \/ \E n \in 1..CHUNK : RecvChunk(p, n)
  \/ RecvEnd(p)
  \/ RecvError(p)
  \/ YieldFrame(p)
  \/ YieldRest(p)
  \/ NoMoreFrames(p)
  \/ SendAll(p)
  \/ SendError(p)
  \/ Leftover(p)
  \/ HalfClose(p)
  \/ Stamp(p)
  \/ Acquire(p)
  \/ WriteRow(p)
  \/ WriteClosed(p)
  \/ Flush(p)

Next ==
  \/ \E c \in Conns : Client(c) \/ Plc(c) \/ Handler(c) \/ PlcUnreachable(c)
  \/ \E e \in Ends : Reset(e)
  \/ \E p \in Pumps : Pump(p)
  \/ Interrupt
  \/ CloseLogger
  \/ Kill

Spec == Init /\ [][Next]_vars

\* Every thread of the tap runs (the interpreter schedules all of them, and a
\* blocked recv or lock is not a step it owes), and the PLC serves what it read.
Fairness ==
  /\ \A c \in Conns : WF_vars(Handler(c)) /\ WF_vars(Plc(c))
  /\ \A p \in Pumps : WF_vars(Pump(p))

FairSpec == Spec /\ Fairness

----------------------------------------------------------------------------
(* Properties.                                                             *)

TapStates == {"up", "stopping", "closed", "down"}
ConnStates == {"none", "backlog", "accepted", "open", "refused", "closed"}
Places == {"idle", "recv", "parse", "send", "final", "shut", "done",
           "stamp", "acquire", "write", "flush"}
Frames == [first : Nat, last : Nat, stamp : Nat, then : {"recv", "parse", "shut"}]
Rows == [pump : Pumps, first : Nat, last : Nat, stamp : Nat]

\* Every variable has its type.
TypeOK ==
  /\ tap \in TapStates
  /\ conn \in [Conns -> ConnStates]
  /\ gone \subseteq Ends
  /\ sent \in [Pumps -> Seq(Nat)]
  /\ ends \in [Pumps -> Seq(Nat)]
  /\ fin \in [Pumps -> BOOLEAN]
  /\ answered \in [Conns -> Seq(Nat)]
  /\ got \in [Pumps -> Nat]
  /\ cut \in [Pumps -> Nat]
  /\ fwd \in [Pumps -> Nat]
  /\ shut \in [Pumps -> BOOLEAN]
  /\ pc \in [Pumps -> Places]
  /\ frame \in [Pumps -> Frames]
  /\ lock \in Pumps \cup {NoPump}
  /\ file \in Seq(Rows)
  /\ flushed \in Nat
  /\ clock \in Nat

\* A destination never holds a whole frame (or a header the tap calls invalid)
\* that the disk does not: "Frames are logged before they are forwarded, so a
\* frame is on record even if forwarding fails" (modbus_tap.py:167-168).  a is
\* how much of the stream the disk holds; it survives a kill at any step.
RecordedBeforeForwarded ==
  \A p \in Pumps : \A a \in 0..fwd[p] :
    (\A o \in 1..a : OnDisk(p, o)) /\ ~OnDisk(p, a + 1)
      => ~Unit(sent[p], a, fwd[p])

\* The rows of a stream never overlap and follow each other as its bytes do:
\* no byte is recorded twice and no frame out of order (modbus_tap.py:107-129).
RowsInStreamOrder ==
  \A j \in 1..Len(file) : \A i \in 1..j-1 :
    file[i].pump = file[j].pump => /\ file[i].last < file[j].first
                                   /\ file[i].stamp < file[j].stamp

\* When a pump half-closes its destination, every byte it ever received is on
\* the disk, whatever ended the stream: "Errors and bytes left in the buffer at
\* close are reported, not dropped" (modbus_tap.py:171).  Only a logger closed
\* under it (Ctrl-C) excuses it.
NothingReceivedIsLost ==
  \A p \in Pumps :
    pc[p] \in {"shut", "done"} /\ tap \in {"up", "stopping"}
      => \A o \in 1..got[p] : OnDisk(p, o)

\* A kill costs at most the one row being written, whichever pumps are logging:
\* the lock spans the write and its flush, "so a capture is durable even if the
\* run is killed mid-attack" (modbus_tap.py:79-81).
AtMostOneRowAtRisk == Running => Len(file) - flushed <= 1

\* The row of a reply comes after the row of the request it answers, in the
\* file and in time: the labels and the features pair them by that order
\* (modbus_tap.py:167-170).
ReplyRowAfterRequestRow ==
  \A c \in Conns : \A k \in 1..Len(answered[c]) : \A j \in 1..flushed :
    RowOf(Resp(c), j) /\ file[j].last >= ends[Resp(c)][k]
      => \E i \in 1..j-1 : /\ RowOf(Req(c), i)
                            /\ file[i].last = answered[c][k]
                            /\ file[i].stamp < file[j].stamp

\* If each write of the peers is one well-formed frame, every row is exactly one
\* of those frames, however the bytes were split or joined on the way, except
\* the last row of a stream that a reset cut short (modbus_tap.py:108-110).
Boundary(p, o) == o = 0 \/ \E k \in 1..Len(ends[p]) : ends[p][k] = o
FramesSurviveSegmentation ==
  \A i \in 1..Len(file) : LET p == file[i].pump IN
    /\ Boundary(p, file[i].first - 1)
    /\ \/ WholeFrame(sent[p], file[i].first - 1, file[i].last)
          /\ Boundary(p, file[i].last)
       \/ file[i].last = got[p] /\ pc[p] \in {"flush", "shut", "done"}
          /\ {Source(p), Dest(p)} \cap gone # {}

\* Requests of the whole capture are in the file in the order the tap saw them,
\* which features.py:138-141 counts on when the recorded clock cannot tell them
\* apart: "ties keep the file's order, which is the order the tap saw them on
\* the wire".  clock, unlike the recorded one, has no ties.
FileOrderIsWireOrder ==
  \A j \in 1..Len(file) : \A i \in 1..j-1 :
    file[i].pump[2] = "req" /\ file[j].pump[2] = "req" => file[i].stamp < file[j].stamp

Undisturbed(c) == tap = "up" /\ <<c, "client">> \notin gone /\ <<c, "plc">> \notin gone

\* All that the two peers wrote was forwarded and is on the disk, no request is
\* left without its reply, and the sockets are closed.
Complete(c) ==
  /\ conn[c] = "closed"
  /\ ~PendingRequest(c)
  /\ \A p \in {Req(c), Resp(c)} :
       /\ fwd[p] = Len(sent[p])
       /\ \A o \in 1..Len(sent[p]) : OnDisk(p, o)

\* Once a client has closed its side, the connection completes: the half-close
\* keeps the other direction "running until its own end closes, so the PLC's
\* reply to a client's last request is still captured" (modbus_tap.py:168-170).
LastReplyIsCaptured ==
  \A c \in Conns :
    fin[Req(c)] /\ conn[c] = "open" ~> Complete(c) \/ ~Undisturbed(c)

\* No connection is served for ever: once its client has closed or vanished, both
\* pumps end, whatever became of the PLC, and handle_client closes the sockets
\* (modbus_tap.py:212-221).
HandlerEnds ==
  \A c \in Conns :
    conn[c] = "open" /\ (fin[Req(c)] \/ <<c, "client">> \in gone)
      ~> conn[c] = "closed" \/ tap # "up"

\* The tap is a transparent link between the two peers: it "never modifies or
\* drops a frame" (modbus_tap.py:6-7), and it ends a stream towards the reader
\* only after the whole of it, unless an end is gone or the tap is stopping.
Link == INSTANCE TransparentLink WITH stopped <- tap \in {"closed", "down"}
LinkSpec == Link!Spec
=============================================================================
