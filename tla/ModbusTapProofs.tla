-------------------------- MODULE ModbusTapProofs --------------------------
(* Type correctness and the recording invariants of ModbusTap, that it        *)
(* implements TransparentLink, and what its rows are and in which order,      *)
(* within a stream and between a request and its reply: for every number of   *)
(* connections, every framing and every payload, and under every fault of     *)
(* the model.                                                                *)
EXTENDS ModbusTap, TLAPS

LEMMA PumpTypes ==
  /\ \A c \in Conns : Req(c) \in Pumps /\ Resp(c) \in Pumps
  /\ \A p \in Pumps : p[1] \in Conns
  /\ NoFrame \in Frames
BY DEF Pumps, Directions, Req, Resp, NoFrame, Frames

\* Whole frames have a positive length, and the parser's positions are naturals.
LEMMA TotalType ==
  ASSUME NEW s \in Seq(Nat), NEW a \in Nat, NEW b \in 0..Len(s), WholeFrame(s, a, b)
  PROVE  /\ Total(s, a) \in Nat
         /\ Total(s, a) > HEADER
         /\ a + Total(s, a) <= b
<1>1. a + LENGTH_AT \in 1..Len(s)
  BY FramingAssumption DEF WholeFrame, HasHeader
<1>2. LengthField(s, a) \in Nat
  BY <1>1 DEF LengthField
<1> QED
  BY <1>2, FramingAssumption DEF WholeFrame, HasHeader, ValidLength, Total

\* A frame the parser can yield at b is still the one it would yield later.
LEMMA UnitMonotone ==
  ASSUME NEW s, NEW a \in Nat, NEW b \in Nat, NEW d \in Nat,
         b <= d, Unit(s, a, b), Total(s, a) \in Int
  PROVE  Unit(s, a, d)
BY FramingAssumption DEF Unit, WholeFrame, BadHeader, HasHeader

\* The indices a step relies on: the parser and the forwarder are behind the
\* receiver, and the receiver behind the source.
Bounds == \A p \in Pumps : /\ cut[p] <= got[p]
                           /\ fwd[p] <= got[p]
                           /\ got[p] <= Len(sent[p])

\* The disk holds no row that was not written.
InFile == flushed <= Len(file)

LEMMA TypeInit == Init => TypeOK /\ Bounds /\ InFile
<1> SUFFICES ASSUME Init PROVE TypeOK /\ Bounds /\ InFile
  OBVIOUS
<1> USE PumpTypes DEF Init
<1>1. TypeOK
  BY DEF TypeOK, TapStates, ConnStates, Places
<1>2. Bounds
  BY DEF Bounds
<1>3. InFile
  BY DEF InFile
<1> QED
  BY <1>1, <1>2, <1>3

\* What a peer writes extends its stream and nothing else.
LEMMA EmitType ==
  ASSUME TypeOK, Bounds, NEW p \in Pumps, NEW m \in Seq(Nat), Emit(p, m),
         UNCHANGED <<got, cut, fwd>>
  PROVE  /\ sent' \in [Pumps -> Seq(Nat)]
         /\ ends' \in [Pumps -> Seq(Nat)]
         /\ Bounds'
<1>1. sent[p] \o m \in Seq(Nat) /\ Len(sent[p] \o m) >= Len(sent[p])
  BY DEF TypeOK
<1>2. Append(ends[p], Len(sent[p]) + Len(m)) \in Seq(Nat)
  BY DEF TypeOK
<1>3. sent' \in [Pumps -> Seq(Nat)] /\ ends' \in [Pumps -> Seq(Nat)]
  BY <1>1, <1>2 DEF TypeOK, Emit
<1>4. ASSUME NEW q \in Pumps PROVE Len(sent[q]) <= Len(sent'[q])
  BY <1>1 DEF Emit, TypeOK
<1>5. Bounds'
  BY <1>3, <1>4 DEF Bounds, TypeOK
<1> QED
  BY <1>3, <1>5

LEMMA TypePeers ==
  ASSUME TypeOK, Bounds, NEW c \in Conns, Client(c) \/ Plc(c)
  PROVE  TypeOK' /\ Bounds'
<1> USE PumpTypes DEF peerVars, pumpVars, logVars
<1>1. ASSUME ClientConnect(c) PROVE TypeOK' /\ Bounds'
  BY <1>1 DEF ClientConnect, TypeOK, Bounds, ConnStates
<1>2. ASSUME NEW m \in Requests, ClientWrite(c, m) PROVE TypeOK' /\ Bounds'
  <2>1. m \in Seq(Nat)
    BY PayloadAssumption
  <2> QED
    BY <1>2, <2>1, EmitType DEF ClientWrite, TypeOK
<1>3. ASSUME ClientClose(c) PROVE TypeOK' /\ Bounds'
  BY <1>3 DEF ClientClose, TypeOK, Bounds
<1>4. ASSUME NEW m \in Replies, PlcReply(c, m) PROVE TypeOK' /\ Bounds'
  <2>1. m \in Seq(Nat)
    BY PayloadAssumption
  <2>2. PlcAt(c) \in Nat
    BY DEF PlcAt, TypeOK
  <2>3. Total(sent[Req(c)], PlcAt(c)) \in Nat
    <3>1. sent[Req(c)] \in Seq(Nat) /\ fwd[Req(c)] \in 0..Len(sent[Req(c)])
      BY DEF TypeOK, Bounds
    <3> QED
      BY <1>4, <2>2, <3>1, TotalType DEF PlcReply, PendingRequest
  <2>4. answered' \in [Conns -> Seq(Nat)]
    <3> DEFINE at == PlcAt(c) + Total(sent[Req(c)], PlcAt(c))
    <3>1. at \in Nat
      BY <2>2, <2>3
    <3>2. answered \in [Conns -> Seq(Nat)]
      BY DEF TypeOK
    <3>3. Append(answered[c], at) \in Seq(Nat)
      BY <3>1, <3>2
    <3>4. answered' = [answered EXCEPT ![c] = Append(answered[c], at)]
      BY <1>4 DEF PlcReply
    <3> HIDE DEF at
    <3> QED
      BY <3>2, <3>3, <3>4
  <2> QED
    BY <1>4, <2>1, <2>4, EmitType DEF PlcReply, TypeOK
<1>5. ASSUME PlcClose(c) PROVE TypeOK' /\ Bounds'
  BY <1>5 DEF PlcClose, TypeOK, Bounds
<1> QED
  BY <1>1, <1>2, <1>3, <1>4, <1>5 DEF Client, Plc

LEMMA TypeHandler ==
  ASSUME TypeOK, Bounds, NEW c \in Conns, Handler(c) \/ PlcUnreachable(c)
  PROVE  TypeOK' /\ Bounds'
<1> USE DEF peerVars, pumpVars, logVars, TypeOK, Bounds, ConnStates
<1>1. ASSUME Accept(c) PROVE TypeOK' /\ Bounds'
  BY <1>1 DEF Accept
<1>2. ASSUME PlcConnected(c) PROVE TypeOK' /\ Bounds'
  BY <1>2 DEF PlcConnected, Places
<1>3. ASSUME CloseBoth(c) PROVE TypeOK' /\ Bounds'
  BY <1>3 DEF CloseBoth
<1>4. ASSUME PlcUnreachable(c) PROVE TypeOK' /\ Bounds'
  BY <1>4 DEF PlcUnreachable
<1> QED
  BY <1>1, <1>2, <1>3, <1>4 DEF Handler

\* The indices of the streams are naturals.
LEMMA IndexTypes ==
  ASSUME TypeOK
  PROVE  /\ got \in [Pumps -> Nat] /\ cut \in [Pumps -> Nat] /\ fwd \in [Pumps -> Nat]
         /\ \A q \in Pumps : sent[q] \in Seq(Nat) /\ Len(sent[q]) \in Nat
BY DEF TypeOK

\* A pump goes to one of its places; a frame in hand is a frame.
LEMMA GoToType ==
  ASSUME TypeOK, NEW p \in Pumps, NEW place \in Places, GoTo(p, place)
  PROVE  pc' \in [Pumps -> Places]
BY DEF GoTo, TypeOK

LEMMA FrameType ==
  ASSUME TypeOK, NEW p \in Pumps, NEW a \in Nat, NEW b \in Nat, NEW t \in Nat,
         NEW k \in {"recv", "parse", "shut"},
         frame' = [frame EXCEPT ![p] = [first |-> a, last |-> b, stamp |-> t, then |-> k]]
  PROVE  frame' \in [Pumps -> Frames]
<1>1. [first |-> a, last |-> b, stamp |-> t, then |-> k] \in Frames
  BY DEF Frames
<1> QED
  BY <1>1 DEF TypeOK

LEMMA PlacesNamed ==
  /\ "idle" \in Places /\ "recv" \in Places /\ "parse" \in Places /\ "send" \in Places
  /\ "final" \in Places /\ "shut" \in Places /\ "done" \in Places
  /\ "stamp" \in Places /\ "acquire" \in Places /\ "write" \in Places
  /\ "flush" \in Places
BY DEF Places

LEMMA YieldType ==
  ASSUME TypeOK, Bounds, NEW p \in Pumps, NEW last \in Nat, last <= got[p], Yield(p, last),
         UNCHANGED <<tap, conn, peerVars, got, fwd, shut, logVars>>
  PROVE  TypeOK' /\ Bounds'
<1>1. pc' \in [Pumps -> Places]
  BY GoToType, PlacesNamed DEF Yield
<1>2. cut[p] + 1 \in Nat
  BY DEF TypeOK
<1>3. frame' \in [Pumps -> Frames]
  BY <1>2, FrameType DEF Yield
<1>4. cut' \in [Pumps -> Nat] /\ \A q \in Pumps : cut'[q] <= got[q]
  BY DEF Yield, TypeOK, Bounds
<1>5. TypeOK'
  BY <1>1, <1>3, <1>4 DEF TypeOK, peerVars, logVars
<1>6. Bounds'
  BY <1>4 DEF Bounds, peerVars
<1> QED
  BY <1>5, <1>6

LEMMA TypePump ==
  ASSUME TypeOK, Bounds, NEW p \in Pumps, Pump(p)
  PROVE  TypeOK' /\ Bounds'
<1> USE DEF peerVars, logVars
<1>1. ASSUME NEW n \in 1..CHUNK, RecvChunk(p, n) PROVE TypeOK' /\ Bounds'
  <2>1. pc' \in [Pumps -> Places]
    BY <1>1, GoToType, PlacesNamed DEF RecvChunk
  <2>2. n \in Nat
    BY BoundsAssumption
  <2>3. got' \in [Pumps -> Nat]
    BY <1>1, <2>2, IndexTypes DEF RecvChunk
  <2>4. TypeOK'
    BY <1>1, <2>1, <2>3 DEF RecvChunk, TypeOK
  <2>5. ASSUME NEW q \in Pumps PROVE got[q] <= got'[q] /\ got'[q] <= Len(sent[q])
    BY <1>1, <2>2, IndexTypes DEF RecvChunk, Bounds
  <2>6. Bounds'
    BY <1>1, <2>3, <2>5, IndexTypes DEF RecvChunk, Bounds
  <2> QED
    BY <2>4, <2>6
<1>2. CASE RecvEnd(p) \/ RecvError(p) \/ NoMoreFrames(p)
  <2>1. pc' \in [Pumps -> Places]
    BY <1>2, GoToType, PlacesNamed DEF RecvEnd, RecvError, NoMoreFrames
  <2> QED
    BY <1>2, <2>1 DEF RecvEnd, RecvError, NoMoreFrames, TypeOK, Bounds
<1>3. CASE YieldFrame(p)
  <2>1. /\ cut[p] + Total(sent[p], cut[p]) \in Nat
        /\ cut[p] + Total(sent[p], cut[p]) <= got[p]
    <3>1. /\ sent[p] \in Seq(Nat) /\ cut[p] \in Nat /\ got[p] \in Nat
          /\ got[p] \in 0..Len(sent[p])
      BY DEF TypeOK, Bounds
    <3> QED
      BY <1>3, <3>1, TotalType DEF YieldFrame
  <2> QED
    BY <1>3, <2>1, YieldType DEF YieldFrame
<1>4. CASE YieldRest(p)
  <2>1. got[p] \in Nat /\ got[p] <= got[p]
    BY DEF TypeOK
  <2> QED
    BY <1>4, <2>1, YieldType DEF YieldRest
<1>5. CASE SendAll(p) \/ SendError(p)
  <2>1. pc' \in [Pumps -> Places]
    BY <1>5, GoToType, PlacesNamed DEF SendAll, SendError
  <2>2. PICK n \in fwd[p]..got[p] : fwd' = [fwd EXCEPT ![p] = n]
    <3>1. got[p] \in fwd[p]..got[p]
      BY DEF TypeOK, Bounds
    <3> QED
      BY <1>5, <3>1 DEF SendAll, SendError
  <2>3. fwd' \in [Pumps -> Nat] /\ \A q \in Pumps : fwd'[q] <= got[q]
    BY <2>2 DEF TypeOK, Bounds
  <2> QED
    BY <1>5, <2>1, <2>3 DEF SendAll, SendError, TypeOK, Bounds
<1>6. CASE Leftover(p)
  <2>1. pc' \in [Pumps -> Places]
    BY <1>6, GoToType, PlacesNamed DEF Leftover
  <2>2. cut[p] + 1 \in Nat /\ got[p] \in Nat
    BY DEF TypeOK
  <2>3. frame' \in [Pumps -> Frames]
    <3>1. CASE cut[p] < got[p]
      BY <1>6, <2>2, <3>1, FrameType DEF Leftover
    <3>2. CASE ~(cut[p] < got[p])
      BY <1>6, <3>2 DEF Leftover, TypeOK
    <3> QED
      BY <3>1, <3>2
  <2> QED
    BY <1>6, <2>1, <2>3 DEF Leftover, TypeOK, Bounds
<1>7. CASE HalfClose(p)
  <2>1. pc' \in [Pumps -> Places]
    BY <1>7, GoToType, PlacesNamed DEF HalfClose
  <2> QED
    BY <1>7, <2>1 DEF HalfClose, TypeOK, Bounds
<1>8. CASE Stamp(p)
  <2>1. pc' \in [Pumps -> Places]
    BY <1>8, GoToType, PlacesNamed DEF Stamp
  <2>2. clock' \in Nat
    BY <1>8 DEF Stamp, TypeOK
  <2>3. frame' \in [Pumps -> Frames]
    <3>1. frame \in [Pumps -> Frames]
      BY DEF TypeOK
    <3>2. \A q \in Pumps : frame'[q] = IF q = p THEN [first |-> frame[p].first,
                last |-> frame[p].last, stamp |-> clock', then |-> frame[p].then]
                ELSE frame[q]
      BY <1>8, <3>1 DEF Stamp, Frames
    <3>3. \A q \in Pumps : frame'[q] \in Frames
      BY <2>2, <3>1, <3>2 DEF Frames
    <3> QED
      BY <1>8, <3>1, <3>3 DEF Stamp
  <2> QED
    BY <1>8, <2>1, <2>2, <2>3 DEF Stamp, TypeOK, Bounds
<1>9. CASE Acquire(p)
  <2>1. pc' \in [Pumps -> Places]
    BY <1>9, GoToType, PlacesNamed DEF Acquire
  <2> QED
    BY <1>9, <2>1 DEF Acquire, TypeOK, Bounds
<1>10. CASE WriteRow(p)
  <2> DEFINE row == [pump |-> p, first |-> frame[p].first,
                     last |-> frame[p].last, stamp |-> frame[p].stamp]
  <2>1. row \in Rows
    BY DEF Rows, TypeOK, Frames
  <2>2. file' \in Seq(Rows)
    BY <1>10, <2>1 DEF WriteRow, TypeOK
  <2>3. pc' \in [Pumps -> Places]
    BY <1>10, GoToType, PlacesNamed DEF WriteRow
  <2> QED
    BY <1>10, <2>2, <2>3 DEF WriteRow, TypeOK, Bounds
<1>11. CASE WriteClosed(p)
  <2>1. pc' \in [Pumps -> Places]
    BY <1>11, GoToType, PlacesNamed DEF WriteClosed
  <2> QED
    BY <1>11, <2>1 DEF WriteClosed, TypeOK, Bounds
<1>12. CASE Flush(p)
  <2>1. frame[p].then \in Places
    BY DEF TypeOK, Frames, Places
  <2>2. pc' \in [Pumps -> Places]
    BY <1>12, <2>1, GoToType DEF Flush
  <2>3. Len(file) \in Nat
    BY DEF TypeOK
  <2>4. frame' \in [Pumps -> Frames]
    BY <1>12, PumpTypes DEF Flush, TypeOK
  <2>5. TypeOK'
    BY <1>12, <2>2, <2>3, <2>4 DEF Flush, TypeOK
  <2> QED
    BY <1>12, <2>5 DEF Flush, Bounds
<1> QED
  BY <1>1, <1>2, <1>3, <1>4, <1>5, <1>6, <1>7, <1>8, <1>9, <1>10, <1>11, <1>12 DEF Pump

\* Only three actions touch the file.
LEMMA FileStep ==
  ASSUME TypeOK, InFile, [Next]_vars
  PROVE  InFile'
<1> USE DEF peerVars, pumpVars, logVars, InFile
<1>1. Len(file) \in Nat /\ flushed \in Nat
  BY DEF TypeOK
<1>2. ASSUME NEW p \in Pumps, WriteRow(p) PROVE InFile'
  <2> DEFINE row == [pump |-> p, first |-> frame[p].first,
                     last |-> frame[p].last, stamp |-> frame[p].stamp]
  <2>1. row \in Rows
    BY DEF Rows, TypeOK, Frames
  <2>2. Len(Append(file, row)) = Len(file) + 1
    BY <2>1 DEF TypeOK
  <2> QED
    BY <1>1, <1>2, <2>2 DEF WriteRow
<1>3. ASSUME NEW p \in Pumps, Flush(p) PROVE InFile'
  BY <1>1, <1>3 DEF Flush
<1>4. CASE Kill
  <2>1. Len(SubSeq(file, 1, flushed)) = flushed
    BY <1>1 DEF TypeOK
  <2> QED
    BY <1>1, <1>4, <2>1 DEF Kill
<1>5. UNCHANGED <<file, flushed>> => InFile'
  OBVIOUS
<1>6. ASSUME NEW p \in Pumps, Pump(p) PROVE InFile'
  BY <1>2, <1>3, <1>5, <1>6
     DEF Pump, RecvChunk, RecvEnd, RecvError, YieldFrame, YieldRest, NoMoreFrames,
         SendAll, SendError, Leftover, HalfClose, Stamp, Acquire, WriteClosed
<1>7. ASSUME NEW c \in Conns, Client(c) \/ Plc(c) \/ Handler(c) \/ PlcUnreachable(c)
      PROVE  InFile'
  BY <1>5, <1>7
     DEF Client, ClientConnect, ClientWrite, ClientClose, Plc, PlcReply, PlcClose,
         Handler, Accept, PlcConnected, CloseBoth, PlcUnreachable
<1>8. CASE (\E e \in Ends : Reset(e)) \/ Interrupt \/ CloseLogger \/ UNCHANGED vars
  BY <1>5, <1>8 DEF Reset, Interrupt, CloseLogger, vars
<1> QED
  BY <1>4, <1>6, <1>7, <1>8 DEF Next

LEMMA TypeStep ==
  ASSUME TypeOK, Bounds, InFile, [Next]_vars
  PROVE  TypeOK' /\ Bounds'
<1> USE DEF peerVars, pumpVars, logVars
<1>1. CASE \E e \in Ends : Reset(e)
  BY <1>1 DEF Reset, TypeOK, Bounds
<1>2. CASE Interrupt \/ CloseLogger
  BY <1>2 DEF Interrupt, CloseLogger, TypeOK, Bounds, TapStates
<1>3. CASE Kill
  <2>1. SubSeq(file, 1, flushed) \in Seq(Rows)
    BY DEF TypeOK, InFile
  <2> QED
    BY <1>3, <2>1 DEF Kill, TypeOK, Bounds, TapStates
<1>4. CASE UNCHANGED vars
  BY <1>4 DEF vars, TypeOK, Bounds
<1> QED
  BY <1>1, <1>2, <1>3, <1>4, TypePeers, TypeHandler, TypePump DEF Next

\* Every reachable state of the tap is of its type.
THEOREM TypeCorrect == Spec => []TypeOK
<1>1. Init => TypeOK /\ Bounds /\ InFile
  BY TypeInit
<1>2. TypeOK /\ Bounds /\ InFile /\ [Next]_vars => (TypeOK /\ Bounds /\ InFile)'
  BY TypeStep, FileStep
<1> QED
  BY <1>1, <1>2, PTL DEF Spec

----------------------------------------------------------------------------
(* The inductive invariant behind RecordedBeforeForwarded.                  *)

Logging(p) == pc[p] \in {"stamp", "acquire", "write", "flush"}
RecordedTo(p, n) == \A o \in 1..n : OnDisk(p, o)
RecordedOnly(p, n) == \A o \in Nat : OnDisk(p, o) => o <= n

\* A pump that does not run yet has nothing.
NotStarted == \A p \in Pumps :
  conn[p[1]] \in {"none", "backlog", "accepted"} => pc[p] = "idle" /\ got[p] = 0

\* What is forwarded of the unparsed bytes is never a whole frame.
ForwardedAt(p) ==
  /\ pc[p] = "recv" => fwd[p] = got[p] /\ ~Unit(sent[p], cut[p], got[p])
  /\ pc[p] = "parse" => ~Unit(sent[p], cut[p], fwd[p])
  /\ pc[p] = "send" => ~Unit(sent[p], cut[p], got[p])
  /\ Logging(p) /\ frame[p].then = "parse" =>
       /\ 1 <= frame[p].first /\ frame[p].first <= frame[p].last
       /\ frame[p].last = cut[p]
       /\ fwd[p] <= frame[p].last
       /\ ~Unit(sent[p], frame[p].first - 1, fwd[p])
  /\ Logging(p) /\ frame[p].then # "parse" =>
       frame[p].then = "shut" /\ frame[p].first = cut[p] + 1 /\ frame[p].last = got[p]

\* What the parser has yielded is on the disk, but for the frame in hand, and
\* nothing else is.
RecordedAt(p) ==
  /\ pc[p] = "idle" => RecordedOnly(p, 0)
  /\ pc[p] \in {"recv", "parse", "send"} =>
       RecordedTo(p, cut[p]) /\ RecordedOnly(p, cut[p])
  /\ Logging(p) /\ frame[p].then = "parse" =>
       RecordedTo(p, frame[p].first - 1) /\ RecordedOnly(p, frame[p].first - 1)

\* Until the logger is closed, nothing a stream received goes unrecorded.
KeptAt(p) == tap \in {"up", "stopping"} =>
  /\ pc[p] = "final" \/ (Logging(p) /\ frame[p].then = "shut") => RecordedTo(p, cut[p])
  /\ pc[p] \in {"shut", "done"} => RecordedTo(p, got[p])

\* The property itself, for one stream.
SafeAt(p) == \A a \in 0..fwd[p] :
  RecordedTo(p, a) /\ ~OnDisk(p, a + 1) => ~Unit(sent[p], a, fwd[p])

PumpInv(p) == ForwardedAt(p) /\ RecordedAt(p) /\ KeptAt(p) /\ SafeAt(p)

\* Only the holder of the lock has a row that is written but not flushed.
InFlight(p) ==
  /\ pc[p] \in {"write", "flush"} => lock = p
  /\ pc[p] = "flush" =>
       /\ Len(file) = flushed + 1
       /\ file[Len(file)] = [pump |-> p, first |-> frame[p].first,
                             last |-> frame[p].last, stamp |-> frame[p].stamp]
OneInFlight == Running =>
  /\ \A p \in Pumps : InFlight(p)
  /\ (\A p \in Pumps : pc[p] # "flush") => Len(file) = flushed

IInv == /\ TypeOK /\ Bounds /\ InFile /\ NotStarted /\ OneInFlight
        /\ \A p \in Pumps : PumpInv(p)

\* A unit stays what it is when more is written after it ...
LEMMA UnitExtends ==
  ASSUME NEW s \in Seq(Nat), NEW t \in Seq(Nat), Len(s) <= Len(t),
         \A i \in 1..Len(s) : t[i] = s[i],
         NEW a \in Nat, NEW b \in 0..Len(s)
  PROVE  Unit(t, a, b) <=> Unit(s, a, b)
<1>1. CASE HasHeader(a, b)
  <2>1. a + LENGTH_AT \in 1..Len(s)
    BY <1>1, FramingAssumption DEF HasHeader
  <2>2. LengthField(t, a) = LengthField(s, a)
    BY <2>1 DEF LengthField
  <2> QED
    BY <2>2 DEF Unit, WholeFrame, BadHeader, ValidLength, Total
<1>2. CASE ~HasHeader(a, b)
  BY <1>2 DEF Unit, WholeFrame, BadHeader
<1> QED
  BY <1>1, <1>2

\* ... there is none in an empty buffer, and none in part of a buffer that has
\* none.
LEMMA UnitSmaller ==
  ASSUME NEW s \in Seq(Nat), NEW a \in Nat, NEW b \in Nat, NEW d \in 0..Len(s), b <= d,
         ~Unit(s, a, d)
  PROVE  ~Unit(s, a, b)
<1>1. CASE HasHeader(a, b)
  <2>1. a + LENGTH_AT \in 1..Len(s)
    BY <1>1, FramingAssumption DEF HasHeader
  <2>2. Total(s, a) \in Int
    BY <2>1, FramingAssumption DEF Total, LengthField
  <2> QED
    BY <2>2, UnitMonotone
<1>2. CASE ~HasHeader(a, b)
  BY <1>2 DEF Unit, WholeFrame, BadHeader
<1> QED
  BY <1>1, <1>2

LEMMA UnitEmpty ==
  ASSUME NEW s, NEW a \in Nat, NEW b \in Nat, b <= a
  PROVE  ~Unit(s, a, b)
BY FramingAssumption DEF Unit, WholeFrame, BadHeader, HasHeader

\* A step that leaves the pumps, the file and the bytes already written alone
\* leaves every pump's invariant alone.
LEMMA QuietStep ==
  ASSUME IInv, TypeOK', UNCHANGED <<tap, got, cut, fwd, pc, frame, file, flushed>>,
         \A p \in Pumps : /\ Len(sent[p]) <= Len(sent'[p])
                          /\ \A i \in 1..Len(sent[p]) : sent'[p][i] = sent[p][i]
  PROVE  \A p \in Pumps : PumpInv(p)'
<1> SUFFICES ASSUME NEW p \in Pumps PROVE PumpInv(p)'
  OBVIOUS
<1>1. /\ sent[p] \in Seq(Nat) /\ sent'[p] \in Seq(Nat)
      /\ got[p] \in Nat /\ cut[p] \in Nat /\ fwd[p] \in Nat
      /\ got[p] \in 0..Len(sent[p]) /\ fwd[p] \in 0..Len(sent[p])
  BY DEF IInv, TypeOK, Bounds
<1>2. ASSUME NEW a \in Nat, NEW b \in 0..Len(sent[p])
      PROVE  Unit(sent'[p], a, b) <=> Unit(sent[p], a, b)
  BY <1>1, UnitExtends
<1>3. \A o : OnDisk(p, o)' <=> OnDisk(p, o)
  BY DEF OnDisk, RowOf
<1>4. PumpInv(p)
  BY DEF IInv
<1>5. ForwardedAt(p)'
  <2>1. frame[p].first \in Nat
    BY DEF IInv, TypeOK, Frames
  <2> QED
    BY <1>1, <1>2, <1>4, <2>1 DEF PumpInv, ForwardedAt, Logging
<1>6. RecordedAt(p)' /\ KeptAt(p)'
  BY <1>3, <1>4 DEF PumpInv, RecordedAt, KeptAt, RecordedTo, RecordedOnly, Logging
<1>7. SafeAt(p)'
  <2> SUFFICES ASSUME NEW a \in 0..fwd[p], RecordedTo(p, a)', ~OnDisk(p, a + 1)'
               PROVE  ~Unit(sent'[p], a, fwd[p])
    BY DEF SafeAt
  <2>1. RecordedTo(p, a) /\ ~OnDisk(p, a + 1)
    BY <1>3 DEF RecordedTo
  <2>2. ~Unit(sent[p], a, fwd[p])
    BY <1>4, <2>1 DEF PumpInv, SafeAt
  <2> QED
    BY <1>1, <1>2, <2>2
<1> QED
  BY <1>5, <1>6, <1>7 DEF PumpInv

\* What the disk holds changes with a flush only.
DiskSame == \A q \in Pumps : \A o : OnDisk(q, o)' <=> OnDisk(q, o)

LEMMA DiskUnchanged ==
  ASSUME UNCHANGED <<file, flushed>>
  PROVE  DiskSame
BY DEF DiskSame, OnDisk, RowOf

LEMMA DiskPrefix ==
  ASSUME flushed' = flushed, \A i \in 1..flushed : file'[i] = file[i]
  PROVE  DiskSame
BY DEF DiskSame, OnDisk, RowOf

LEMMA DiskFlush ==
  ASSUME IInv, NEW p \in Pumps, Flush(p)
  PROVE  /\ \A q \in Pumps : q # p => \A o : OnDisk(q, o)' <=> OnDisk(q, o)
         /\ \A o \in Nat : OnDisk(p, o)'
                             <=> OnDisk(p, o) \/ o \in frame[p].first..frame[p].last
<1>1. /\ Len(file) = flushed + 1
      /\ file[Len(file)].pump = p
      /\ file[Len(file)].first = frame[p].first
      /\ file[Len(file)].last = frame[p].last
  <2>1. InFlight(p) /\ pc[p] = "flush"
    BY DEF IInv, OneInFlight, Flush, At
  <2> QED
    BY <2>1 DEF InFlight
<1>2. flushed \in Nat /\ flushed' = flushed + 1 /\ file' = file
  BY <1>1 DEF IInv, TypeOK, Flush
<1>3. \A i : i \in 1..flushed' <=> i \in 1..flushed \/ i = Len(file)
  BY <1>1, <1>2
<1> QED
  BY <1>1, <1>2, <1>3 DEF OnDisk, RowOf

\* A step of pump p leaves the invariant of the others alone.
OthersSame(p) == \A q \in Pumps : q # p =>
  /\ got'[q] = got[q] /\ cut'[q] = cut[q] /\ fwd'[q] = fwd[q]
  /\ pc'[q] = pc[q] /\ frame'[q] = frame[q]
  /\ \A o : OnDisk(q, o)' <=> OnDisk(q, o)

LEMMA OtherPumps ==
  ASSUME IInv, NEW p \in Pumps, UNCHANGED <<tap, sent>>, OthersSame(p)
  PROVE  \A q \in Pumps : q # p => PumpInv(q)'
<1> SUFFICES ASSUME NEW q \in Pumps, q # p PROVE PumpInv(q)'
  OBVIOUS
<1>1. /\ got'[q] = got[q] /\ cut'[q] = cut[q] /\ fwd'[q] = fwd[q] /\ sent' = sent
      /\ pc'[q] = pc[q] /\ frame'[q] = frame[q] /\ tap' = tap
  BY DEF OthersSame
<1>2. \A o : OnDisk(q, o)' <=> OnDisk(q, o)
  BY DEF OthersSame
<1>3. PumpInv(q)
  BY DEF IInv
<1>4. ForwardedAt(q)'
  BY <1>1, <1>3 DEF PumpInv, ForwardedAt, Logging
<1>5. RecordedAt(q)' /\ KeptAt(q)'
  BY <1>1, <1>2, <1>3 DEF PumpInv, RecordedAt, KeptAt, RecordedTo, RecordedOnly, Logging
<1>6. SafeAt(q)'
  BY <1>1, <1>2, <1>3 DEF PumpInv, SafeAt, RecordedTo
<1> QED
  BY <1>4, <1>5, <1>6 DEF PumpInv

\* The typed facts about pump p that its steps use.
LEMMA PumpFacts ==
  ASSUME IInv, NEW p \in Pumps
  PROVE  /\ sent[p] \in Seq(Nat) /\ Len(sent[p]) \in Nat
         /\ got[p] \in 0..Len(sent[p]) /\ fwd[p] \in 0..got[p] /\ cut[p] \in 0..got[p]
         /\ frame[p].first \in Nat /\ frame[p].last \in Nat
         /\ ForwardedAt(p) /\ RecordedAt(p) /\ KeptAt(p) /\ SafeAt(p)
<1>1. TypeOK /\ Bounds /\ PumpInv(p)
  BY DEF IInv
<1>2. /\ sent[p] \in Seq(Nat) /\ frame[p] \in Frames
      /\ got[p] \in Nat /\ cut[p] \in Nat /\ fwd[p] \in Nat
  BY <1>1 DEF TypeOK
<1>3. Len(sent[p]) \in Nat
  BY <1>2
<1>4. got[p] \in 0..Len(sent[p]) /\ fwd[p] \in 0..got[p] /\ cut[p] \in 0..got[p]
  BY <1>1, <1>2, <1>3 DEF Bounds
<1>5. frame[p].first \in Nat /\ frame[p].last \in Nat
  BY <1>2 DEF Frames
<1> QED
  BY <1>1, <1>2, <1>3, <1>4, <1>5 DEF PumpInv

\* A step of pump p that neither forwards nor flushes keeps what is recorded
\* before forwarded.
LEMMA SafeSame ==
  ASSUME NEW p \in Pumps, SafeAt(p), UNCHANGED <<sent, fwd>>, DiskSame
  PROVE  SafeAt(p)'
BY DEF SafeAt, RecordedTo, DiskSame

LEMMA ReadSteps ==
  ASSUME IInv, NEW p \in Pumps,
         \/ \E n \in 1..CHUNK : RecvChunk(p, n)
         \/ RecvEnd(p) \/ RecvError(p) \/ NoMoreFrames(p)
  PROVE  PumpInv(p)' /\ OthersSame(p)
<1>1. /\ UNCHANGED <<tap, sent, cut, fwd, frame, file, flushed>>
      /\ \A q \in Pumps : q # p => got'[q] = got[q] /\ pc'[q] = pc[q]
  BY DEF RecvChunk, RecvEnd, RecvError, NoMoreFrames, GoTo, peerVars, logVars, IInv, TypeOK
<1>2. DiskSame
  BY <1>1, DiskUnchanged
<1>3. OthersSame(p)
  BY <1>1, <1>2 DEF OthersSame, DiskSame
<1>4. SafeAt(p)'
  BY <1>1, <1>2, SafeSame, PumpFacts
<1>5. ASSUME NEW n \in 1..CHUNK, RecvChunk(p, n) PROVE PumpInv(p)'
  <2>1. pc[p] = "recv" /\ pc'[p] = "parse"
    BY <1>5 DEF RecvChunk, At, GoTo, IInv, TypeOK
  <2>2. ForwardedAt(p)' /\ RecordedAt(p)' /\ KeptAt(p)'
    BY <1>1, <1>2, <2>1, PumpFacts
       DEF ForwardedAt, RecordedAt, KeptAt, RecordedTo, RecordedOnly, Logging, DiskSame
  <2> QED
    BY <1>4, <2>2 DEF PumpInv
<1>6. ASSUME RecvEnd(p) \/ RecvError(p) PROVE PumpInv(p)'
  <2>1. pc[p] = "recv" /\ pc'[p] = "final"
    BY <1>6 DEF RecvEnd, RecvError, At, GoTo, IInv, TypeOK
  <2>2. ForwardedAt(p)' /\ RecordedAt(p)' /\ KeptAt(p)'
    BY <1>1, <1>2, <2>1, PumpFacts
       DEF ForwardedAt, RecordedAt, KeptAt, RecordedTo, RecordedOnly, Logging, DiskSame
  <2> QED
    BY <1>4, <2>2 DEF PumpInv
<1>7. ASSUME NoMoreFrames(p) PROVE PumpInv(p)'
  <2>1. pc[p] = "parse" /\ pc'[p] = "send" /\ got' = got /\ ~Unit(sent[p], cut[p], got[p])
    BY <1>7 DEF NoMoreFrames, At, GoTo, IInv, TypeOK
  <2>2. ForwardedAt(p)' /\ RecordedAt(p)' /\ KeptAt(p)'
    BY <1>1, <1>2, <2>1, PumpFacts
       DEF ForwardedAt, RecordedAt, KeptAt, RecordedTo, RecordedOnly, Logging, DiskSame
  <2> QED
    BY <1>4, <2>2 DEF PumpInv
<1> QED
  BY <1>3, <1>5, <1>6, <1>7

LEMMA YieldSteps ==
  ASSUME IInv, NEW p \in Pumps, YieldFrame(p) \/ YieldRest(p)
  PROVE  PumpInv(p)' /\ OthersSame(p)
<1>1. /\ UNCHANGED <<tap, sent, got, fwd, file, flushed>>
      /\ \A q \in Pumps : q # p => cut'[q] = cut[q] /\ pc'[q] = pc[q] /\ frame'[q] = frame[q]
      /\ pc[p] = "parse" /\ pc'[p] = "stamp"
      /\ frame'[p].first = cut[p] + 1 /\ frame'[p].then = "parse"
      /\ frame'[p].last = cut'[p]
  <2>1. PICK last : Yield(p, last)
    BY DEF YieldFrame, YieldRest
  <2>2. /\ cut \in [Pumps -> Nat] /\ pc \in [Pumps -> Places] /\ frame \in [Pumps -> Frames]
    BY DEF IInv, TypeOK
  <2>3. /\ cut' = [cut EXCEPT ![p] = last]
        /\ frame' = [frame EXCEPT ![p] = [first |-> cut[p] + 1, last |-> last,
                                          stamp |-> 0, then |-> "parse"]]
        /\ pc' = [pc EXCEPT ![p] = "stamp"]
    BY <2>1 DEF Yield, GoTo
  <2>4. pc[p] = "parse" /\ UNCHANGED <<tap, sent, got, fwd, file, flushed>>
    BY DEF YieldFrame, YieldRest, At, peerVars, logVars
  <2> QED
    BY <2>2, <2>3, <2>4
<1>2. DiskSame
  BY <1>1, DiskUnchanged
<1>3. OthersSame(p)
  BY <1>1, <1>2 DEF OthersSame, DiskSame
<1>4. SafeAt(p)'
  BY <1>1, <1>2, SafeSame, PumpFacts
<1>5. ~Unit(sent[p], cut[p], fwd[p])
  BY <1>1, PumpFacts DEF ForwardedAt
<1>6. cut'[p] > cut[p] /\ fwd[p] <= cut'[p] /\ cut[p] \in Nat /\ cut'[p] \in Nat
  <2>1. CASE YieldFrame(p)
    <3>0. cut[p] \in Nat /\ fwd[p] \in Nat /\ got[p] \in Nat /\ fwd[p] <= got[p]
      BY PumpFacts
    <3>1. cut'[p] = cut[p] + Total(sent[p], cut[p]) /\ WholeFrame(sent[p], cut[p], got[p])
      BY <2>1 DEF YieldFrame, Yield, IInv, TypeOK
    <3>2. Total(sent[p], cut[p]) \in Nat /\ Total(sent[p], cut[p]) > HEADER
      BY <3>1, PumpFacts, TotalType
    <3>3. fwd[p] - cut[p] < HEADER \/ Total(sent[p], cut[p]) > fwd[p] - cut[p]
      BY <1>5, <3>1, <3>2, <3>0, FramingAssumption DEF Unit, WholeFrame, HasHeader
    <3> QED
      BY <3>0, <3>1, <3>2, <3>3, FramingAssumption
  <2>2. CASE YieldRest(p)
    <3>1. cut'[p] = got[p] /\ BadHeader(sent[p], cut[p], got[p])
      BY <2>2 DEF YieldRest, Yield, IInv, TypeOK
    <3> QED
      BY <3>1, PumpFacts, FramingAssumption DEF BadHeader, HasHeader
  <2> QED
    BY <2>1, <2>2
<1>7. ForwardedAt(p)'
  <2>1. frame'[p].first - 1 = cut[p]
    BY <1>1, <1>6
  <2> QED
    BY <1>1, <1>5, <1>6, <2>1 DEF ForwardedAt, Logging
<1>8. RecordedAt(p)' /\ KeptAt(p)'
  <2>1. RecordedTo(p, cut[p]) /\ RecordedOnly(p, cut[p])
    BY <1>1, PumpFacts DEF RecordedAt
  <2>2. frame'[p].first - 1 = cut[p]
    BY <1>1, <1>6
  <2> QED
    BY <1>1, <1>2, <2>1, <2>2 DEF RecordedAt, KeptAt, RecordedTo, RecordedOnly, Logging, DiskSame
<1> QED
  BY <1>3, <1>4, <1>7, <1>8 DEF PumpInv

LEMMA SendSteps ==
  ASSUME IInv, NEW p \in Pumps, SendAll(p) \/ SendError(p)
  PROVE  PumpInv(p)' /\ OthersSame(p)
<1>1. /\ UNCHANGED <<tap, sent, got, cut, frame, file, flushed>>
      /\ \A q \in Pumps : q # p => fwd'[q] = fwd[q] /\ pc'[q] = pc[q]
      /\ pc[p] = "send" /\ pc'[p] \in {"recv", "final"}
      /\ fwd'[p] \in fwd[p]..got[p]
      /\ pc'[p] = "recv" => fwd'[p] = got[p]
  <2>1. pc \in [Pumps -> Places] /\ fwd \in [Pumps -> Nat] /\ fwd[p] \in 0..got[p]
        /\ got[p] \in Nat
    BY PumpFacts DEF IInv, TypeOK
  <2> QED
    BY <2>1 DEF SendAll, SendError, At, GoTo, peerVars, logVars
<1>2. DiskSame
  BY <1>1, DiskUnchanged
<1>3. OthersSame(p)
  BY <1>1, <1>2 DEF OthersSame, DiskSame
<1>4. ~Unit(sent[p], cut[p], got[p]) /\ RecordedTo(p, cut[p]) /\ RecordedOnly(p, cut[p])
  BY <1>1, PumpFacts DEF ForwardedAt, RecordedAt
<1>5. ForwardedAt(p)' /\ RecordedAt(p)' /\ KeptAt(p)'
  BY <1>1, <1>2, <1>4, PumpFacts
     DEF ForwardedAt, RecordedAt, KeptAt, RecordedTo, RecordedOnly, Logging, DiskSame
<1>6. SafeAt(p)'
  <2> SUFFICES ASSUME NEW a \in 0..fwd'[p], RecordedTo(p, a)', ~OnDisk(p, a + 1)'
               PROVE  ~Unit(sent[p], a, fwd'[p])
    BY <1>1 DEF SafeAt
  <2>1. ~OnDisk(p, a + 1)
    BY <1>2 DEF DiskSame
  <2>2. a \in Nat /\ fwd'[p] \in Nat /\ cut[p] \in Nat /\ got[p] \in Nat /\ a <= got[p]
    BY <1>1, PumpFacts
  <2>3. a = cut[p]
    <3>1. cut[p] <= a
      BY <1>4, <2>1, <2>2 DEF RecordedTo
    <3>2. a = 0 \/ OnDisk(p, a)
      BY <1>2, <2>2 DEF RecordedTo, DiskSame
    <3>3. a <= cut[p]
      BY <1>4, <2>2, <3>2 DEF RecordedOnly
    <3> QED
      BY <2>2, <3>1, <3>3
  <2> QED
    BY <1>1, <1>4, <2>2, <2>3, PumpFacts, UnitSmaller
<1> QED
  BY <1>3, <1>5, <1>6 DEF PumpInv

\* The steps that end a stream: what is left in the buffer becomes the frame in
\* hand, and the destination is half-closed.
LEMMA EndSteps ==
  ASSUME IInv, NEW p \in Pumps, Leftover(p) \/ HalfClose(p)
  PROVE  PumpInv(p)' /\ OthersSame(p)
<1>0. pc \in [Pumps -> Places] /\ frame \in [Pumps -> Frames]
  BY DEF IInv, TypeOK
<1>1. /\ UNCHANGED <<tap, sent, got, cut, fwd, file, flushed>>
      /\ \A q \in Pumps : q # p => pc'[q] = pc[q] /\ frame'[q] = frame[q]
  BY <1>0 DEF Leftover, HalfClose, GoTo, peerVars, logVars
<1>2. DiskSame
  BY <1>1, DiskUnchanged
<1>3. OthersSame(p)
  BY <1>1, <1>2 DEF OthersSame, DiskSame
<1>4. SafeAt(p)'
  BY <1>1, <1>2, SafeSame, PumpFacts
<1>5. CASE Leftover(p) /\ cut[p] < got[p]
  <2>1. /\ pc[p] = "final" /\ pc'[p] = "stamp"
        /\ frame'[p].first = cut[p] + 1 /\ frame'[p].last = got[p]
        /\ frame'[p].then = "shut"
    BY <1>0, <1>5 DEF Leftover, At, GoTo
  <2>2. ForwardedAt(p)' /\ RecordedAt(p)' /\ KeptAt(p)'
    BY <1>1, <1>2, <2>1, PumpFacts
       DEF ForwardedAt, RecordedAt, KeptAt, RecordedTo, RecordedOnly, Logging, DiskSame
  <2> QED
    BY <1>3, <1>4, <2>2 DEF PumpInv
<1>6. CASE Leftover(p) /\ ~(cut[p] < got[p])
  <2>1. pc[p] = "final" /\ pc'[p] = "shut" /\ cut[p] = got[p]
    BY <1>0, <1>6, PumpFacts DEF Leftover, At, GoTo
  <2>2. ForwardedAt(p)' /\ RecordedAt(p)' /\ KeptAt(p)'
    BY <1>1, <1>2, <2>1, PumpFacts
       DEF ForwardedAt, RecordedAt, KeptAt, RecordedTo, RecordedOnly, Logging, DiskSame
  <2> QED
    BY <1>3, <1>4, <2>2 DEF PumpInv
<1>7. CASE HalfClose(p)
  <2>1. pc[p] = "shut" /\ pc'[p] = "done"
    BY <1>0, <1>7 DEF HalfClose, At, GoTo
  <2>2. ForwardedAt(p)' /\ RecordedAt(p)' /\ KeptAt(p)'
    BY <1>1, <1>2, <2>1, PumpFacts
       DEF ForwardedAt, RecordedAt, KeptAt, RecordedTo, RecordedOnly, Logging, DiskSame
  <2> QED
    BY <1>3, <1>4, <2>2 DEF PumpInv
<1> QED
  BY <1>5, <1>6, <1>7

\* The steps of log_frame up to the flush: nothing reaches the disk.
LEMMA LogSteps ==
  ASSUME IInv, NEW p \in Pumps, Stamp(p) \/ Acquire(p) \/ WriteRow(p)
  PROVE  PumpInv(p)' /\ OthersSame(p)
<1>0. pc \in [Pumps -> Places] /\ frame \in [Pumps -> Frames]
  BY DEF IInv, TypeOK
<1>1. /\ UNCHANGED <<tap, sent, got, cut, fwd, flushed>>
      /\ \A q \in Pumps : q # p => pc'[q] = pc[q] /\ frame'[q] = frame[q]
      /\ pc[p] \in {"stamp", "acquire", "write"}
      /\ pc'[p] \in {"acquire", "write", "flush"}
  BY <1>0 DEF Stamp, Acquire, WriteRow, At, GoTo, peerVars
<1>2. /\ frame'[p].first = frame[p].first /\ frame'[p].last = frame[p].last
      /\ frame'[p].then = frame[p].then
  <2>1. CASE Stamp(p)
    <3>1. frame'[p] = [frame[p] EXCEPT !.stamp = clock + 1]
      BY <1>0, <2>1 DEF Stamp
    <3> QED
      BY <1>0, <3>1 DEF Frames
  <2>2. CASE Acquire(p) \/ WriteRow(p)
    BY <2>2 DEF Acquire, WriteRow
  <2> QED
    BY <2>1, <2>2
<1>3. DiskSame
  <2>1. CASE Stamp(p) \/ Acquire(p)
    BY <2>1, DiskUnchanged DEF Stamp, Acquire
  <2>2. CASE WriteRow(p)
    <3>1. flushed \in 0..Len(file) /\ file \in Seq(Rows)
      BY DEF IInv, TypeOK, InFile
    <3>2. \A i \in 1..flushed : file'[i] = file[i]
      BY <2>2, <3>1 DEF WriteRow
    <3> QED
      BY <1>1, <3>2, DiskPrefix
  <2> QED
    BY <2>1, <2>2
<1>4. OthersSame(p)
  BY <1>1, <1>3 DEF OthersSame, DiskSame
<1>5. SafeAt(p)'
  BY <1>1, <1>3, SafeSame, PumpFacts
<1>6. ForwardedAt(p)'
  BY <1>1, <1>2, PumpFacts DEF ForwardedAt, Logging
<1>7. RecordedAt(p)' /\ KeptAt(p)'
  BY <1>1, <1>2, <1>3, PumpFacts
     DEF RecordedAt, KeptAt, RecordedTo, RecordedOnly, Logging, DiskSame
<1> QED
  BY <1>4, <1>5, <1>6, <1>7 DEF PumpInv

\* A closed logger ends the stream without a row.
LEMMA ClosedSteps ==
  ASSUME IInv, NEW p \in Pumps, WriteClosed(p)
  PROVE  PumpInv(p)' /\ OthersSame(p)
<1>1. /\ UNCHANGED <<tap, sent, got, cut, fwd, frame, file, flushed>>
      /\ \A q \in Pumps : q # p => pc'[q] = pc[q]
      /\ pc'[p] \in {"final", "done"}
      /\ tap = "closed"
  BY DEF WriteClosed, At, GoTo, peerVars, IInv, TypeOK
<1>2. DiskSame
  BY <1>1, DiskUnchanged
<1>3. OthersSame(p)
  BY <1>1, <1>2 DEF OthersSame, DiskSame
<1>4. SafeAt(p)'
  BY <1>1, <1>2, SafeSame, PumpFacts
<1>5. ForwardedAt(p)' /\ RecordedAt(p)' /\ KeptAt(p)'
  BY <1>1 DEF ForwardedAt, RecordedAt, KeptAt, Logging
<1> QED
  BY <1>3, <1>4, <1>5 DEF PumpInv

\* The flush puts the frame in hand on the disk: the disk now holds the stream
\* up to the end of that frame, which nothing forwarded goes beyond.
LEMMA FlushStep ==
  ASSUME IInv, NEW p \in Pumps, Flush(p)
  PROVE  PumpInv(p)' /\ OthersSame(p)
<1>0. /\ pc \in [Pumps -> Places] /\ frame \in [Pumps -> Frames]
      /\ frame[p].then \in {"recv", "parse", "shut"}
  BY DEF IInv, TypeOK, Frames
<1>1. /\ UNCHANGED <<tap, sent, got, cut, fwd>>
      /\ \A q \in Pumps : q # p => pc'[q] = pc[q] /\ frame'[q] = frame[q]
      /\ pc[p] = "flush" /\ pc'[p] = frame[p].then
  BY <1>0 DEF Flush, At, GoTo, peerVars
<1>2. \A o \in Nat : OnDisk(p, o)' <=> OnDisk(p, o) \/ o \in frame[p].first..frame[p].last
  BY DiskFlush
<1>3. OthersSame(p)
  BY <1>1, DiskFlush DEF OthersSame
<1>4. CASE frame[p].then = "parse"
  <2> DEFINE a == frame[p].first - 1
  <2>1. /\ a \in Nat /\ a + 1 = frame[p].first
        /\ frame[p].first \in Nat /\ frame[p].last \in Nat
        /\ frame[p].first <= frame[p].last
        /\ frame[p].last = cut[p] /\ fwd[p] <= frame[p].last /\ fwd[p] \in Nat
        /\ ~Unit(sent[p], a, fwd[p])
        /\ RecordedTo(p, a) /\ RecordedOnly(p, a)
    BY <1>1, <1>4, PumpFacts DEF ForwardedAt, RecordedAt, Logging
  <2> HIDE DEF a
  <2>2. RecordedTo(p, cut[p])'
    <3> SUFFICES ASSUME NEW o \in 1..cut[p] PROVE OnDisk(p, o)'
      BY <1>1 DEF RecordedTo
    <3>1. CASE o <= a
      BY <1>2, <2>1, <3>1 DEF RecordedTo
    <3>2. CASE o > a
      BY <1>2, <2>1, <3>2
    <3> QED
      BY <2>1, <3>1, <3>2
  <2>3. RecordedOnly(p, cut[p])'
    BY <1>1, <1>2, <2>1 DEF RecordedOnly
  <2>4. ~Unit(sent[p], cut[p], fwd[p])
    BY <2>1, UnitEmpty
  <2>5. ForwardedAt(p)' /\ RecordedAt(p)' /\ KeptAt(p)'
    BY <1>1, <1>4, <2>2, <2>3, <2>4 DEF ForwardedAt, RecordedAt, KeptAt, Logging
  <2>6. SafeAt(p)'
    <3> SUFFICES ASSUME NEW b \in 0..fwd[p], ~OnDisk(p, b + 1)'
                 PROVE  ~Unit(sent[p], b, fwd[p])
      BY <1>1 DEF SafeAt
    <3>1. b \in Nat /\ ~(b + 1 <= cut[p])
      BY <1>1, <2>2 DEF RecordedTo
    <3>2. fwd[p] <= b
      BY <2>1, <3>1
    <3> QED
      BY <2>1, <3>1, <3>2, UnitEmpty
  <2> QED
    BY <1>3, <2>5, <2>6 DEF PumpInv
<1>5. CASE frame[p].then # "parse"
  <2>1. /\ frame[p].then = "shut" /\ frame[p].first = cut[p] + 1
        /\ frame[p].last = got[p]
        /\ cut[p] \in Nat /\ got[p] \in Nat /\ fwd[p] \in Nat /\ fwd[p] <= got[p]
    BY <1>1, <1>5, PumpFacts DEF ForwardedAt, Logging
  <2>2. ForwardedAt(p)' /\ RecordedAt(p)'
    BY <1>1, <2>1 DEF ForwardedAt, RecordedAt, Logging
  <2>3. KeptAt(p)'
    <3>1. tap \in {"up", "stopping"} => RecordedTo(p, cut[p])
      BY <1>1, <2>1, PumpFacts DEF KeptAt, Logging
    <3>2. tap \in {"up", "stopping"} => RecordedTo(p, got[p])'
      BY <1>1, <1>2, <2>1, <3>1 DEF RecordedTo
    <3> QED
      BY <1>1, <2>1, <3>2 DEF KeptAt, Logging
  <2>4. SafeAt(p)'
    <3> SUFFICES ASSUME NEW b \in 0..fwd[p], RecordedTo(p, b)', ~OnDisk(p, b + 1)'
                 PROVE  ~Unit(sent[p], b, fwd[p])
      BY <1>1 DEF SafeAt
    <3>1. b \in Nat /\ b <= fwd[p] /\ ~OnDisk(p, b + 1)
      BY <1>2
    <3>2. CASE b <= cut[p]
      <4>1. RecordedTo(p, b)
        BY <1>1, <1>2, <2>1, <3>1, <3>2 DEF RecordedTo
      <4> QED
        BY <3>1, <4>1, PumpFacts DEF SafeAt
    <3>3. CASE b > cut[p]
      <4>1. got[p] <= b
        BY <1>2, <2>1, <3>1, <3>3
      <4> QED
        BY <2>1, <3>1, <4>1, UnitEmpty
    <3> QED
      BY <2>1, <3>1, <3>2, <3>3
  <2> QED
    BY <1>3, <2>2, <2>3, <2>4 DEF PumpInv
<1> QED
  BY <1>4, <1>5

LEMMA PumpStep ==
  ASSUME IInv, NEW p \in Pumps, Pump(p)
  PROVE  \A q \in Pumps : PumpInv(q)'
<1>1. UNCHANGED <<tap, sent>>
  BY DEF Pump, RecvChunk, RecvEnd, RecvError, YieldFrame, YieldRest, NoMoreFrames, SendAll,
         SendError, Leftover, HalfClose, Stamp, Acquire, WriteRow, WriteClosed, Flush, peerVars
<1>2. PumpInv(p)' /\ OthersSame(p)
  BY ReadSteps, YieldSteps, SendSteps, EndSteps, LogSteps, ClosedSteps, FlushStep DEF Pump
<1> QED
  BY <1>1, <1>2, OtherPumps

\* What a peer writes comes after what was written before.
LEMMA EmitExtends ==
  ASSUME TypeOK, NEW p \in Pumps, NEW m \in Seq(Nat), Emit(p, m)
  PROVE  \A q \in Pumps : /\ Len(sent[q]) <= Len(sent'[q])
                          /\ \A i \in 1..Len(sent[q]) : sent'[q][i] = sent[q][i]
<1> SUFFICES ASSUME NEW q \in Pumps
             PROVE  /\ Len(sent[q]) <= Len(sent'[q])
                    /\ \A i \in 1..Len(sent[q]) : sent'[q][i] = sent[q][i]
  OBVIOUS
<1>1. sent[q] \in Seq(Nat)
  BY DEF TypeOK
<1>2. CASE q # p
  <2>1. sent'[q] = sent[q]
    BY <1>2 DEF Emit, TypeOK
  <2> QED
    BY <1>1, <2>1
<1>3. CASE q = p
  <2>1. sent'[q] = sent[q] \o m
    BY <1>3 DEF Emit, TypeOK
  <2> QED
    BY <1>1, <2>1
<1> QED
  BY <1>2, <1>3

\* The steps of the peers, of main and of handle_client move no pump, but for
\* the start of the two pumps of a connection, which have nothing yet.
LEMMA PeerStep ==
  ASSUME IInv, TypeOK', NEW c \in Conns,
         Client(c) \/ Plc(c) \/ Handler(c) \/ PlcUnreachable(c) \/ \E e \in Ends : Reset(e)
  PROVE  \A q \in Pumps : PumpInv(q)'
<1> DEFINE Extended == \A q \in Pumps : /\ Len(sent[q]) <= Len(sent'[q])
                                        /\ \A i \in 1..Len(sent[q]) : sent'[q][i] = sent[q][i]
<1>1. \A q \in Pumps : sent[q] \in Seq(Nat)
  BY DEF IInv, TypeOK
<1>2. sent' = sent => Extended
  BY <1>1
<1>3. ASSUME NEW p \in Pumps, NEW m \in Seq(Nat), Emit(p, m) PROVE Extended
  BY <1>3, EmitExtends DEF IInv
<1>4. CASE Client(c) \/ Plc(c) \/ Accept(c) \/ CloseBoth(c) \/ PlcUnreachable(c)
           \/ \E e \in Ends : Reset(e)
  <2>1. UNCHANGED <<tap, got, cut, fwd, pc, frame, file, flushed>>
    BY <1>4 DEF Client, ClientConnect, ClientWrite, ClientClose, Plc, PlcReply, PlcClose,
                Accept, CloseBoth, PlcUnreachable, Reset, pumpVars, logVars
  <2>2. Extended
    <3>1. ASSUME NEW m \in Requests, ClientWrite(c, m) PROVE Extended
      BY <1>3, <3>1, PumpTypes, PayloadAssumption DEF ClientWrite
    <3>2. ASSUME NEW m \in Replies, PlcReply(c, m) PROVE Extended
      BY <1>3, <3>2, PumpTypes, PayloadAssumption DEF PlcReply
    <3>3. CASE ClientConnect(c) \/ ClientClose(c) \/ PlcClose(c) \/ Accept(c)
               \/ CloseBoth(c) \/ PlcUnreachable(c) \/ \E e \in Ends : Reset(e)
      BY <1>2, <3>3 DEF ClientConnect, ClientClose, PlcClose, Accept, CloseBoth,
                        PlcUnreachable, Reset, peerVars
    <3> QED
      BY <1>4, <3>1, <3>2, <3>3 DEF Client, Plc
  <2> QED
    BY <2>1, <2>2, QuietStep
<1>5. CASE PlcConnected(c)
  <2> SUFFICES ASSUME NEW q \in Pumps PROVE PumpInv(q)'
    OBVIOUS
  <2>1. UNCHANGED <<tap, sent, got, cut, fwd, frame, file, flushed>>
    BY <1>5 DEF PlcConnected, peerVars, logVars
  <2>2. DiskSame
    BY <2>1, DiskUnchanged
  <2>3. CASE q[1] = c
    <3>1. pc[q] = "idle" /\ got[q] = 0 /\ pc'[q] = "recv"
      BY <1>5, <2>3 DEF PlcConnected, IInv, NotStarted
    <3>2. cut[q] = 0 /\ fwd[q] = 0 /\ RecordedOnly(q, 0)
      BY <3>1, PumpFacts DEF RecordedAt
    <3>3. ~Unit(sent[q], 0, 0)
      BY UnitEmpty
    <3>4. ForwardedAt(q)'
      BY <2>1, <3>1, <3>2, <3>3 DEF ForwardedAt, Logging
    <3>5. RecordedAt(q)' /\ KeptAt(q)'
      BY <2>1, <2>2, <3>1, <3>2
         DEF RecordedAt, KeptAt, RecordedTo, RecordedOnly, Logging, DiskSame
    <3>6. SafeAt(q)'
      BY <2>1, <2>2, SafeSame, PumpFacts
    <3> QED
      BY <3>4, <3>5, <3>6 DEF PumpInv
  <2>4. CASE q[1] # c
    <3>1. pc'[q] = pc[q]
      BY <1>5, <2>4 DEF PlcConnected
    <3>2. ForwardedAt(q)'
      BY <2>1, <3>1, PumpFacts DEF ForwardedAt, Logging
    <3>3. RecordedAt(q)' /\ KeptAt(q)'
      BY <2>1, <2>2, <3>1, PumpFacts
         DEF RecordedAt, KeptAt, RecordedTo, RecordedOnly, Logging, DiskSame
    <3>4. SafeAt(q)'
      BY <2>1, <2>2, SafeSame, PumpFacts
    <3> QED
      BY <3>2, <3>3, <3>4 DEF PumpInv
  <2> QED
    BY <2>3, <2>4
<1> QED
  BY <1>4, <1>5 DEF Handler

\* The end of the process takes nothing off the disk.
LEMMA StopStep ==
  ASSUME IInv, Interrupt \/ CloseLogger \/ Kill
  PROVE  \A q \in Pumps : PumpInv(q)'
<1> SUFFICES ASSUME NEW q \in Pumps PROVE PumpInv(q)'
  OBVIOUS
<1>1. /\ UNCHANGED <<sent, got, cut, fwd, frame, pc, flushed>>
      /\ tap' \in {"up", "stopping"} => tap \in {"up", "stopping"}
  BY DEF Interrupt, CloseLogger, Kill, peerVars, pumpVars, logVars
<1>2. DiskSame
  <2>1. CASE Interrupt \/ CloseLogger
    BY <2>1, DiskUnchanged DEF Interrupt, CloseLogger, logVars
  <2>2. CASE Kill
    <3>1. flushed \in 0..Len(file) /\ file \in Seq(Rows)
      BY DEF IInv, TypeOK, InFile
    <3>2. \A i \in 1..flushed : file'[i] = file[i]
      BY <2>2, <3>1 DEF Kill
    <3> QED
      BY <1>1, <3>2, DiskPrefix
  <2> QED
    BY <2>1, <2>2
<1>3. ForwardedAt(q)'
  BY <1>1, PumpFacts DEF ForwardedAt, Logging
<1>4. RecordedAt(q)' /\ KeptAt(q)'
  BY <1>1, <1>2, PumpFacts
     DEF RecordedAt, KeptAt, RecordedTo, RecordedOnly, Logging, DiskSame
<1>5. SafeAt(q)'
  BY <1>1, <1>2, SafeSame, PumpFacts
<1> QED
  BY <1>3, <1>4, <1>5 DEF PumpInv

\* A pump takes no step before its connection is open.
LEMMA NotStartedStep ==
  ASSUME IInv, Next
  PROVE  NotStarted'
<1>1. NotStarted /\ conn \in [Conns -> ConnStates] /\ got \in [Pumps -> Nat]
      /\ pc \in [Pumps -> Places]
  BY DEF IInv, TypeOK
<1>2. ASSUME NEW p \in Pumps, Pump(p) PROVE NotStarted'
  <2>1. /\ conn' = conn /\ conn[p[1]] = "open"
        /\ \A q \in Pumps : q # p => pc'[q] = pc[q] /\ got'[q] = got[q]
    BY <1>1, <1>2
       DEF Pump, RecvChunk, RecvEnd, RecvError, YieldFrame, YieldRest, NoMoreFrames, SendAll,
           SendError, Leftover, HalfClose, Stamp, Acquire, WriteRow, WriteClosed, Flush,
           At, GoTo, Yield
  <2> QED
    BY <1>1, <2>1 DEF NotStarted
<1>3. ASSUME NEW c \in Conns, PlcConnected(c) PROVE NotStarted'
  BY <1>1, <1>3, PumpTypes DEF PlcConnected, NotStarted
<1>4. ASSUME NEW c \in Conns, Client(c) \/ Plc(c) \/ Accept(c) \/ CloseBoth(c) \/ PlcUnreachable(c)
      PROVE  NotStarted'
  <2>1. /\ UNCHANGED <<pc, got>>
        /\ \A d \in Conns : conn'[d] \in {"none", "backlog", "accepted"}
                              => conn[d] \in {"none", "backlog", "accepted"}
    BY <1>1, <1>4
       DEF Client, ClientConnect, ClientWrite, ClientClose, Plc, PlcReply, PlcClose, Accept,
           CloseBoth, PlcUnreachable, pumpVars
  <2> QED
    BY <1>1, <2>1, PumpTypes DEF NotStarted
<1>5. CASE (\E e \in Ends : Reset(e)) \/ Interrupt \/ CloseLogger \/ Kill
  BY <1>1, <1>5 DEF Reset, Interrupt, CloseLogger, Kill, pumpVars, NotStarted
<1> QED
  BY <1>2, <1>3, <1>4, <1>5 DEF Next, Handler

\* The lock lets one pump at a time write and flush.
LEMMA OneInFlightStep ==
  ASSUME IInv, TypeOK', Next
  PROVE  OneInFlight'
<1>0. /\ lock \in Pumps \cup {NoPump} /\ file \in Seq(Rows) /\ flushed \in Nat
      /\ pc \in [Pumps -> Places] /\ frame \in [Pumps -> Frames]
  BY DEF IInv, TypeOK
<1>1. Running => /\ \A q \in Pumps : InFlight(q)
                 /\ (\A q \in Pumps : pc[q] # "flush") => Len(file) = flushed
  BY DEF IInv, OneInFlight
<1>2. ASSUME UNCHANGED <<lock, file, flushed>>, Running,
             \A q \in Pumps : pc'[q] \in {"write", "flush"} \/ pc[q] \in {"write", "flush"}
                                => pc'[q] = pc[q] /\ frame'[q] = frame[q]
      PROVE  OneInFlight'
  <2>1. \A q \in Pumps : InFlight(q)'
    BY <1>1, <1>2 DEF InFlight
  <2> QED
    BY <1>1, <1>2, <2>1 DEF OneInFlight
<1>3. ASSUME NEW p \in Pumps, Pump(p) PROVE OneInFlight'
  <2>0. Running
    BY <1>3 DEF Pump, RecvChunk, RecvEnd, RecvError, YieldFrame, YieldRest, NoMoreFrames,
                SendAll, SendError, Leftover, HalfClose, Stamp, Acquire, WriteRow,
                WriteClosed, Flush, At
  <2>1. CASE \/ \E n \in 1..CHUNK : RecvChunk(p, n)
             \/ RecvEnd(p) \/ RecvError(p) \/ YieldFrame(p) \/ YieldRest(p)
             \/ NoMoreFrames(p) \/ SendAll(p) \/ SendError(p) \/ Leftover(p)
             \/ HalfClose(p) \/ Stamp(p)
    <3>1. /\ UNCHANGED <<lock, file, flushed>>
          /\ \A q \in Pumps : q # p => pc'[q] = pc[q] /\ frame'[q] = frame[q]
          /\ pc[p] \notin {"write", "flush"} /\ pc'[p] \notin {"write", "flush"}
      BY <1>0, <2>1
         DEF RecvChunk, RecvEnd, RecvError, YieldFrame, YieldRest, NoMoreFrames, SendAll,
             SendError, Leftover, HalfClose, Stamp, At, GoTo, Yield, logVars
    <3> QED
      BY <1>2, <2>0, <3>1
  <2>2. CASE Acquire(p)
    <3>1. \A q \in Pumps : pc[q] \notin {"write", "flush"}
      BY <1>1, <2>0, <2>2, ConnsAssumption DEF Acquire, InFlight
    <3>2. /\ lock' = p /\ UNCHANGED <<file, flushed, frame>>
          /\ \A q \in Pumps : q # p => pc'[q] = pc[q]
          /\ pc'[p] = "write"
      BY <1>0, <2>2 DEF Acquire, GoTo
    <3>3. \A q \in Pumps : InFlight(q)'
      BY <3>1, <3>2 DEF InFlight
    <3>4. Len(file) = flushed
      BY <1>1, <2>0, <3>1
    <3> QED
      BY <3>2, <3>3, <3>4 DEF OneInFlight
  <2>3. CASE WriteRow(p)
    <3> DEFINE row == [pump |-> p, first |-> frame[p].first,
                       last |-> frame[p].last, stamp |-> frame[p].stamp]
    <3>1. pc[p] = "write" /\ lock = p
      BY <1>1, <2>0, <2>3 DEF WriteRow, At, InFlight
    <3>2. \A q \in Pumps : q # p => pc[q] \notin {"write", "flush"}
      BY <1>1, <2>0, <3>1 DEF InFlight
    <3>3. Len(file) = flushed
      BY <1>1, <2>0, <3>1, <3>2
    <3>4. row \in Rows
      BY <1>0 DEF Rows, Frames
    <3>5. /\ lock' = p /\ flushed' = flushed /\ frame' = frame
          /\ file' = Append(file, row)
          /\ \A q \in Pumps : q # p => pc'[q] = pc[q]
          /\ pc'[p] = "flush"
      BY <1>0, <2>3, <3>1 DEF WriteRow, GoTo
    <3> HIDE DEF row
    <3>6. Len(file') = flushed' + 1 /\ file'[Len(file')] = row
      BY <1>0, <3>3, <3>4, <3>5
    <3>7. \A q \in Pumps : InFlight(q)'
      BY <3>2, <3>5, <3>6 DEF InFlight, row
    <3> QED
      BY <3>5, <3>7 DEF OneInFlight
  <2>4. CASE WriteClosed(p)
    <3>1. pc[p] = "write" /\ lock = p
      BY <1>1, <2>0, <2>4 DEF WriteClosed, At, InFlight
    <3>2. \A q \in Pumps : q # p => pc[q] \notin {"write", "flush"}
      BY <1>1, <2>0, <3>1 DEF InFlight
    <3>3. Len(file) = flushed
      BY <1>1, <2>0, <3>1, <3>2
    <3>4. /\ UNCHANGED <<file, flushed>>
          /\ \A q \in Pumps : pc'[q] \notin {"write", "flush"}
      BY <1>0, <2>4, <3>2 DEF WriteClosed, GoTo
    <3> QED
      BY <3>3, <3>4 DEF OneInFlight, InFlight
  <2>5. CASE Flush(p)
    <3>1. pc[p] = "flush" /\ lock = p
      BY <1>1, <2>0, <2>5 DEF Flush, At, InFlight
    <3>2. \A q \in Pumps : q # p => pc[q] \notin {"write", "flush"}
      BY <1>1, <2>0, <3>1 DEF InFlight
    <3>3. flushed' = Len(file') /\ \A q \in Pumps : pc'[q] \notin {"write", "flush"}
      BY <1>0, <2>5, <3>2 DEF Flush, GoTo, Frames
    <3> QED
      BY <3>3 DEF OneInFlight, InFlight
  <2> QED
    BY <1>3, <2>1, <2>2, <2>3, <2>4, <2>5 DEF Pump
<1>4. ASSUME NEW c \in Conns, PlcConnected(c) PROVE OneInFlight'
  <2>1. /\ UNCHANGED <<lock, file, flushed, frame>> /\ Running
        /\ \A q \in Pumps : pc'[q] = pc[q] \/ (pc[q] = "idle" /\ pc'[q] = "recv")
    BY <1>4 DEF PlcConnected, logVars, IInv, NotStarted
  <2> QED
    BY <1>2, <2>1
<1>5. CASE \/ \E c \in Conns : Client(c) \/ Plc(c) \/ Accept(c) \/ CloseBoth(c) \/ PlcUnreachable(c)
           \/ \E e \in Ends : Reset(e)
           \/ Interrupt \/ CloseLogger
  BY <1>2, <1>5
     DEF Client, ClientConnect, ClientWrite, ClientClose, Plc, PlcReply, PlcClose, Accept,
         CloseBoth, PlcUnreachable, Reset, Interrupt, CloseLogger, pumpVars, logVars, Running
<1>6. CASE Kill
  BY <1>6 DEF Kill, OneInFlight, Running
<1> QED
  BY <1>3, <1>4, <1>5, <1>6 DEF Next, Handler

----------------------------------------------------------------------------
(* The theorems.                                                           *)

LEMMA IInvInit == Init => IInv
<1> SUFFICES ASSUME Init PROVE IInv
  OBVIOUS
<1>1. TypeOK /\ Bounds /\ InFile
  BY TypeInit
<1>2. NotStarted
  BY DEF Init, NotStarted
<1>3. OneInFlight
  BY DEF Init, OneInFlight, InFlight
<1>4. ASSUME NEW p \in Pumps PROVE PumpInv(p)
  <2>1. pc[p] = "idle" /\ fwd[p] = 0 /\ sent[p] = <<>> /\ \A o : ~OnDisk(p, o)
    BY DEF Init, OnDisk
  <2>2. ForwardedAt(p) /\ RecordedAt(p) /\ KeptAt(p)
    BY <2>1 DEF ForwardedAt, RecordedAt, KeptAt, RecordedOnly, Logging
  <2>3. ~Unit(sent[p], 0, 0)
    BY UnitEmpty
  <2>4. SafeAt(p)
    BY <2>1, <2>3 DEF SafeAt
  <2> QED
    BY <2>2, <2>4 DEF PumpInv
<1> QED
  BY <1>1, <1>2, <1>3, <1>4 DEF IInv

LEMMA IInvStep == IInv /\ [Next]_vars => IInv'
<1> SUFFICES ASSUME IInv, [Next]_vars PROVE IInv'
  OBVIOUS
<1>1. TypeOK' /\ Bounds' /\ InFile'
  BY TypeStep, FileStep DEF IInv
<1>2. CASE UNCHANGED vars
  <2>1. UNCHANGED <<tap, conn, sent, got, cut, fwd, pc, frame, lock, file, flushed>>
    BY <1>2 DEF vars, peerVars, pumpVars, logVars
  <2>2. \A p \in Pumps : sent[p] \in Seq(Nat)
    BY DEF IInv, TypeOK
  <2>3. \A p \in Pumps : PumpInv(p)'
    BY <1>1, <2>1, <2>2, QuietStep
  <2>4. NotStarted' /\ OneInFlight'
    BY <2>1 DEF IInv, NotStarted, OneInFlight, InFlight, Running
  <2> QED
    BY <1>1, <2>3, <2>4 DEF IInv
<1>3. CASE Next
  <2>1. \A p \in Pumps : PumpInv(p)'
    <3>1. ASSUME NEW c \in Conns, Client(c) \/ Plc(c) \/ Handler(c) \/ PlcUnreachable(c)
          PROVE  \A p \in Pumps : PumpInv(p)'
      BY <1>1, <3>1, PeerStep
    <3>2. ASSUME NEW e \in Ends, Reset(e) PROVE \A p \in Pumps : PumpInv(p)'
      <4>1. PICK c \in Conns : TRUE
        BY DEF Ends
      <4> QED
        BY <1>1, <3>2, <4>1, PeerStep
    <3>3. ASSUME NEW p \in Pumps, Pump(p) PROVE \A q \in Pumps : PumpInv(q)'
      BY <3>3, PumpStep
    <3> QED
      BY <1>3, <3>1, <3>2, <3>3, StopStep DEF Next
  <2> QED
    BY <1>1, <1>3, <2>1, NotStartedStep, OneInFlightStep DEF IInv
<1> QED
  BY <1>2, <1>3

\* No destination ever holds a whole frame that is not on the disk, whatever is
\* reset, refused, interrupted or killed, and at whatever step.
THEOREM Recording == Spec => []RecordedBeforeForwarded
<1>1. IInv => RecordedBeforeForwarded
  BY DEF IInv, PumpInv, SafeAt, RecordedTo, RecordedBeforeForwarded
<1> QED
  BY <1>1, IInvInit, IInvStep, PTL DEF Spec

\* However a stream ends, what its pump received is on the disk by the time the
\* pump half-closes its destination, unless the logger was closed before.
THEOREM Keeping == Spec => []NothingReceivedIsLost
<1>1. IInv => NothingReceivedIsLost
  BY DEF IInv, PumpInv, KeptAt, RecordedTo, NothingReceivedIsLost
<1> QED
  BY <1>1, IInvInit, IInvStep, PTL DEF Spec

\* A kill loses at most the row being written: the lock spans write and flush.
THEOREM OneRowAtRisk == Spec => []AtMostOneRowAtRisk
<1>1. IInv => AtMostOneRowAtRisk
  <2> SUFFICES ASSUME IInv, Running PROVE Len(file) - flushed <= 1
    BY DEF AtMostOneRowAtRisk
  <2>1. Len(file) = flushed \/ Len(file) = flushed + 1
    BY DEF IInv, OneInFlight, InFlight
  <2> QED
    BY <2>1 DEF IInv, TypeOK
<1> QED
  BY <1>1, IInvInit, IInvStep, PTL DEF Spec

----------------------------------------------------------------------------
(* The refinement of TransparentLink.                                      *)

\* A pump that has left its loop has a reason to end its stream, and a stream
\* that is ended is handled no more.
Leaving(p) == \/ pc[p] \in {"final", "shut"}
              \/ Logging(p) /\ frame[p].then = "shut"
Ending(p) == /\ Leaving(p) => Link!Over(p)
             /\ shut[p] => pc[p] = "done"
LinkInv == IInv /\ \A p \in Pumps : Ending(p)

LEMMA SameStreams == Link!Streams = Pumps
BY DEF Link!Streams, Pumps, Directions

LEMMA SameEnds ==
  ASSUME NEW p \in Pumps
  PROVE  Link!Writer(p) = Source(p) /\ Link!Reader(p) = Dest(p)
BY DEF Link!Writer, Link!Reader, Source, Dest

\* A reason to end a stream stays one while nothing is written to a finished
\* stream and none of it is taken back.
LEMMA OverStays ==
  ASSUME NEW p \in Pumps, Link!Over(p), fin[p] => fin'[p] /\ sent'[p] = sent[p],
         fwd'[p] = fwd[p], gone \subseteq gone',
         tap \in {"closed", "down"} => tap' \in {"closed", "down"}
  PROVE  Link!Over(p)'
BY SameEnds DEF Link!Over, Source, Dest, Link!Writer, Link!Reader

\* The steps of a pump, as the link sees them.
LEMMA PumpImplements ==
  ASSUME LinkInv, IInv', NEW p \in Pumps, Pump(p)
  PROVE  /\ \/ Link!Deliver(p)
            \/ Link!EndOfStream(p)
            \/ UNCHANGED Link!vars
         /\ \A q \in Pumps : Ending(q)'
<1>0. /\ pc \in [Pumps -> Places] /\ frame \in [Pumps -> Frames] /\ fwd \in [Pumps -> Nat]
      /\ shut \in [Pumps -> BOOLEAN]
  BY DEF LinkInv, IInv, TypeOK
<1>1. UNCHANGED <<tap, sent, fin, gone>>
  BY DEF Pump, RecvChunk, RecvEnd, RecvError, YieldFrame, YieldRest, NoMoreFrames, SendAll,
         SendError, Leftover, HalfClose, Stamp, Acquire, WriteRow, WriteClosed, Flush, peerVars
<1>2. /\ \A q \in Pumps : q # p => /\ pc'[q] = pc[q] /\ frame'[q] = frame[q]
                                   /\ fwd'[q] = fwd[q] /\ shut'[q] = shut[q]
  BY <1>0
     DEF Pump, RecvChunk, RecvEnd, RecvError, YieldFrame, YieldRest, NoMoreFrames, SendAll,
         SendError, Leftover, HalfClose, Stamp, Acquire, WriteRow, WriteClosed, Flush, GoTo, Yield
<1>3. ASSUME NEW q \in Pumps, q # p PROVE Ending(q)'
  <2>1. Ending(q)
    BY DEF LinkInv
  <2>2. Link!Over(q) => Link!Over(q)'
    BY <1>1, <1>2, <1>3, OverStays
  <2> QED
    BY <1>2, <1>3, <2>1, <2>2 DEF Ending, Leaving, Logging
<1>4. /\ Ending(p) /\ ForwardedAt(p)
      /\ got[p] \in 0..Len(sent[p]) /\ fwd[p] \in 0..got[p] /\ Len(sent[p]) \in Nat
      /\ frame[p].then \in {"recv", "parse", "shut"}
  BY <1>0, PumpFacts DEF LinkInv, Frames
<1>5. UNCHANGED <<fwd, shut>> => UNCHANGED Link!vars
  BY <1>1 DEF Link!vars
<1>6. fwd' = fwd /\ Link!Over(p) => Link!Over(p)'
  BY <1>1, OverStays
<1>7. CASE RecvEnd(p) \/ RecvError(p)
  <2>1. UNCHANGED <<fwd, shut>> /\ pc[p] = "recv" /\ pc'[p] = "final"
    BY <1>0, <1>7 DEF RecvEnd, RecvError, At, GoTo
  <2>2. fwd[p] = got[p] /\ ~shut[p]
    BY <1>4, <2>1 DEF ForwardedAt, Ending
  <2>3. Link!Over(p)
    BY <1>7, <2>2, SameEnds DEF RecvEnd, RecvError, Link!Over
  <2>4. Ending(p)'
    BY <1>6, <2>1, <2>2, <2>3 DEF Ending, Leaving
  <2> QED
    BY <1>3, <1>5, <2>1, <2>4
<1>8. CASE SendAll(p) \/ SendError(p)
  <2>1. /\ pc[p] = "send" /\ shut' = shut
        /\ SendAll(p) => pc'[p] = "recv"
        /\ \E n \in fwd[p]..got[p] : fwd' = [fwd EXCEPT ![p] = n]
    BY <1>0, <1>4, <1>8, SMTT(30) DEF SendAll, SendError, At, GoTo
  <2>2. ~shut[p]
    BY <1>4, <2>1 DEF Ending
  <2>3. Link!Deliver(p)
    <3>1. PICK n \in fwd[p]..got[p] : fwd' = [fwd EXCEPT ![p] = n]
      BY <2>1
    <3>2. n \in fwd[p]..Len(sent[p])
      BY <1>4
    <3> QED
      BY <1>1, <2>1, <2>2, <3>1, <3>2 DEF Link!Deliver
  <2>4. CASE SendAll(p)
    BY <1>3, <2>1, <2>2, <2>3, <2>4 DEF Ending, Leaving, Logging
  <2>5. CASE SendError(p)
    <3>1. Link!Over(p)'
      BY <1>1, <2>5, SameEnds DEF SendError, Link!Over, Dest, Link!Reader
    <3> QED
      BY <1>3, <2>1, <2>2, <2>3, <3>1 DEF Ending
  <2> QED
    BY <1>8, <2>4, <2>5
<1>9. CASE HalfClose(p)
  <2>1. /\ pc[p] = "shut" /\ pc'[p] = "done" /\ fwd' = fwd
        /\ shut' = [shut EXCEPT ![p] = TRUE]
    BY <1>0, <1>9 DEF HalfClose, At, GoTo
  <2>2. Link!EndOfStream(p)
    BY <1>1, <1>4, <2>1 DEF Ending, Leaving, Link!EndOfStream
  <2> QED
    BY <1>3, <2>1, <2>2 DEF Ending, Leaving, Logging
<1>10. CASE WriteClosed(p)
  <2>1. /\ UNCHANGED <<fwd, shut>> /\ pc[p] = "write" /\ tap = "closed"
        /\ pc'[p] \in {"final", "done"}
    BY <1>0, <1>10 DEF WriteClosed, At, GoTo
  <2>2. Ending(p)'
    BY <1>1, <1>4, <2>1 DEF Ending, Leaving, Link!Over
  <2> QED
    BY <1>3, <1>5, <2>1, <2>2
<1>11. CASE Leftover(p)
  <2>1. UNCHANGED <<fwd, shut>> /\ pc[p] = "final" /\ pc'[p] \in {"stamp", "shut"}
    BY <1>0, <1>11 DEF Leftover, At, GoTo
  <2> QED
    BY <1>3, <1>4, <1>5, <1>6, <2>1 DEF Ending, Leaving
<1>12. CASE Stamp(p) \/ Acquire(p) \/ WriteRow(p)
  <2>1. /\ UNCHANGED <<fwd, shut>> /\ pc[p] \in {"stamp", "acquire", "write"}
        /\ pc'[p] \in {"acquire", "write", "flush"}
    BY <1>0, <1>12 DEF Stamp, Acquire, WriteRow, At, GoTo
  <2>2. frame'[p].then = frame[p].then
    <3>1. CASE Stamp(p)
      <4>1. frame'[p] = [frame[p] EXCEPT !.stamp = clock + 1]
        BY <1>0, <3>1 DEF Stamp
      <4> QED
        BY <1>0, <4>1 DEF Frames
    <3>2. CASE Acquire(p) \/ WriteRow(p)
      BY <3>2 DEF Acquire, WriteRow
    <3> QED
      BY <1>12, <3>1, <3>2
  <2> QED
    BY <1>3, <1>4, <1>5, <1>6, <2>1, <2>2 DEF Ending, Leaving, Logging
<1>13. CASE Flush(p)
  <2>1. UNCHANGED <<fwd, shut>> /\ pc[p] = "flush" /\ pc'[p] = frame[p].then
    BY <1>0, <1>13 DEF Flush, At, GoTo
  <2> QED
    BY <1>3, <1>4, <1>5, <1>6, <2>1 DEF Ending, Leaving, Logging
<1>14. CASE \/ \E n \in 1..CHUNK : RecvChunk(p, n)
            \/ YieldFrame(p) \/ YieldRest(p) \/ NoMoreFrames(p)
  <2>1. /\ UNCHANGED <<fwd, shut>> /\ pc[p] \in {"recv", "parse"}
        /\ pc'[p] \in {"parse", "send"} \/ (pc'[p] = "stamp" /\ frame'[p].then = "parse")
    BY <1>0, <1>14 DEF RecvChunk, YieldFrame, YieldRest, NoMoreFrames, Yield, At, GoTo
  <2> QED
    BY <1>3, <1>4, <1>5, <2>1 DEF Ending, Leaving, Logging
<1> QED
  BY <1>7, <1>8, <1>9, <1>10, <1>11, <1>12, <1>13, <1>14 DEF Pump

\* The steps of the peers, of main and of handle_client, as the link sees them.
LEMMA PeerImplements ==
  ASSUME LinkInv, IInv', NEW c \in Conns,
         Client(c) \/ Plc(c) \/ Handler(c) \/ PlcUnreachable(c)
  PROVE  /\ \/ \E p \in Pumps : Link!Write(p) \/ Link!Finish(p)
            \/ UNCHANGED Link!vars
         /\ \A p \in Pumps : Ending(p)'
<1>0. /\ sent \in [Pumps -> Seq(Nat)] /\ pc \in [Pumps -> Places] /\ fin \in [Pumps -> BOOLEAN]
      /\ Req(c) \in Pumps /\ Resp(c) \in Pumps
  BY PumpTypes DEF LinkInv, IInv, TypeOK
<1>1. ASSUME UNCHANGED <<tap, fwd, gone, shut, frame>>,
             \A q \in Pumps : \/ pc'[q] = pc[q]
                              \/ pc[q] = "idle" /\ pc'[q] = "recv",
             \A q \in Pumps : fin[q] => fin'[q] /\ sent'[q] = sent[q]
      PROVE  \A q \in Pumps : Ending(q)'
  <2> SUFFICES ASSUME NEW q \in Pumps PROVE Ending(q)'
    OBVIOUS
  <2>1. Ending(q)
    BY DEF LinkInv
  <2>2. Link!Over(q) => Link!Over(q)'
    BY <1>1, OverStays
  <2> QED
    BY <1>1, <2>1, <2>2 DEF Ending, Leaving, Logging
<1>2. ASSUME NEW p \in Pumps, NEW m \in Seq(Nat), Emit(p, m), ~fin[p],
             UNCHANGED <<tap, fin, fwd, gone, shut, frame, pc>>
      PROVE  Link!Write(p) /\ \A q \in Pumps : Ending(q)'
  <2>1. /\ sent' = [sent EXCEPT ![p] = sent[p] \o m]
        /\ sent'[p] = sent[p] \o m
    BY <1>0, <1>2 DEF Emit
  <2>2. Link!Extends(sent'[p], sent[p])
    BY <1>0, <2>1 DEF Link!Extends
  <2>3. Link!Write(p)
    BY <1>2, <2>1, <2>2 DEF Link!Write
  <2>4. \A q \in Pumps : fin[q] => fin'[q] /\ sent'[q] = sent[q]
    BY <1>0, <1>2, <2>1
  <2> QED
    BY <1>1, <1>2, <2>3, <2>4
<1>3. ASSUME NEW m \in Requests, ClientWrite(c, m)
      PROVE  Link!Write(Req(c)) /\ \A p \in Pumps : Ending(p)'
  <2>1. m \in Seq(Nat)
    BY PayloadAssumption
  <2> QED
    BY <1>0, <1>2, <1>3, <2>1 DEF ClientWrite, pumpVars
<1>4. ASSUME NEW m \in Replies, PlcReply(c, m)
      PROVE  Link!Write(Resp(c)) /\ \A p \in Pumps : Ending(p)'
  <2>1. m \in Seq(Nat)
    BY PayloadAssumption
  <2> QED
    BY <1>0, <1>2, <1>4, <2>1 DEF PlcReply, pumpVars
<1>5. ASSUME NEW p \in {Req(c), Resp(c)}, fin' = [fin EXCEPT ![p] = TRUE],
             UNCHANGED <<tap, sent, gone, pumpVars>>
      PROVE  Link!Finish(p) /\ \A q \in Pumps : Ending(q)'
  <2>1. Link!Finish(p)
    BY <1>5 DEF Link!Finish, pumpVars
  <2>2. \A q \in Pumps : fin[q] => fin'[q] /\ sent'[q] = sent[q]
    BY <1>0, <1>5
  <2> QED
    BY <1>1, <1>5, <2>1, <2>2 DEF pumpVars
<1>6. CASE ClientClose(c) \/ PlcClose(c)
  BY <1>0, <1>5, <1>6 DEF ClientClose, PlcClose
<1>7. CASE ClientConnect(c) \/ Accept(c) \/ PlcConnected(c) \/ CloseBoth(c) \/ PlcUnreachable(c)
  <2>1. /\ UNCHANGED <<tap, peerVars, fwd, shut, frame>>
        /\ \A q \in Pumps : \/ pc'[q] = pc[q]
                            \/ pc[q] = "idle" /\ pc'[q] = "recv"
    BY <1>7
       DEF ClientConnect, Accept, PlcConnected, CloseBoth, PlcUnreachable, pumpVars,
           LinkInv, IInv, NotStarted
  <2> QED
    BY <1>1, <1>7, <2>1
       DEF peerVars, Link!vars, ClientConnect, Accept, PlcConnected, CloseBoth, PlcUnreachable
<1> QED
  BY <1>0, <1>3, <1>4, <1>6, <1>7, <1>5 DEF Client, Plc, Handler, ClientClose, PlcClose

\* Ends that disappear and the end of the tap are steps of the link of their own.
LEMMA FaultImplements ==
  ASSUME LinkInv, (\E e \in Ends : Reset(e)) \/ Interrupt \/ CloseLogger \/ Kill
  PROVE  /\ Link!Disappear \/ Link!Stop \/ UNCHANGED Link!vars
         /\ \A p \in Pumps : Ending(p)'
<1>1. ASSUME NEW p \in Pumps PROVE Ending(p)'
  <2>1. UNCHANGED <<sent, fin, fwd, shut, pc, frame>> /\ gone \subseteq gone'
    BY DEF Reset, Interrupt, CloseLogger, Kill, peerVars, pumpVars
  <2>2. tap \in {"closed", "down"} => tap' \in {"closed", "down"}
    BY DEF Reset, Interrupt, CloseLogger, Kill
  <2>3. Link!Over(p) => Link!Over(p)'
    BY <2>1, <2>2, OverStays
  <2>4. Ending(p)
    BY DEF LinkInv
  <2> QED
    BY <2>1, <2>3, <2>4 DEF Ending, Leaving, Logging
<1>2. CASE \E e \in Ends : Reset(e)
  BY <1>1, <1>2 DEF Reset, Link!Disappear, pumpVars
<1>3. CASE Interrupt
  BY <1>1, <1>3 DEF Interrupt, Link!vars, peerVars, pumpVars
<1>4. CASE CloseLogger \/ Kill
  BY <1>1, <1>4 DEF CloseLogger, Kill, Link!Stop, peerVars, pumpVars
<1> QED
  BY <1>2, <1>3, <1>4

\* The tap is a transparent link: every behaviour of it, with or without faults,
\* is one of TransparentLink (modbus_tap.py:6-7, 167-171).
THEOREM Transparent == Spec => LinkSpec
<1>1. Init => LinkInv /\ Link!Init
  <2> SUFFICES ASSUME Init PROVE LinkInv /\ Link!Init
    OBVIOUS
  <2>1. Link!Init
    BY SameStreams DEF Init, Link!Init
  <2>2. \A p \in Pumps : Ending(p)
    BY DEF Init, Ending, Leaving, Logging
  <2> QED
    BY <2>1, <2>2, IInvInit DEF LinkInv
<1>2. LinkInv /\ [Next]_vars => LinkInv' /\ [Link!Next]_(Link!vars)
  <2> SUFFICES ASSUME LinkInv, [Next]_vars PROVE LinkInv' /\ [Link!Next]_(Link!vars)
    OBVIOUS
  <2>1. IInv'
    BY IInvStep DEF LinkInv
  <2>2. CASE UNCHANGED vars
    <3>1. UNCHANGED <<tap, sent, fin, fwd, shut, gone, pc, frame>>
      BY <2>2 DEF vars, peerVars, pumpVars
    <3>2. \A p \in Pumps : Ending(p)'
      BY <3>1 DEF LinkInv, Ending, Leaving, Logging, Link!Over, Link!Writer, Link!Reader
    <3> QED
      BY <2>1, <3>1, <3>2 DEF LinkInv, Link!vars
  <2>3. CASE \E c \in Conns : Client(c) \/ Plc(c) \/ Handler(c) \/ PlcUnreachable(c)
    <3>1. /\ \/ \E p \in Pumps : Link!Write(p) \/ Link!Finish(p)
             \/ UNCHANGED Link!vars
          /\ \A p \in Pumps : Ending(p)'
      BY <2>1, <2>3, PeerImplements
    <3> QED
      BY <2>1, <3>1, SameStreams DEF LinkInv, Link!Next
  <2>4. CASE (\E e \in Ends : Reset(e)) \/ Interrupt \/ CloseLogger \/ Kill
    BY <2>1, <2>4, FaultImplements DEF LinkInv, Link!Next
  <2>5. CASE \E p \in Pumps : Pump(p)
    <3>1. PICK p \in Pumps : Pump(p)
      BY <2>5
    <3>2. /\ Link!Deliver(p) \/ Link!EndOfStream(p) \/ UNCHANGED Link!vars
          /\ \A q \in Pumps : Ending(q)'
      BY <2>1, <3>1, PumpImplements
    <3> QED
      BY <2>1, <3>2, SameStreams DEF LinkInv, Link!Next
  <2> QED
    BY <2>2, <2>3, <2>4, <2>5 DEF Next
<1> QED
  BY <1>1, <1>2, PTL DEF Spec, LinkSpec, Link!Spec

----------------------------------------------------------------------------
(* The rows of a stream, and of a request and its reply.                  *)

\* Bytes a+1 .. l of s are what iter_frames yields of a buffer that starts at a.
Yielded(s, a, l) == \/ WholeFrame(s, a, l) /\ l = a + Total(s, a)
                    \/ BadHeader(s, a, l)

HasHand(p) == pc[p] \in {"acquire", "write"}
Alive == tap \in {"up", "stopping"}

\* How a row r of stream p relates to where its pump is: the rows are behind
\* the parser, and behind the frame in hand.
RowFits(p, r) ==
  /\ 1 <= r.first /\ r.first <= r.last /\ r.last <= got[p]
  /\ r.stamp <= clock
  /\ pc[p] \in {"stamp", "acquire", "write"} => r.last < frame[p].first
  /\ HasHand(p) => r.stamp < frame[p].stamp
  /\ pc[p] \in {"idle", "recv", "parse", "send", "final"} => r.last <= cut[p]
  /\ pc[p] = "flush" /\ frame[p].then = "parse" => r.last <= cut[p]
  /\ \/ Yielded(sent[p], r.first - 1, r.last)
     \/ /\ ~Unit(sent[p], r.first - 1, got[p])
        /\ pc[p] \in {"shut", "done"} \/ (pc[p] = "flush" /\ frame[p].then # "parse")

\* What the frame in hand is, and that a stream is only ended with no frame left.
HandAt(p) ==
  /\ Logging(p) => /\ 1 <= frame[p].first /\ frame[p].first <= frame[p].last
                   /\ frame[p].last <= got[p]
  /\ HasHand(p) => frame[p].stamp <= clock
  /\ Logging(p) /\ frame[p].then = "parse" =>
       Yielded(sent[p], frame[p].first - 1, frame[p].last)
  /\ (pc[p] = "final" \/ (Logging(p) /\ frame[p].then # "parse")) /\ Alive =>
       ~Unit(sent[p], cut[p], got[p])
  /\ pc[p] = "flush" => tap # "closed"
  /\ pc[p] = "idle" => got[p] = 0

RowsAt(p) == \A i \in 1..Len(file) : RowOf(p, i) => RowFits(p, file[i])

\* The disk holds a stream up to the end of each of its rows.
WholeTo(p) == \A i \in 1..flushed : RowOf(p, i) => RecordedTo(p, file[i].last)

\* Row i is that of a request of c that ends at byte n, from before time t.
RequestRow(c, i, n, t) == RowOf(Req(c), i) /\ file[i].last = n /\ file[i].stamp < t

\* The request of c that ends at byte n is on the disk, before each row of a
\* reply stream that reaches byte e, and before the frame in hand if it does.
Pair(c, n, e) ==
  /\ \E i \in 1..flushed : RowOf(Req(c), i) /\ file[i].last = n
  /\ \A j \in 1..Len(file) : RowOf(Resp(c), j) /\ file[j].last >= e =>
       \E i \in 1..j-1 : RequestRow(c, i, n, file[j].stamp)
  /\ HasHand(Resp(c)) /\ frame[Resp(c)].last >= e =>
       \E i \in 1..flushed : RequestRow(c, i, n, frame[Resp(c)].stamp)

\* Every request that was answered is on the disk, before what answers it.
PairAt(c) ==
  /\ Len(ends[Resp(c)]) = Len(answered[c])
  /\ \A k \in 1..Len(answered[c]) : Pair(c, answered[c][k], ends[Resp(c)][k])

OInv == /\ IInv /\ RowsInStreamOrder
        /\ \A p \in Pumps : RowsAt(p) /\ HandAt(p) /\ WholeTo(p)
PInv == OInv /\ \A c \in Conns : PairAt(c)

----------------------------------------------------------------------------
(* Streams that grow, and pumps that do not move.                          *)

LEMMA YieldedExtends ==
  ASSUME NEW s \in Seq(Nat), NEW t \in Seq(Nat), Len(s) <= Len(t),
         \A i \in 1..Len(s) : t[i] = s[i],
         NEW a \in Nat, NEW l \in 0..Len(s), Yielded(s, a, l)
  PROVE  Yielded(t, a, l)
<1>1. HasHeader(a, l)
  BY DEF Yielded, WholeFrame, BadHeader
<1>2. a + LENGTH_AT \in 1..Len(s)
  BY <1>1, FramingAssumption DEF HasHeader
<1>3. LengthField(t, a) = LengthField(s, a)
  BY <1>2 DEF LengthField
<1> QED
  BY <1>3 DEF Yielded, WholeFrame, BadHeader, ValidLength, Total

LEMMA RowTypes ==
  ASSUME IInv, NEW i \in 1..Len(file)
  PROVE  /\ file[i] \in Rows
         /\ file[i].first \in Nat /\ file[i].last \in Nat /\ file[i].stamp \in Nat
         /\ file[i].pump \in Pumps
<1>1. file \in Seq(Rows)
  BY DEF IInv, TypeOK
<1>2. file[i] \in Rows
  BY <1>1
<1> QED
  BY <1>2 DEF Rows

LEMMA HandTypes ==
  ASSUME IInv, NEW p \in Pumps
  PROVE  /\ frame[p].first \in Nat /\ frame[p].last \in Nat /\ frame[p].stamp \in Nat
         /\ pc \in [Pumps -> Places] /\ frame \in [Pumps -> Frames] /\ clock \in Nat
         /\ got[p] \in Nat /\ cut[p] \in Nat /\ cut[p] <= got[p]
BY DEF IInv, TypeOK, Frames, Bounds

LEMMA StreamTypes ==
  ASSUME IInv, TypeOK', NEW p \in Pumps
  PROVE  /\ sent[p] \in Seq(Nat) /\ sent'[p] \in Seq(Nat) /\ Len(sent[p]) \in Nat
         /\ got[p] \in 0..Len(sent[p]) /\ cut[p] \in Nat
         /\ clock \in Nat /\ clock' \in Nat
BY DEF IInv, TypeOK, Bounds

\* A pump that does not move keeps its rows and its frame, whatever is written
\* to its stream and whatever time it is.
LEMMA StillFits ==
  ASSUME IInv, TypeOK', NEW p \in Pumps, NEW r,
         got'[p] = got[p], cut'[p] = cut[p], pc'[p] = pc[p], frame'[p] = frame[p],
         clock <= clock', r.first \in Nat, r.last \in Nat, r.stamp \in Nat,
         Len(sent[p]) <= Len(sent'[p]),
         \A i \in 1..Len(sent[p]) : sent'[p][i] = sent[p][i],
         RowFits(p, r)
  PROVE  RowFits(p, r)'
<1>1. /\ sent[p] \in Seq(Nat) /\ sent'[p] \in Seq(Nat) /\ Len(sent[p]) \in Nat
      /\ got[p] \in 0..Len(sent[p]) /\ clock \in Nat /\ clock' \in Nat
  BY StreamTypes
<1>2. r.first - 1 \in Nat /\ r.last \in 0..Len(sent[p])
  <2>1. 1 <= r.first /\ r.last <= got[p]
    BY DEF RowFits
  <2> QED
    BY <1>1, <2>1
<1>3. Yielded(sent[p], r.first - 1, r.last) => Yielded(sent'[p], r.first - 1, r.last)
  BY <1>1, <1>2, YieldedExtends
<1>4. Unit(sent'[p], r.first - 1, got[p]) <=> Unit(sent[p], r.first - 1, got[p])
  <2>1. PICK a \in Nat, b \in 0..Len(sent[p]) : a = r.first - 1 /\ b = got[p]
    BY <1>1, <1>2
  <2>2. Unit(sent'[p], a, b) <=> Unit(sent[p], a, b)
    BY <1>1, UnitExtends
  <2> QED
    BY <2>1, <2>2
<1>5. r.stamp <= clock'
  BY <1>1 DEF RowFits
<1> QED
  BY <1>3, <1>4, <1>5 DEF RowFits, HasHand

LEMMA StillInHand ==
  ASSUME IInv, TypeOK', NEW p \in Pumps, HandAt(p),
         got'[p] = got[p], cut'[p] = cut[p], pc'[p] = pc[p], frame'[p] = frame[p],
         clock <= clock', Len(sent[p]) <= Len(sent'[p]),
         \A i \in 1..Len(sent[p]) : sent'[p][i] = sent[p][i],
         Alive' => Alive, pc[p] = "flush" => tap' # "closed"
  PROVE  HandAt(p)'
<1>1. /\ sent[p] \in Seq(Nat) /\ sent'[p] \in Seq(Nat) /\ Len(sent[p]) \in Nat
      /\ got[p] \in 0..Len(sent[p]) /\ cut[p] \in Nat /\ clock \in Nat /\ clock' \in Nat
      /\ frame[p].first \in Nat /\ frame[p].last \in Nat /\ frame[p].stamp \in Nat
  BY StreamTypes, HandTypes
<1>2. ASSUME Logging(p)
      PROVE  Yielded(sent[p], frame[p].first - 1, frame[p].last)
               => Yielded(sent'[p], frame[p].first - 1, frame[p].last)
  <2>1. frame[p].first - 1 \in Nat /\ frame[p].last \in 0..Len(sent[p])
    <3>1. 1 <= frame[p].first /\ frame[p].last <= got[p]
      BY <1>2 DEF HandAt
    <3> QED
      BY <1>1, <3>1
  <2> QED
    BY <1>1, <2>1, YieldedExtends
<1>3. Unit(sent'[p], cut[p], got[p]) <=> Unit(sent[p], cut[p], got[p])
  BY <1>1, UnitExtends
<1>4. HasHand(p) => frame[p].stamp <= clock'
  BY <1>1 DEF HandAt
<1> QED
  BY <1>2, <1>3, <1>4 DEF HandAt, Logging, HasHand

----------------------------------------------------------------------------
(* The steps of a pump, and the rows of its own stream.                    *)

LEMMA ReadFits ==
  ASSUME IInv, NEW p \in Pumps, NEW r, RowFits(p, r), r.last \in Nat,
         \/ \E n \in 1..CHUNK : RecvChunk(p, n)
         \/ RecvEnd(p) \/ RecvError(p) \/ NoMoreFrames(p) \/ SendAll(p) \/ SendError(p)
  PROVE  RowFits(p, r)'
<1>1. pc \in [Pumps -> Places] /\ got \in [Pumps -> Nat]
  BY DEF IInv, TypeOK
<1>2. /\ UNCHANGED <<sent, cut, frame, clock>>
      /\ pc[p] \in {"recv", "parse", "send"}
      /\ pc'[p] \in {"parse", "final", "send", "recv"}
      /\ got'[p] \in Nat /\ got[p] \in Nat /\ got[p] <= got'[p]
  BY <1>1 DEF RecvChunk, RecvEnd, RecvError, NoMoreFrames, SendAll, SendError, At, GoTo,
              peerVars, logVars
<1>3. r.last <= got'[p]
  BY <1>2 DEF RowFits
<1> QED
  BY <1>2, <1>3 DEF RowFits, HasHand

LEMMA YieldFits ==
  ASSUME IInv, IInv', NEW p \in Pumps, NEW r, RowFits(p, r), r.last \in Nat,
         YieldFrame(p) \/ YieldRest(p)
  PROVE  RowFits(p, r)'
<1>1. /\ pc \in [Pumps -> Places] /\ cut \in [Pumps -> Nat] /\ frame \in [Pumps -> Frames]
  BY DEF IInv, TypeOK
<1>2. PICK last : Yield(p, last)
  BY DEF YieldFrame, YieldRest
<1>3. /\ UNCHANGED <<sent, got, clock>>
      /\ pc[p] = "parse" /\ pc'[p] = "stamp"
      /\ frame'[p].first = cut[p] + 1
  <2>1. UNCHANGED <<sent, got, clock>> /\ pc[p] = "parse"
    BY DEF YieldFrame, YieldRest, At, peerVars, logVars
  <2>2. pc'[p] = "stamp" /\ frame'[p].first = cut[p] + 1
    BY <1>1, <1>2 DEF Yield, GoTo
  <2> QED
    BY <2>1, <2>2
<1>4. r.last < frame'[p].first
  BY <1>1, <1>3 DEF RowFits
<1> QED
  BY <1>3, <1>4 DEF RowFits, HasHand

LEMMA EndFits ==
  ASSUME IInv, NEW p \in Pumps, NEW r, RowFits(p, r), r.last \in Nat,
         Leftover(p) \/ HalfClose(p)
  PROVE  RowFits(p, r)'
<1>1. /\ pc \in [Pumps -> Places] /\ cut \in [Pumps -> Nat] /\ frame \in [Pumps -> Frames]
  BY DEF IInv, TypeOK
<1>2. UNCHANGED <<sent, got, cut, clock>>
  BY DEF Leftover, HalfClose, peerVars, logVars
<1>3. CASE HalfClose(p)
  <2>1. pc[p] = "shut" /\ pc'[p] = "done"
    BY <1>1, <1>3 DEF HalfClose, At, GoTo
  <2> QED
    BY <1>2, <2>1 DEF RowFits, HasHand
<1>4. CASE Leftover(p) /\ cut[p] < got[p]
  <2>1. pc[p] = "final" /\ pc'[p] = "stamp" /\ frame'[p].first = cut[p] + 1
    BY <1>1, <1>4 DEF Leftover, At, GoTo
  <2>2. r.last < frame'[p].first
    BY <1>1, <2>1 DEF RowFits
  <2> QED
    BY <1>2, <2>1, <2>2 DEF RowFits, HasHand
<1>5. CASE Leftover(p) /\ ~(cut[p] < got[p])
  <2>1. pc[p] = "final" /\ pc'[p] = "shut"
    BY <1>1, <1>5 DEF Leftover, At, GoTo
  <2> QED
    BY <1>2, <2>1 DEF RowFits, HasHand
<1> QED
  BY <1>3, <1>4, <1>5

LEMMA LogFits ==
  ASSUME IInv, NEW p \in Pumps, NEW r, RowFits(p, r), r.last \in Nat, r.stamp \in Nat,
         HandAt(p),
         Stamp(p) \/ Acquire(p) \/ WriteRow(p) \/ WriteClosed(p) \/ Flush(p)
  PROVE  RowFits(p, r)'
<1>1. /\ pc \in [Pumps -> Places] /\ frame \in [Pumps -> Frames]
      /\ cut[p] \in Nat /\ clock \in Nat
      /\ frame[p].first \in Nat /\ frame[p].last \in Nat
      /\ frame[p].then \in {"recv", "parse", "shut"}
  BY HandTypes DEF Frames
<1>2. UNCHANGED <<sent, got, cut>>
  BY DEF Stamp, Acquire, WriteRow, WriteClosed, Flush, peerVars
<1>3. Logging(p) /\ frame[p].then = "parse" => frame[p].first <= cut[p]
  BY <1>1, PumpFacts DEF ForwardedAt
<1>4. CASE Stamp(p)
  <2>1. /\ pc[p] = "stamp" /\ pc'[p] = "acquire" /\ clock' = clock + 1
        /\ frame'[p] = [frame[p] EXCEPT !.stamp = clock + 1]
    BY <1>1, <1>4 DEF Stamp, At, GoTo
  <2>2. frame'[p].first = frame[p].first /\ frame'[p].stamp = clock + 1
    BY <1>1, <2>1 DEF Frames
  <2>3. r.stamp <= clock' /\ r.stamp < frame'[p].stamp
    BY <1>1, <2>1, <2>2 DEF RowFits
  <2> QED
    BY <1>2, <2>1, <2>2, <2>3 DEF RowFits, HasHand
<1>5. CASE Acquire(p)
  <2>1. pc[p] = "acquire" /\ pc'[p] = "write" /\ UNCHANGED <<frame, clock>>
    BY <1>1, <1>5 DEF Acquire, At, GoTo
  <2> QED
    BY <1>2, <2>1 DEF RowFits, HasHand
<1>6. CASE WriteRow(p)
  <2>1. pc[p] = "write" /\ pc'[p] = "flush" /\ UNCHANGED <<frame, clock>>
    BY <1>1, <1>6 DEF WriteRow, At, GoTo
  <2>2. r.last < frame[p].first
    BY <2>1 DEF RowFits
  <2>3. frame[p].then = "parse" => r.last <= cut[p]
    BY <1>1, <1>3, <2>1, <2>2 DEF Logging
  <2> QED
    BY <1>2, <2>1, <2>3 DEF RowFits, HasHand
<1>7. CASE WriteClosed(p)
  <2>1. /\ pc[p] = "write" /\ UNCHANGED <<frame, clock>>
        /\ pc'[p] = IF frame[p].then = "parse" THEN "final" ELSE "done"
    BY <1>1, <1>7 DEF WriteClosed, At, GoTo
  <2>2. r.last < frame[p].first
    BY <2>1 DEF RowFits
  <2>3. frame[p].then = "parse" => r.last <= cut[p]
    BY <1>1, <1>3, <2>1, <2>2 DEF Logging
  <2> QED
    BY <1>2, <2>1, <2>3 DEF RowFits, HasHand
<1>8. CASE Flush(p)
  <2>1. /\ pc[p] = "flush" /\ UNCHANGED clock /\ pc'[p] = frame[p].then
    BY <1>1, <1>8 DEF Flush, At, GoTo
  <2>2. frame[p].then \in {"parse", "shut"}
    BY <2>1, PumpFacts DEF ForwardedAt, Logging
  <2> QED
    BY <1>2, <2>1, <2>2 DEF RowFits, HasHand
<1> QED
  BY <1>4, <1>5, <1>6, <1>7, <1>8

\* The row being written fits.
HandRow(p) == [pump |-> p, first |-> frame[p].first, last |-> frame[p].last,
               stamp |-> frame[p].stamp]

LEMMA NewRowFits ==
  ASSUME IInv, NEW p \in Pumps, HandAt(p), WriteRow(p)
  PROVE  RowFits(p, HandRow(p))'
<1>1. /\ pc[p] = "write" /\ pc'[p] = "flush" /\ Alive
      /\ UNCHANGED <<sent, got, cut, frame, clock>>
  BY DEF WriteRow, At, GoTo, IInv, TypeOK, peerVars, Running, TapStates, Alive
<1>2. /\ 1 <= frame[p].first /\ frame[p].first <= frame[p].last /\ frame[p].last <= got[p]
      /\ frame[p].stamp <= clock
  BY <1>1 DEF HandAt, Logging, HasHand
<1>3. CASE frame[p].then = "parse"
  <2>1. Yielded(sent[p], frame[p].first - 1, frame[p].last)
    BY <1>1, <1>3 DEF HandAt, Logging
  <2>2. frame[p].last <= cut[p]
    BY <1>1, <1>3, PumpFacts DEF ForwardedAt, Logging
  <2> QED
    BY <1>1, <1>2, <2>1, <2>2 DEF RowFits, HandRow, HasHand
<1>4. CASE frame[p].then # "parse"
  <2>1. ~Unit(sent[p], cut[p], got[p])
    BY <1>1, <1>4 DEF HandAt, Logging
  <2>2. frame[p].first = cut[p] + 1 /\ cut[p] \in Nat
    BY <1>1, <1>4, PumpFacts DEF ForwardedAt, Logging
  <2>3. frame[p].first - 1 = cut[p]
    BY <2>2
  <2> QED
    BY <1>1, <1>2, <1>4, <2>1, <2>3 DEF RowFits, HandRow, HasHand
<1> QED
  BY <1>3, <1>4

LEMMA HandStep ==
  ASSUME IInv, IInv', NEW p \in Pumps, HandAt(p), Pump(p)
  PROVE  HandAt(p)'
<1>0. /\ pc \in [Pumps -> Places] /\ frame \in [Pumps -> Frames] /\ cut \in [Pumps -> Nat]
      /\ got[p] \in Nat /\ cut[p] \in Nat /\ cut[p] <= got[p] /\ clock \in Nat
      /\ frame[p].then \in {"recv", "parse", "shut"}
      /\ sent[p] \in Seq(Nat) /\ got[p] \in 0..Len(sent[p])
  BY HandTypes, PumpFacts DEF Frames, IInv, TypeOK
<1>1. ASSUME \/ \E n \in 1..CHUNK : RecvChunk(p, n)
             \/ SendAll(p) \/ HalfClose(p) \/ NoMoreFrames(p)
      PROVE  HandAt(p)'
  <2>1. pc'[p] \in {"parse", "recv", "done", "send"}
    BY <1>0, <1>1 DEF RecvChunk, SendAll, HalfClose, NoMoreFrames, GoTo
  <2> QED
    BY <2>1 DEF HandAt, Logging, HasHand
<1>2. ASSUME RecvEnd(p) \/ RecvError(p) \/ SendError(p) PROVE HandAt(p)'
  <2>1. /\ pc[p] \in {"recv", "send"} /\ pc'[p] = "final"
        /\ UNCHANGED <<sent, cut, got>>
    BY <1>0, <1>2 DEF RecvEnd, RecvError, SendError, At, GoTo, peerVars
  <2>2. ~Unit(sent[p], cut[p], got[p])
    BY <2>1, PumpFacts DEF ForwardedAt
  <2> QED
    BY <2>1, <2>2 DEF HandAt, Logging, HasHand
<1>3. ASSUME YieldFrame(p) PROVE HandAt(p)'
  <2> DEFINE n == cut[p] + Total(sent[p], cut[p])
  <2>1. WholeFrame(sent[p], cut[p], got[p])
    BY <1>3 DEF YieldFrame
  <2>2. Total(sent[p], cut[p]) \in Nat /\ Total(sent[p], cut[p]) > HEADER /\ n <= got[p]
    BY <1>0, <2>1, TotalType
  <2>3. WholeFrame(sent[p], cut[p], n)
    BY <1>0, <2>1, <2>2, FramingAssumption DEF WholeFrame, HasHeader
  <2>4. /\ frame' = [frame EXCEPT ![p] = [first |-> cut[p] + 1, last |-> n,
                                          stamp |-> 0, then |-> "parse"]]
        /\ pc'[p] = "stamp" /\ UNCHANGED <<sent, got>>
    BY <1>0, <1>3 DEF YieldFrame, Yield, GoTo, peerVars
  <2>5. frame'[p] = [first |-> cut[p] + 1, last |-> n, stamp |-> 0, then |-> "parse"]
    BY <1>0, <2>4
  <2>6. Yielded(sent[p], cut[p], n)
    BY <2>3 DEF Yielded
  <2>7. cut[p] + 1 - 1 = cut[p] /\ 1 <= cut[p] + 1 /\ cut[p] + 1 <= n
    BY <1>0, <2>2, FramingAssumption
  <2> HIDE DEF n
  <2>8. /\ frame'[p].first = cut[p] + 1 /\ frame'[p].last = n /\ frame'[p].then = "parse"
        /\ frame'[p].first - 1 = cut[p]
    BY <1>0, <2>5
  <2>9. Yielded(sent[p], frame[p].first - 1, frame[p].last)'
    BY <2>4, <2>6, <2>8
  <2> QED
    BY <2>2, <2>4, <2>7, <2>8, <2>9 DEF HandAt, Logging, HasHand
<1>4. ASSUME YieldRest(p) PROVE HandAt(p)'
  <2>1. BadHeader(sent[p], cut[p], got[p])
    BY <1>4 DEF YieldRest
  <2>2. cut[p] < got[p]
    BY <1>0, <2>1, FramingAssumption DEF BadHeader, HasHeader
  <2>3. /\ frame'[p] = [first |-> cut[p] + 1, last |-> got[p], stamp |-> 0, then |-> "parse"]
        /\ pc'[p] = "stamp" /\ UNCHANGED <<sent, got>>
    BY <1>0, <1>4 DEF YieldRest, Yield, GoTo, peerVars
  <2>4. cut[p] + 1 - 1 = cut[p] /\ 1 <= cut[p] + 1 /\ cut[p] + 1 <= got[p]
    BY <1>0, <2>2
  <2>5. /\ frame'[p].first = cut[p] + 1 /\ frame'[p].last = got[p] /\ frame'[p].then = "parse"
        /\ frame'[p].first - 1 = cut[p]
    BY <1>0, <2>3
  <2>6. Yielded(sent[p], frame[p].first - 1, frame[p].last)'
    BY <2>1, <2>3, <2>5 DEF Yielded
  <2> QED
    BY <1>0, <2>3, <2>4, <2>5, <2>6 DEF HandAt, Logging, HasHand
<1>5. ASSUME Leftover(p) PROVE HandAt(p)'
  <2>1. pc[p] = "final" /\ UNCHANGED <<tap, sent, cut, got>>
    BY <1>5 DEF Leftover, At, peerVars
  <2>2. CASE cut[p] < got[p]
    <3>1. /\ frame'[p] = [first |-> cut[p] + 1, last |-> got[p], stamp |-> 0, then |-> "shut"]
          /\ pc'[p] = "stamp"
      BY <1>0, <1>5, <2>2 DEF Leftover, GoTo
    <3>2. 1 <= cut[p] + 1 /\ cut[p] + 1 <= got[p]
      BY <1>0, <2>2
    <3> QED
      BY <1>0, <2>1, <3>1, <3>2 DEF HandAt, Logging, HasHand, Alive
  <2>3. CASE ~(cut[p] < got[p])
    <3>1. pc'[p] = "shut"
      BY <1>0, <1>5, <2>3 DEF Leftover, GoTo
    <3> QED
      BY <3>1 DEF HandAt, Logging, HasHand
  <2> QED
    BY <2>2, <2>3
<1>6. ASSUME Stamp(p) PROVE HandAt(p)'
  <2>1. /\ pc[p] = "stamp" /\ pc'[p] = "acquire" /\ clock' = clock + 1
        /\ UNCHANGED <<tap, sent, cut, got>>
        /\ frame'[p] = [frame[p] EXCEPT !.stamp = clock + 1]
    BY <1>0, <1>6 DEF Stamp, At, GoTo, peerVars
  <2>2. /\ frame'[p].first = frame[p].first /\ frame'[p].stamp = clock + 1
        /\ frame'[p].last = frame[p].last /\ frame'[p].then = frame[p].then
    BY <1>0, <2>1 DEF Frames
  <2>3. frame'[p].stamp <= clock'
    BY <1>0, <2>1, <2>2
  <2> QED
    BY <2>1, <2>2, <2>3 DEF HandAt, Logging, HasHand, Alive
<1>7. ASSUME Acquire(p) \/ WriteRow(p) PROVE HandAt(p)'
  <2>1. /\ HasHand(p) /\ pc'[p] \in {"write", "flush"}
        /\ pc'[p] = "flush" => tap # "closed"
        /\ UNCHANGED <<tap, sent, cut, got, frame, clock>>
    BY <1>0, <1>7 DEF Acquire, WriteRow, At, GoTo, HasHand, peerVars
  <2>2. HandAt(p) /\ Logging(p)
    BY <2>1 DEF Logging, HasHand
  <2>3. /\ 1 <= frame'[p].first /\ frame'[p].first <= frame'[p].last
        /\ frame'[p].last <= got'[p] /\ frame'[p].stamp <= clock'
    BY <2>1, <2>2 DEF HandAt
  <2>4. frame'[p].then = "parse" => Yielded(sent[p], frame[p].first - 1, frame[p].last)'
    BY <2>1, <2>2 DEF HandAt
  <2>5. frame'[p].then # "parse" /\ Alive' => ~Unit(sent[p], cut[p], got[p])'
    BY <2>1, <2>2 DEF HandAt, Alive
  <2> QED
    BY <2>1, <2>3, <2>4, <2>5 DEF HandAt, Logging
<1>8. ASSUME WriteClosed(p) PROVE HandAt(p)'
  <2>1. pc'[p] \in {"final", "done"} /\ tap' = "closed"
    BY <1>0, <1>8 DEF WriteClosed, GoTo
  <2> QED
    BY <2>1 DEF HandAt, Logging, HasHand, Alive
<1>9. ASSUME Flush(p) PROVE HandAt(p)'
  <2>1. pc'[p] \in {"recv", "parse", "shut"}
    BY <1>0, <1>9 DEF Flush, GoTo
  <2> QED
    BY <2>1 DEF HandAt, Logging, HasHand
<1> QED
  BY <1>1, <1>2, <1>3, <1>4, <1>5, <1>6, <1>7, <1>8, <1>9 DEF Pump

----------------------------------------------------------------------------
(* The steps of a pump, and the rows of all streams.                       *)

LEMMA PumpFrame ==
  ASSUME IInv, NEW p \in Pumps, Pump(p)
  PROVE  /\ UNCHANGED <<tap, sent, ends, answered>> /\ OthersSame(p)
         /\ clock \in Nat /\ clock' \in Nat /\ clock <= clock'
         /\ WriteRow(p) \/ file' = file
         /\ Flush(p) \/ flushed' = flushed
<1>1. UNCHANGED <<tap, sent, ends, answered>>
  BY DEF Pump, RecvChunk, RecvEnd, RecvError, YieldFrame, YieldRest, NoMoreFrames, SendAll,
         SendError, Leftover, HalfClose, Stamp, Acquire, WriteRow, WriteClosed, Flush, peerVars
<1>2. OthersSame(p)
  BY ReadSteps, YieldSteps, SendSteps, EndSteps, LogSteps, ClosedSteps, FlushStep DEF Pump
<1>3. clock \in Nat
  BY DEF IInv, TypeOK
<1>4. clock' = clock \/ clock' = clock + 1
  BY DEF Pump, RecvChunk, RecvEnd, RecvError, YieldFrame, YieldRest, NoMoreFrames, SendAll,
         SendError, Leftover, HalfClose, Stamp, Acquire, WriteRow, WriteClosed, Flush, logVars
<1>5. WriteRow(p) \/ file' = file
  BY DEF Pump, RecvChunk, RecvEnd, RecvError, YieldFrame, YieldRest, NoMoreFrames, SendAll,
         SendError, Leftover, HalfClose, Stamp, Acquire, WriteRow, WriteClosed, Flush, logVars
<1>6. Flush(p) \/ flushed' = flushed
  BY DEF Pump, RecvChunk, RecvEnd, RecvError, YieldFrame, YieldRest, NoMoreFrames, SendAll,
         SendError, Leftover, HalfClose, Stamp, Acquire, WriteRow, WriteClosed, Flush, logVars
<1> QED
  BY <1>1, <1>2, <1>3, <1>4, <1>5, <1>6

\* Every row there was still fits its stream.
LEMMA OldRowsFit ==
  ASSUME OInv, IInv', NEW p \in Pumps, Pump(p), NEW q \in Pumps,
         NEW i \in 1..Len(file), RowOf(q, i)
  PROVE  RowFits(q, file[i])'
<1> DEFINE r == file[i]
<1>1. RowFits(q, r) /\ HandAt(p) /\ IInv
  BY DEF OInv, RowsAt
<1>2. r.first \in Nat /\ r.last \in Nat /\ r.stamp \in Nat
  BY <1>1, RowTypes
<1>3. file'[i] = file[i]
  <2>1. file \in Seq(Rows)
    BY <1>1 DEF IInv, TypeOK
  <2>2. CASE WriteRow(p)
    BY <2>1, <2>2 DEF WriteRow
  <2> QED
    BY <1>1, <2>2, PumpFrame
<1>4. PICK x : x = r
  OBVIOUS
<1>5. RowFits(q, x) /\ x.first \in Nat /\ x.last \in Nat /\ x.stamp \in Nat
  BY <1>1, <1>2, <1>4
<1> HIDE DEF r
<1>6. CASE q = p
  <2>1. RowFits(p, x)'
    BY <1>1, <1>5, <1>6, ReadFits, YieldFits, EndFits, LogFits DEF Pump
  <2> QED
    BY <1>3, <1>4, <1>6, <2>1 DEF r, RowFits
<1>7. CASE q # p
  <2>1. /\ got'[q] = got[q] /\ cut'[q] = cut[q] /\ pc'[q] = pc[q] /\ frame'[q] = frame[q]
        /\ clock <= clock' /\ sent' = sent
    BY <1>1, <1>7, PumpFrame DEF OthersSame
  <2>2. sent[q] \in Seq(Nat) /\ TypeOK'
    BY <1>1 DEF IInv, TypeOK
  <2>3. RowFits(q, x)'
    BY <1>1, <1>5, <2>1, <2>2, StillFits
  <2> QED
    BY <1>3, <1>4, <2>3 DEF r, RowFits
<1> QED
  BY <1>6, <1>7

\* What a written row adds to the file.
LEMMA WriteFacts ==
  ASSUME IInv, NEW p \in Pumps, WriteRow(p)
  PROVE  /\ file' = Append(file, HandRow(p)) /\ Len(file') = Len(file) + 1
         /\ Len(file) \in Nat
         /\ \A i \in 1..Len(file) : file'[i] = file[i]
         /\ file'[Len(file) + 1] = HandRow(p)
         /\ HandRow(p)' = HandRow(p)
         /\ pc[p] = "write"
<1>1. file \in Seq(Rows) /\ frame \in [Pumps -> Frames]
  BY DEF IInv, TypeOK
<1>2. HandRow(p) \in Rows
  BY <1>1 DEF HandRow, Rows, Frames
<1>3. file' = Append(file, HandRow(p)) /\ frame' = frame /\ pc[p] = "write"
  BY DEF WriteRow, HandRow, At
<1> HIDE DEF HandRow
<1> QED
  BY <1>1, <1>2, <1>3 DEF HandRow

LEMMA PumpRows ==
  ASSUME OInv, IInv', NEW p \in Pumps, Pump(p)
  PROVE  RowsInStreamOrder' /\ \A q \in Pumps : RowsAt(q)'
<1>0. IInv /\ HandAt(p) /\ RowsInStreamOrder
  BY DEF OInv
<1>1. ASSUME NEW q \in Pumps, NEW i \in 1..Len(file'), RowOf(q, i)', i \in 1..Len(file),
             file'[i] = file[i]
      PROVE  RowFits(q, file[i])'
  <2>1. RowOf(q, i)
    BY <1>1 DEF RowOf
  <2> QED
    BY <1>1, <2>1, OldRowsFit
<1>2. CASE file' = file
  <2>1. RowsInStreamOrder'
    BY <1>0, <1>2 DEF RowsInStreamOrder
  <2> QED
    BY <1>1, <1>2, <2>1 DEF RowsAt
<1>3. CASE WriteRow(p)
  <2>1. /\ Len(file') = Len(file) + 1 /\ Len(file) \in Nat
        /\ \A i \in 1..Len(file) : file'[i] = file[i]
        /\ file'[Len(file) + 1] = HandRow(p) /\ HandRow(p)' = HandRow(p)
        /\ pc[p] = "write"
    BY <1>0, <1>3, WriteFacts
  <2>2. RowFits(p, HandRow(p))'
    BY <1>0, <1>3, NewRowFits
  <2>3. ASSUME NEW q \in Pumps PROVE RowsAt(q)'
    <3> SUFFICES ASSUME NEW i \in 1..Len(file'), RowOf(q, i)' PROVE RowFits(q, file[i])'
      BY DEF RowsAt
    <3>1. CASE i = Len(file) + 1
      <4>1. q = p
        BY <2>1, <3>1 DEF RowOf, HandRow
      <4>2. file'[i] = HandRow(p)'
        BY <2>1, <3>1
      <4> QED
        BY <2>2, <4>1, <4>2
    <3>2. CASE i # Len(file) + 1
      <4>1. i \in 1..Len(file)
        BY <2>1, <3>2
      <4> QED
        BY <1>1, <2>1, <4>1
    <3> QED
      BY <3>1, <3>2
  <2>4. RowsInStreamOrder'
    <3> SUFFICES ASSUME NEW j \in 1..Len(file'), NEW i \in 1..j-1,
                        file'[i].pump = file'[j].pump
                 PROVE  file'[i].last < file'[j].first /\ file'[i].stamp < file'[j].stamp
      BY DEF RowsInStreamOrder
    <3>1. i \in 1..Len(file) /\ file'[i] = file[i]
      BY <2>1
    <3>2. CASE j = Len(file) + 1
      <4>1. file'[j] = HandRow(p) /\ RowOf(p, i)
        BY <2>1, <3>1, <3>2 DEF RowOf, HandRow
      <4>2. RowFits(p, file[i])
        BY <3>1, <4>1 DEF OInv, RowsAt
      <4>3. file[i].last < frame[p].first /\ file[i].stamp < frame[p].stamp
        BY <2>1, <4>2 DEF RowFits, HasHand
      <4> QED
        BY <3>1, <4>1, <4>3 DEF HandRow
    <3>3. CASE j # Len(file) + 1
      <4>1. j \in 1..Len(file) /\ file'[j] = file[j]
        BY <2>1, <3>3
      <4> QED
        BY <1>0, <3>1, <4>1 DEF RowsInStreamOrder
    <3> QED
      BY <3>2, <3>3
  <2> QED
    BY <2>3, <2>4
<1> QED
  BY <1>0, <1>2, <1>3, PumpFrame

\* The disk grows with a flush, by the frame that follows what it holds.
LEMMA PumpWhole ==
  ASSUME OInv, IInv', NEW p \in Pumps, Pump(p), NEW q \in Pumps
  PROVE  WholeTo(q)'
<1>0. IInv /\ WholeTo(q) /\ HandAt(p)
  BY DEF OInv
<1>1. flushed \in 0..Len(file) /\ file \in Seq(Rows)
  BY <1>0 DEF IInv, TypeOK, InFile
<1>2. \A i \in 1..flushed : file'[i] = file[i]
  <2>1. CASE WriteRow(p)
    BY <1>0, <1>1, <2>1, WriteFacts
  <2> QED
    BY <1>0, <2>1, PumpFrame
<1>3. CASE ~Flush(p)
  <2>1. flushed' = flushed
    BY <1>0, <1>3, PumpFrame
  <2>2. DiskSame
    BY <1>2, <2>1, DiskPrefix
  <2> SUFFICES ASSUME NEW i \in 1..flushed, RowOf(q, i)' PROVE RecordedTo(q, file[i].last)'
    BY <2>1 DEF WholeTo
  <2>3. RowOf(q, i) /\ file'[i].last = file[i].last
    BY <1>2 DEF RowOf
  <2>4. RecordedTo(q, file[i].last)
    BY <1>0, <2>3 DEF WholeTo
  <2> QED
    BY <2>2, <2>3, <2>4 DEF RecordedTo, DiskSame
<1>4. CASE Flush(p)
  <2>1. /\ file' = file /\ pc[p] = "flush" /\ UNCHANGED tap /\ Running
    BY <1>4 DEF Flush, At, peerVars
  <2>2. /\ flushed' = flushed + 1 /\ Len(file) = flushed + 1
        /\ file[flushed + 1] = HandRow(p)
    BY <1>0, <1>1, <1>4, <2>1 DEF IInv, OneInFlight, InFlight, HandRow, Flush
  <2>3. \A o \in Nat : OnDisk(q, o) => OnDisk(q, o)'
    BY <1>0, <1>4, DiskFlush
  <2> SUFFICES ASSUME NEW i \in 1..flushed+1, RowOf(q, i)' PROVE RecordedTo(q, file[i].last)'
    BY <2>2 DEF WholeTo
  <2>4. CASE i \in 1..flushed
    <3>1. RecordedTo(q, file[i].last)
      BY <1>0, <2>1, <2>4 DEF WholeTo, RowOf
    <3> QED
      BY <2>1, <2>3, <3>1 DEF RecordedTo
  <2>5. CASE i = flushed + 1
    <3>1. q = p /\ file[i].last = frame[p].last
      BY <2>1, <2>2, <2>5 DEF RowOf, HandRow
    <3>2. /\ frame[p].first \in Nat /\ frame[p].last \in Nat /\ 1 <= frame[p].first
          /\ cut[p] \in Nat
      BY <1>0, <2>1, HandTypes DEF HandAt, Logging
    <3>3. RecordedTo(p, frame[p].first - 1)
      <4>1. CASE frame[p].then = "parse"
        BY <1>0, <2>1, <4>1, PumpFacts DEF RecordedAt, Logging
      <4>2. CASE frame[p].then # "parse"
        <5>0. frame[p].then = "shut" /\ frame[p].first = cut[p] + 1
          BY <1>0, <2>1, <4>2, PumpFacts DEF ForwardedAt, Logging
        <5>1. frame[p].then = "shut" /\ frame[p].first - 1 = cut[p]
          BY <3>2, <5>0
        <5>2. tap \in {"up", "stopping"}
          BY <1>0, <2>1 DEF HandAt, IInv, TypeOK, TapStates, Running
        <5> QED
          BY <1>0, <2>1, <5>1, <5>2, PumpFacts DEF KeptAt, Logging
      <4> QED
        BY <4>1, <4>2
    <3>4. ASSUME NEW o \in 1..frame[p].last PROVE OnDisk(p, o)'
      <4>1. CASE o <= frame[p].first - 1
        BY <2>3, <3>1, <3>2, <3>3, <4>1 DEF RecordedTo
      <4>2. CASE o > frame[p].first - 1
        BY <1>0, <1>4, <3>2, <4>2, DiskFlush
      <4> QED
        BY <3>2, <4>1, <4>2
    <3>5. file'[i].last = frame[p].last
      BY <2>1, <3>1
    <3> QED
      BY <3>1, <3>4, <3>5 DEF RecordedTo
  <2> QED
    BY <1>1, <2>4, <2>5
<1> QED
  BY <1>3, <1>4

----------------------------------------------------------------------------
(* The steps of the peers, of main and of the end of the process.          *)

\* Steps that move no pump: at most they start the two of a connection.
PeerMove(c) == Client(c) \/ Plc(c) \/ Handler(c) \/ PlcUnreachable(c)

LEMMA PeerFrame ==
  ASSUME IInv, NEW c \in Conns, PeerMove(c) \/ \E e \in Ends : Reset(e)
  PROVE  /\ UNCHANGED <<tap, got, cut, frame, file, flushed, clock>>
         /\ \A q \in Pumps : \/ pc'[q] = pc[q]
                             \/ pc[q] = "idle" /\ pc'[q] = "recv"
         /\ \A q \in Pumps : /\ Len(sent[q]) <= Len(sent'[q])
                             /\ \A i \in 1..Len(sent[q]) : sent'[q][i] = sent[q][i]
<1> DEFINE Extended == \A q \in Pumps : /\ Len(sent[q]) <= Len(sent'[q])
                                        /\ \A i \in 1..Len(sent[q]) : sent'[q][i] = sent[q][i]
<1>1. \A q \in Pumps : sent[q] \in Seq(Nat)
  BY DEF IInv, TypeOK
<1>2. sent' = sent => Extended
  BY <1>1
<1>3. ASSUME NEW p \in Pumps, NEW m \in Seq(Nat), Emit(p, m) PROVE Extended
  BY <1>3, EmitExtends DEF IInv
<1>4. CASE Client(c) \/ Plc(c) \/ Accept(c) \/ CloseBoth(c) \/ PlcUnreachable(c)
           \/ \E e \in Ends : Reset(e)
  <2>1. UNCHANGED <<tap, got, cut, pc, frame, file, flushed, clock>>
    BY <1>4 DEF Client, ClientConnect, ClientWrite, ClientClose, Plc, PlcReply, PlcClose,
                Accept, CloseBoth, PlcUnreachable, Reset, pumpVars, logVars
  <2>2. Extended
    <3>1. ASSUME NEW m \in Requests, ClientWrite(c, m) PROVE Extended
      BY <1>3, <3>1, PumpTypes, PayloadAssumption DEF ClientWrite
    <3>2. ASSUME NEW m \in Replies, PlcReply(c, m) PROVE Extended
      BY <1>3, <3>2, PumpTypes, PayloadAssumption DEF PlcReply
    <3>3. CASE ClientConnect(c) \/ ClientClose(c) \/ PlcClose(c) \/ Accept(c)
               \/ CloseBoth(c) \/ PlcUnreachable(c) \/ \E e \in Ends : Reset(e)
      BY <1>2, <3>3 DEF ClientConnect, ClientClose, PlcClose, Accept, CloseBoth,
                        PlcUnreachable, Reset, peerVars
    <3> QED
      BY <1>4, <3>1, <3>2, <3>3 DEF Client, Plc
  <2> QED
    BY <2>1, <2>2
<1>5. CASE PlcConnected(c)
  <2>1. UNCHANGED <<tap, sent, got, cut, frame, file, flushed, clock>>
    BY <1>5 DEF PlcConnected, peerVars, logVars
  <2>2. \A q \in Pumps : pc'[q] = pc[q] \/ (pc[q] = "idle" /\ pc'[q] = "recv")
    BY <1>5 DEF PlcConnected, IInv, NotStarted
  <2> QED
    BY <1>2, <2>1, <2>2
<1> QED
  BY <1>4, <1>5 DEF PeerMove, Handler

LEMMA PeerOrder ==
  ASSUME OInv, IInv', NEW c \in Conns, PeerMove(c) \/ \E e \in Ends : Reset(e)
  PROVE  OInv'
<1>0. IInv /\ TypeOK'
  BY DEF OInv, IInv
<1>1. /\ UNCHANGED <<tap, got, cut, frame, file, flushed, clock>>
      /\ \A q \in Pumps : pc'[q] = pc[q] \/ (pc[q] = "idle" /\ pc'[q] = "recv")
      /\ \A q \in Pumps : /\ Len(sent[q]) <= Len(sent'[q])
                          /\ \A i \in 1..Len(sent[q]) : sent'[q][i] = sent[q][i]
  BY <1>0, PeerFrame
<1>2. clock <= clock'
  BY <1>0, <1>1 DEF IInv, TypeOK
<1>3. RowsInStreamOrder'
  BY <1>1 DEF OInv, RowsInStreamOrder
<1>4. ASSUME NEW q \in Pumps PROVE RowsAt(q)' /\ HandAt(q)' /\ WholeTo(q)'
  <2>0. RowsAt(q) /\ HandAt(q) /\ WholeTo(q)
    BY DEF OInv
  <2>1. WholeTo(q)'
    BY <1>1, <2>0 DEF WholeTo, RecordedTo, OnDisk, RowOf
  <2>2. CASE pc'[q] = pc[q]
    <3>1. HandAt(q)'
      BY <1>0, <1>1, <1>2, <2>0, <2>2, StillInHand DEF HandAt, Alive
    <3>2. ASSUME NEW i \in 1..Len(file), RowOf(q, i) PROVE RowFits(q, file[i])'
      <4>1. PICK x : x = file[i]
        OBVIOUS
      <4>2. RowFits(q, x) /\ x.first \in Nat /\ x.last \in Nat /\ x.stamp \in Nat
        BY <1>0, <2>0, <3>2, <4>1, RowTypes DEF RowsAt
      <4>3. RowFits(q, x)'
        BY <1>0, <1>1, <1>2, <2>2, <4>2, StillFits
      <4>4. file'[i] = x
        BY <1>1, <4>1
      <4> QED
        BY <4>3, <4>4 DEF RowFits
    <3>3. RowsAt(q)'
      BY <1>1, <3>2 DEF RowsAt, RowOf
    <3> QED
      BY <2>1, <3>1, <3>3
  <2>3. CASE pc[q] = "idle" /\ pc'[q] = "recv"
    <3>1. HandAt(q)'
      BY <2>3 DEF HandAt, Logging, HasHand
    <3>2. got[q] = 0
      BY <2>0, <2>3 DEF HandAt
    <3>3. \A i \in 1..Len(file) : ~RowOf(q, i)
      BY <1>0, <2>0, <3>2, RowTypes DEF RowsAt, RowFits
    <3> QED
      BY <1>1, <2>1, <3>1, <3>3 DEF RowsAt, RowOf
  <2> QED
    BY <1>1, <2>2, <2>3
<1> QED
  BY <1>3, <1>4 DEF OInv

LEMMA StopOrder ==
  ASSUME OInv, IInv', Interrupt \/ CloseLogger \/ Kill
  PROVE  OInv'
<1>0. IInv /\ TypeOK' /\ file \in Seq(Rows) /\ flushed \in 0..Len(file)
  <2>1. IInv /\ TypeOK' /\ TypeOK /\ InFile
    BY DEF OInv, IInv
  <2>2. file \in Seq(Rows) /\ flushed \in Nat
    BY <2>1 DEF TypeOK
  <2> QED
    BY <2>1, <2>2 DEF InFile
<1>1. /\ UNCHANGED <<sent, got, cut, pc, frame, flushed, clock>>
      /\ Alive' => Alive
  BY DEF Interrupt, CloseLogger, Kill, peerVars, pumpVars, logVars, Alive
<1>2. /\ Len(file') \in Nat /\ flushed <= Len(file') /\ Len(file') <= Len(file)
      /\ \A i \in 1..Len(file') : file'[i] = file[i]
  <2>1. CASE Interrupt \/ CloseLogger
    BY <1>0, <2>1 DEF Interrupt, CloseLogger, logVars
  <2>2. CASE Kill
    BY <1>0, <2>2 DEF Kill
  <2> QED
    BY <2>1, <2>2
<1>3. ASSUME NEW q \in Pumps, pc[q] = "flush" PROVE tap' # "closed"
  <2>1. CASE CloseLogger
    <3>1. Running /\ lock = NoPump
      BY <2>1 DEF CloseLogger, Running
    <3>2. lock = q
      BY <1>0, <1>3, <3>1 DEF IInv, OneInFlight, InFlight
    <3> QED
      BY <3>1, <3>2, ConnsAssumption
  <2>2. CASE Interrupt \/ Kill
    BY <2>2 DEF Interrupt, Kill
  <2> QED
    BY <2>1, <2>2
<1>4. RowsInStreamOrder'
  <2>1. RowsInStreamOrder
    BY DEF OInv
  <2> SUFFICES ASSUME NEW j \in 1..Len(file'), NEW i \in 1..j-1,
                      file'[i].pump = file'[j].pump
               PROVE  file'[i].last < file'[j].first /\ file'[i].stamp < file'[j].stamp
    BY DEF RowsInStreamOrder
  <2>2. j \in 1..Len(file) /\ i \in 1..Len(file') /\ file'[i] = file[i] /\ file'[j] = file[j]
    BY <1>0, <1>2
  <2> QED
    BY <2>1, <2>2 DEF RowsInStreamOrder
<1>5. ASSUME NEW q \in Pumps PROVE RowsAt(q)' /\ HandAt(q)' /\ WholeTo(q)'
  <2>0. RowsAt(q) /\ HandAt(q) /\ WholeTo(q) /\ sent[q] \in Seq(Nat) /\ clock \in Nat
    BY <1>0 DEF OInv, IInv, TypeOK
  <2>1. HandAt(q)'
    BY <1>1, <1>3, <2>0 DEF HandAt, Logging, HasHand, Alive
  <2>2. RowsAt(q)'
    <3> SUFFICES ASSUME NEW i \in 1..Len(file'), RowOf(q, i)' PROVE RowFits(q, file[i])'
      BY DEF RowsAt
    <3>1. i \in 1..Len(file) /\ file'[i] = file[i]
      BY <1>0, <1>2
    <3>2. RowFits(q, file[i])
      BY <2>0, <3>1 DEF RowsAt, RowOf
    <3> QED
      BY <1>1, <3>1, <3>2 DEF RowFits, HasHand
  <2>3. WholeTo(q)'
    <3>1. \A i \in 1..flushed : file'[i] = file[i]
      BY <1>0, <1>2
    <3>2. DiskSame
      BY <1>1, <3>1, DiskPrefix
    <3> SUFFICES ASSUME NEW i \in 1..flushed, RowOf(q, i)' PROVE RecordedTo(q, file[i].last)'
      BY <1>1 DEF WholeTo
    <3>3. RowOf(q, i) /\ file'[i].last = file[i].last
      BY <3>1 DEF RowOf
    <3>4. RecordedTo(q, file[i].last)
      BY <2>0, <3>3 DEF WholeTo
    <3> QED
      BY <3>2, <3>3, <3>4 DEF RecordedTo, DiskSame
  <2> QED
    BY <2>1, <2>2, <2>3
<1> QED
  BY <1>4, <1>5 DEF OInv

----------------------------------------------------------------------------
LEMMA OrderInit == Init => OInv
<1> SUFFICES ASSUME Init PROVE OInv
  OBVIOUS
<1>1. file = <<>> /\ flushed = 0 /\ \A p \in Pumps : pc[p] = "idle" /\ got[p] = 0
  BY DEF Init
<1>2. RowsInStreamOrder
  BY <1>1 DEF RowsInStreamOrder
<1>3. ASSUME NEW p \in Pumps PROVE RowsAt(p) /\ HandAt(p) /\ WholeTo(p)
  BY <1>1 DEF RowsAt, HandAt, WholeTo, Logging, HasHand
<1> QED
  BY <1>2, <1>3, IInvInit DEF OInv

LEMMA OrderStep == OInv /\ [Next]_vars => OInv'
<1> SUFFICES ASSUME OInv, [Next]_vars PROVE OInv'
  OBVIOUS
<1>0. IInv'
  BY IInvStep DEF OInv
<1>1. ASSUME NEW p \in Pumps, Pump(p) PROVE OInv'
  <2>1. RowsInStreamOrder' /\ \A q \in Pumps : RowsAt(q)' /\ WholeTo(q)'
    BY <1>0, <1>1, PumpRows, PumpWhole
  <2>2. ASSUME NEW q \in Pumps PROVE HandAt(q)'
    <3>0. IInv /\ TypeOK' /\ HandAt(q) /\ HandAt(p) /\ sent[q] \in Seq(Nat)
      BY <1>0 DEF OInv, IInv, TypeOK
    <3>1. CASE q = p
      BY <1>0, <1>1, <3>0, <3>1, HandStep
    <3>2. CASE q # p
      <4>1. /\ got'[q] = got[q] /\ cut'[q] = cut[q] /\ pc'[q] = pc[q] /\ frame'[q] = frame[q]
            /\ clock <= clock' /\ sent' = sent /\ tap' = tap
        BY <1>1, <3>0, <3>2, PumpFrame DEF OthersSame
      <4>2. (Alive' => Alive) /\ (pc[q] = "flush" => tap' # "closed")
        BY <3>0, <4>1 DEF Alive, HandAt
      <4>3. Len(sent[q]) <= Len(sent'[q]) /\ \A i \in 1..Len(sent[q]) : sent'[q][i] = sent[q][i]
        BY <3>0, <4>1
      <4> QED
        BY <3>0, <4>1, <4>2, <4>3, StillInHand
    <3> QED
      BY <3>1, <3>2
  <2> QED
    BY <1>0, <2>1, <2>2 DEF OInv
<1>2. ASSUME NEW c \in Conns, PeerMove(c) PROVE OInv'
  BY <1>0, <1>2, PeerOrder
<1>3. ASSUME NEW e \in Ends, Reset(e) PROVE OInv'
  <2>1. PICK c \in Conns : TRUE
    BY DEF Ends
  <2> QED
    BY <1>0, <1>3, <2>1, PeerOrder
<1>4. CASE Interrupt \/ CloseLogger \/ Kill
  BY <1>0, <1>4, StopOrder
<1>5. CASE UNCHANGED vars
  <2>1. UNCHANGED <<tap, sent, got, cut, pc, frame, file, flushed, clock>>
    BY <1>5 DEF vars, peerVars, pumpVars, logVars
  <2>2. RowsInStreamOrder'
    BY <2>1 DEF OInv, RowsInStreamOrder
  <2>3. ASSUME NEW q \in Pumps PROVE RowsAt(q)' /\ HandAt(q)' /\ WholeTo(q)'
    BY <2>1 DEF OInv, RowsAt, HandAt, WholeTo, RowFits, HasHand, Logging, Alive, RecordedTo,
                OnDisk, RowOf
  <2> QED
    BY <1>0, <2>2, <2>3 DEF OInv
<1> QED
  BY <1>1, <1>2, <1>3, <1>4, <1>5 DEF Next, PeerMove

\* The rows of a stream follow each other as its bytes do and no byte is recorded
\* twice, however often the stream is cut, cut short or killed.
THEOREM StreamOrder == Spec => []RowsInStreamOrder
<1>1. OInv => RowsInStreamOrder
  BY DEF OInv
<1> QED
  BY <1>1, OrderInit, OrderStep, PTL DEF Spec

----------------------------------------------------------------------------
(* Requests and their replies.                                             *)

LEMMA StreamsDiffer ==
  ASSUME NEW c \in Conns
  PROVE  /\ Req(c) \in Pumps /\ Resp(c) \in Pumps
         /\ \A d \in Conns : Req(d) # Resp(c) /\ (Resp(d) = Resp(c) => d = c)
BY PumpTypes DEF Req, Resp

\* A request that the PLC holds whole is a row on the disk.
LEMMA RequestOnDisk ==
  ASSUME PInv, NEW c \in Conns, PendingRequest(c)
  PROVE  \E i \in 1..flushed :
           RowOf(Req(c), i) /\ file[i].last = PlcAt(c) + Total(sent[Req(c)], PlcAt(c))
<1> DEFINE Q == Req(c)
           a == PlcAt(c)
<1>0. IInv /\ RowsInStreamOrder /\ Q \in Pumps /\ RowsAt(Q) /\ WholeTo(Q) /\ PairAt(c)
  BY StreamsDiffer DEF PInv, OInv
<1>1. answered[c] \in Seq(Nat) /\ flushed \in 0..Len(file) /\ file \in Seq(Rows)
  BY <1>0 DEF IInv, TypeOK, InFile
<1>2. a \in Nat /\ (a = 0 \/ \E h \in 1..flushed : RowOf(Q, h) /\ file[h].last = a)
  <2>1. CASE answered[c] = <<>>
    BY <2>1 DEF PlcAt
  <2>2. CASE answered[c] # <<>>
    <3> DEFINE k == Len(answered[c])
    <3>1. k \in 1..Len(answered[c]) /\ a = answered[c][k]
      BY <1>1, <2>2 DEF PlcAt
    <3>2. a \in Nat
      BY <1>1, <3>1
    <3>3. Pair(c, answered[c][k], ends[Resp(c)][k])
      BY <1>0, <3>1 DEF PairAt
    <3>4. \E h \in 1..flushed : RowOf(Req(c), h) /\ file[h].last = answered[c][k]
      BY <3>3 DEF Pair
    <3> QED
      BY <3>1, <3>2, <3>4
  <2> QED
    BY <2>1, <2>2
<1>3. /\ WholeFrame(sent[Q], a, fwd[Q]) /\ sent[Q] \in Seq(Nat)
      /\ fwd[Q] \in 0..got[Q] /\ got[Q] \in 0..Len(sent[Q]) /\ SafeAt(Q)
  BY <1>0, PumpFacts DEF PendingRequest
<1> HIDE DEF Q, a
<1>4. fwd[Q] \in 0..Len(sent[Q]) /\ a \in 0..fwd[Q] /\ Total(sent[Q], a) \in Nat
  <2>1. fwd[Q] \in 0..Len(sent[Q])
    BY <1>3
  <2>2. Total(sent[Q], a) \in Nat /\ Total(sent[Q], a) > HEADER /\ a + Total(sent[Q], a) <= fwd[Q]
    BY <1>2, <1>3, <2>1, TotalType
  <2> QED
    BY <1>2, <2>1, <2>2
<1>5. RecordedTo(Q, a)
  <2>1. CASE a = 0
    BY <2>1 DEF RecordedTo
  <2>2. CASE a # 0
    BY <1>0, <1>2, <2>2 DEF WholeTo
  <2> QED
    BY <2>1, <2>2
<1>6. OnDisk(Q, a + 1)
  BY <1>3, <1>4, <1>5 DEF SafeAt, Unit
<1>7. PICK i \in 1..flushed : RowOf(Q, i) /\ a + 1 \in file[i].first..file[i].last
  BY <1>6 DEF OnDisk
<1>8. /\ i \in 1..Len(file) /\ RowFits(Q, file[i])
      /\ file[i].first \in Nat /\ file[i].last \in Nat
  BY <1>0, <1>1, <1>7, RowTypes DEF RowsAt
<1>9. file[i].first - 1 = a
  <2>1. ASSUME file[i].first <= a PROVE FALSE
    <3>1. PICK h \in 1..flushed : RowOf(Q, h) /\ file[h].last = a
      BY <1>2, <1>8, <2>1 DEF RowFits
    <3>2. /\ h \in 1..Len(file) /\ RowFits(Q, file[h])
          /\ file[h].first \in Nat /\ file[h].last \in Nat
      BY <1>0, <1>1, <3>1, RowTypes DEF RowsAt
    <3>3. CASE h < i
      <4>1. file[h].last < file[i].first
        BY <1>0, <1>7, <1>8, <3>1, <3>2, <3>3 DEF RowsInStreamOrder, RowOf
      <4> QED
        BY <1>2, <1>8, <2>1, <3>1, <4>1
    <3>4. CASE i < h
      <4>1. file[i].last < file[h].first
        BY <1>0, <1>7, <1>8, <3>1, <3>2, <3>4 DEF RowsInStreamOrder, RowOf
      <4>2. file[h].first <= file[h].last
        BY <3>2 DEF RowFits
      <4> QED
        BY <1>2, <1>7, <1>8, <3>1, <3>2, <4>1, <4>2
    <3>5. CASE i = h
      BY <1>2, <1>7, <3>1, <3>5
    <3> QED
      BY <1>7, <3>1, <3>3, <3>4, <3>5
  <2>2. file[i].first <= a + 1
    BY <1>7
  <2> QED
    BY <1>2, <1>8, <2>1, <2>2
<1>10. Yielded(sent[Q], a, file[i].last)
  <2>1. Unit(sent[Q], a, got[Q])
    <3>1. fwd[Q] <= got[Q] /\ fwd[Q] \in Nat /\ got[Q] \in Nat
      BY <1>3
    <3> QED
      BY <1>2, <1>3, <1>4, <3>1, UnitMonotone DEF Unit
  <2> QED
    BY <1>8, <1>9, <2>1 DEF RowFits
<1>11. file[i].last = a + Total(sent[Q], a)
  BY <1>3, <1>10 DEF Yielded, WholeFrame, BadHeader
<1> QED
  BY <1>7, <1>11 DEF Q, a

\* Steps that start no frame and take no row off the disk.
LEMMA PairStill ==
  ASSUME IInv, NEW c \in Conns, NEW n, NEW e, Pair(c, n, e),
         UNCHANGED <<frame, flushed>>, Len(file') \in Nat,
         flushed <= Len(file'), Len(file') <= Len(file),
         \A i \in 1..Len(file') : file'[i] = file[i],
         HasHand(Resp(c))' => HasHand(Resp(c))
  PROVE  Pair(c, n, e)'
<1>1. flushed \in Nat /\ Len(file) \in Nat
  BY DEF IInv, TypeOK
<1>2. \A i \in 1..flushed : i \in 1..Len(file') /\ file'[i] = file[i]
  BY <1>1
<1>3. (\E i \in 1..flushed : RowOf(Req(c), i) /\ file[i].last = n)'
  BY <1>2 DEF Pair, RowOf
<1>4. ASSUME NEW j \in 1..Len(file'), RowOf(Resp(c), j)', file'[j].last >= e
      PROVE  (\E i \in 1..j-1 : RequestRow(c, i, n, file[j].stamp))'
  <2>1. j \in 1..Len(file) /\ file'[j] = file[j]
    BY <1>1, <1>4
  <2>2. PICK i \in 1..j-1 : RequestRow(c, i, n, file[j].stamp)
    BY <1>4, <2>1 DEF Pair, RowOf
  <2>3. file'[i] = file[i]
    BY <1>1, <2>2
  <2> QED
    BY <2>1, <2>2, <2>3 DEF RequestRow, RowOf
<1>5. ASSUME HasHand(Resp(c))', frame[Resp(c)].last >= e
      PROVE  (\E i \in 1..flushed : RequestRow(c, i, n, frame[Resp(c)].stamp))'
  <2>1. PICK i \in 1..flushed : RequestRow(c, i, n, frame[Resp(c)].stamp)
    BY <1>5 DEF Pair
  <2> QED
    BY <1>2, <2>1 DEF RequestRow, RowOf
<1> QED
  BY <1>3, <1>4, <1>5 DEF Pair

\* A pump that logs a frame of a reply stamps it after the row of the request.
LEMMA PairHand ==
  ASSUME OInv, NEW p \in Pumps, Pump(p), NEW c \in Conns, NEW n, NEW e, Pair(c, n, e),
         \A i \in 1..flushed : file'[i] = file[i], flushed \in Nat, flushed' \in Nat,
         flushed <= flushed', HasHand(Resp(c))', frame'[Resp(c)].last >= e
  PROVE  (\E i \in 1..flushed : RequestRow(c, i, n, frame[Resp(c)].stamp))'
<1> DEFINE q == Resp(c)
<1>0. IInv /\ q \in Pumps /\ Req(c) \in Pumps /\ RowsAt(Req(c)) /\ InFile
      /\ pc \in [Pumps -> Places] /\ frame \in [Pumps -> Frames] /\ clock \in Nat
      /\ frame[p].then \in {"recv", "parse", "shut"}
  BY StreamsDiffer, HandTypes DEF OInv, IInv, Frames
<1>1. ASSUME NEW t, t = frame'[q].stamp, \E i \in 1..flushed : RequestRow(c, i, n, t)
      PROVE  (\E i \in 1..flushed : RequestRow(c, i, n, frame[q].stamp))'
  <2>1. PICK i \in 1..flushed : RequestRow(c, i, n, t)
    BY <1>1
  <2> QED
    BY <1>1, <2>1 DEF RequestRow, RowOf
<1>2. CASE HasHand(q) /\ frame'[q] = frame[q]
  BY <1>1, <1>2 DEF Pair
<1>3. CASE Stamp(p) /\ q = p
  <2>1. frame'[q].stamp = clock + 1
    BY <1>0, <1>3 DEF Stamp, Frames
  <2>2. PICK i \in 1..flushed : RowOf(Req(c), i) /\ file[i].last = n
    BY DEF Pair
  <2>3. i \in 1..Len(file) /\ file[i].stamp \in Nat
    <3>1. i \in 1..Len(file)
      BY <1>0, <2>2 DEF InFile, IInv, TypeOK
    <3> QED
      BY <1>0, <3>1, RowTypes
  <2>4. file[i].stamp <= clock
    BY <1>0, <2>2, <2>3 DEF RowsAt, RowFits
  <2>5. file[i].stamp < clock + 1
    BY <1>0, <2>3, <2>4
  <2> QED
    BY <1>1, <2>1, <2>2, <2>5 DEF RequestRow
<1>4. CASE q # p
  <2>1. pc'[q] = pc[q] /\ frame'[q] = frame[q]
    BY <1>0, <1>4, PumpFrame DEF OthersSame
  <2> QED
    BY <1>2, <2>1 DEF HasHand
<1>5. CASE q = p /\ ~Stamp(p)
  <2>1. pc'[p] \in {"acquire", "write"}
    BY <1>5 DEF HasHand
  <2>2. Acquire(p)
    <3>1. ASSUME (\E m \in 1..CHUNK : RecvChunk(p, m)) \/ RecvEnd(p) \/ RecvError(p)
                   \/ YieldFrame(p) \/ YieldRest(p) \/ NoMoreFrames(p) \/ SendAll(p)
                   \/ SendError(p) \/ HalfClose(p) \/ WriteRow(p)
          PROVE  FALSE
      BY <1>0, <2>1, <3>1 DEF RecvChunk, RecvEnd, RecvError, YieldFrame, YieldRest, Yield,
                  NoMoreFrames, SendAll, SendError, HalfClose, WriteRow, GoTo
    <3>2. ASSUME Leftover(p) \/ WriteClosed(p) \/ Flush(p) PROVE FALSE
      BY <1>0, <2>1, <3>2 DEF Leftover, WriteClosed, Flush, GoTo
    <3> QED
      BY <1>5, <3>1, <3>2 DEF Pump
  <2>3. HasHand(q) /\ frame'[q] = frame[q]
    BY <1>5, <2>2 DEF Acquire, At, HasHand
  <2> QED
    BY <1>2, <2>3
<1> QED
  BY <1>3, <1>4, <1>5

LEMMA PairPump ==
  ASSUME OInv, NEW p \in Pumps, Pump(p), NEW c \in Conns, NEW n, NEW e, Pair(c, n, e)
  PROVE  Pair(c, n, e)'
<1>0. IInv /\ file \in Seq(Rows) /\ flushed \in 0..Len(file) /\ Resp(c) \in Pumps
  <2>1. IInv /\ file \in Seq(Rows) /\ flushed \in Nat /\ flushed <= Len(file)
    BY DEF OInv, IInv, TypeOK, InFile
  <2>2. flushed \in 0..Len(file)
    BY <2>1
  <2> QED
    BY <2>1, <2>2, StreamsDiffer
<1>1. /\ Len(file) \in Nat /\ Len(file') \in Nat
      /\ \A i \in 1..Len(file) : file'[i] = file[i]
      /\ \/ Len(file') = Len(file)
         \/ /\ Len(file') = Len(file) + 1 /\ file'[Len(file) + 1] = HandRow(p)
            /\ HasHand(p)
  <2>1. CASE WriteRow(p)
    BY <1>0, <2>1, WriteFacts DEF HasHand
  <2> QED
    BY <1>0, <2>1, PumpFrame
<1>2. flushed' \in Nat /\ flushed <= flushed' /\ \A i \in 1..flushed : file'[i] = file[i]
  <2>1. flushed' = flushed \/ flushed' = Len(file)
    BY <1>0, PumpFrame DEF Flush
  <2> QED
    BY <1>0, <1>1, <2>1
<1>3. (\E i \in 1..flushed : RowOf(Req(c), i) /\ file[i].last = n)'
  <2>1. PICK i \in 1..flushed : RowOf(Req(c), i) /\ file[i].last = n
    BY DEF Pair
  <2>2. i \in 1..flushed' /\ file'[i] = file[i]
    BY <1>0, <1>2
  <2> QED
    BY <2>1, <2>2 DEF RowOf
<1>4. ASSUME NEW j \in 1..Len(file'), RowOf(Resp(c), j)', file'[j].last >= e
      PROVE  (\E i \in 1..j-1 : RequestRow(c, i, n, file[j].stamp))'
  <2>1. CASE j \in 1..Len(file)
    <3>1. PICK i \in 1..j-1 : RequestRow(c, i, n, file[j].stamp)
      BY <1>1, <1>4, <2>1 DEF Pair, RowOf
    <3>2. file'[i] = file[i] /\ file'[j] = file[j]
      BY <1>1, <2>1, <3>1
    <3> QED
      BY <3>1, <3>2 DEF RequestRow, RowOf
  <2>2. CASE j = Len(file) + 1
    <3>1. file'[j] = HandRow(p) /\ HasHand(p)
      BY <1>1, <1>4, <2>2
    <3>2. p = Resp(c) /\ file'[j].last = frame[p].last /\ file'[j].stamp = frame[p].stamp
      BY <1>4, <3>1 DEF RowOf, HandRow
    <3>3. PICK i \in 1..flushed : RequestRow(c, i, n, frame[p].stamp)
      BY <1>4, <3>1, <3>2 DEF Pair
    <3>4. i \in 1..j-1 /\ file'[i] = file[i]
      BY <1>0, <1>1, <2>2, <3>3
    <3> QED
      BY <3>2, <3>3, <3>4 DEF RequestRow, RowOf
  <2> QED
    BY <1>1, <2>1, <2>2
<1>5. HasHand(Resp(c))' /\ frame'[Resp(c)].last >= e =>
        (\E i \in 1..flushed : RequestRow(c, i, n, frame[Resp(c)].stamp))'
  BY <1>0, <1>2, PairHand
<1> QED
  BY <1>3, <1>4, <1>5 DEF Pair

\* The steps of the peers and the end of the process.
LEMMA PairsKept ==
  ASSUME PInv, IInv', UNCHANGED <<frame, flushed>>, Len(file') <= Len(file),
         \A i \in 1..Len(file') : file'[i] = file[i],
         \A q \in Pumps : pc'[q] = pc[q] \/ (pc[q] = "idle" /\ pc'[q] = "recv"),
         NEW c \in Conns, NEW n, NEW e, Pair(c, n, e)
  PROVE  Pair(c, n, e)'
<1>1. IInv /\ Resp(c) \in Pumps
  BY StreamsDiffer DEF PInv, OInv
<1>2. Len(file') \in Nat /\ flushed <= Len(file')
  BY DEF IInv, TypeOK, InFile
<1>3. HasHand(Resp(c))' => HasHand(Resp(c))
  BY <1>1 DEF HasHand
<1> QED
  BY <1>1, <1>2, <1>3, PairStill

LEMMA PairsAt ==
  ASSUME NEW d \in Conns, Len(ends'[Resp(d)]) = Len(answered'[d]),
         \A k \in 1..Len(answered'[d]) : \A a, b :
           a = answered'[d][k] /\ b = ends'[Resp(d)][k] => Pair(d, a, b)'
  PROVE  PairAt(d)'
<1> SUFFICES ASSUME NEW k \in 1..Len(answered'[d])
             PROVE  Pair(d, answered[d][k], ends[Resp(d)][k])'
  BY DEF PairAt
<1>1. PICK a, b : a = answered'[d][k] /\ b = ends'[Resp(d)][k]
  OBVIOUS
<1>2. Pair(d, a, b)'
  BY <1>1
<1>3. (\E i \in 1..flushed : RowOf(Req(d), i) /\ file[i].last = answered[d][k])'
  BY <1>1, <1>2 DEF Pair
<1>4. ASSUME NEW j \in 1..Len(file'), RowOf(Resp(d), j)', file'[j].last >= ends'[Resp(d)][k]
      PROVE  (\E i \in 1..j-1 : RequestRow(d, i, answered[d][k], file[j].stamp))'
  BY <1>1, <1>2, <1>4 DEF Pair, RequestRow
<1>5. ASSUME HasHand(Resp(d))', frame'[Resp(d)].last >= ends'[Resp(d)][k]
      PROVE  (\E i \in 1..flushed : RequestRow(d, i, answered[d][k], frame[Resp(d)].stamp))'
  BY <1>1, <1>2, <1>5 DEF Pair, RequestRow
<1> QED
  BY <1>3, <1>4, <1>5 DEF Pair

LEMMA PairReply ==
  ASSUME PInv, IInv', NEW c \in Conns, NEW m \in Replies, PlcReply(c, m)
  PROVE  \A d \in Conns : PairAt(d)'
<1> PICK n, e : /\ n = PlcAt(c) + Total(sent[Req(c)], PlcAt(c))
                /\ e = Len(sent[Resp(c)]) + Len(m)
  OBVIOUS
<1>0. /\ IInv /\ Req(c) \in Pumps /\ Resp(c) \in Pumps
      /\ \A d \in Conns : Resp(d) \in Pumps /\ (Resp(d) = Resp(c) => d = c)
      /\ ends \in [Pumps -> Seq(Nat)] /\ answered \in [Conns -> Seq(Nat)]
      /\ sent[Resp(c)] \in Seq(Nat) /\ m \in Seq(Nat) /\ m # <<>>
  BY StreamsDiffer, PayloadAssumption DEF PInv, OInv, IInv, TypeOK
<1>1. /\ UNCHANGED <<pc, frame, file, flushed, got>> /\ PendingRequest(c)
      /\ ends' = [ends EXCEPT ![Resp(c)] = Append(@, e)]
      /\ answered' = [answered EXCEPT ![c] = Append(@, n)]
  BY DEF PlcReply, Emit, pumpVars, logVars
<1>2. ASSUME NEW d \in Conns, NEW a, NEW b, Pair(d, a, b) PROVE Pair(d, a, b)'
  BY <1>0, <1>1, <1>2, PairsKept
<1>3. Pair(c, n, e)'
  <2>1. \E i \in 1..flushed : RowOf(Req(c), i) /\ file[i].last = n
    BY <1>1, RequestOnDisk
  <2>2. got[Resp(c)] \in Nat /\ got[Resp(c)] < e
    <3>1. got[Resp(c)] \in Nat /\ got[Resp(c)] <= Len(sent[Resp(c)]) /\ Len(m) > 0
      BY <1>0, PumpFacts
    <3> QED
      BY <1>0, <3>1
  <2>3. e \in Nat
    BY <1>0
  <2>4. \A j \in 1..Len(file) : RowOf(Resp(c), j) => ~(file[j].last >= e)
    <3> SUFFICES ASSUME NEW j \in 1..Len(file), RowOf(Resp(c), j) PROVE ~(file[j].last >= e)
      OBVIOUS
    <3>1. file[j].last <= got[Resp(c)] /\ file[j].last \in Nat
      BY <1>0, RowTypes DEF PInv, OInv, RowsAt, RowFits
    <3> QED
      BY <2>2, <2>3, <3>1
  <2>5. HasHand(Resp(c)) => ~(frame[Resp(c)].last >= e)
    <3>1. HasHand(Resp(c)) => frame[Resp(c)].last <= got[Resp(c)]
      BY <1>0 DEF PInv, OInv, HandAt, HasHand, Logging
    <3>2. frame[Resp(c)].last \in Nat
      BY <1>0, HandTypes
    <3> QED
      BY <2>2, <2>3, <3>1, <3>2
  <2>6. Pair(c, n, e)
    BY <2>1, <2>4, <2>5 DEF Pair
  <2> QED
    BY <1>2, <2>6
<1>4. ASSUME NEW d \in Conns PROVE PairAt(d)'
  <2> SUFFICES /\ Len(ends'[Resp(d)]) = Len(answered'[d])
               /\ \A k \in 1..Len(answered'[d]) : \A a, b :
                    a = answered'[d][k] /\ b = ends'[Resp(d)][k] => Pair(d, a, b)'
    BY PairsAt
  <2>0. /\ Len(ends[Resp(d)]) = Len(answered[d])
        /\ answered[d] \in Seq(Nat) /\ ends[Resp(d)] \in Seq(Nat) /\ Resp(d) \in Pumps
    BY <1>0 DEF PInv, PairAt
  <2>1. ASSUME NEW k \in 1..Len(answered[d]), NEW a, NEW b,
               a = answered[d][k], b = ends[Resp(d)][k]
        PROVE  Pair(d, a, b)'
    BY <1>2, <2>1 DEF PInv, PairAt
  <2>2. CASE d # c
    <3>1. answered'[d] = answered[d] /\ ends'[Resp(d)] = ends[Resp(d)]
      BY <1>0, <1>1, <2>2
    <3> QED
      BY <2>0, <2>1, <3>1
  <2>3. CASE d = c
    <3>1. /\ answered'[d] = Append(answered[d], n) /\ ends'[Resp(d)] = Append(ends[Resp(d)], e)
          /\ Pair(d, n, e)'
      BY <1>0, <1>1, <1>3, <2>3
    <3>2. /\ Len(answered'[d]) = Len(answered[d]) + 1 /\ Len(answered[d]) \in Nat
          /\ Len(ends'[Resp(d)]) = Len(answered[d]) + 1
          /\ answered'[d][Len(answered[d]) + 1] = n /\ ends'[Resp(d)][Len(answered[d]) + 1] = e
          /\ \A k \in 1..Len(answered[d]) : /\ answered'[d][k] = answered[d][k]
                                           /\ ends'[Resp(d)][k] = ends[Resp(d)][k]
      BY <2>0, <3>1
    <3>3. ASSUME NEW k \in 1..Len(answered'[d]), NEW a, NEW b,
                 a = answered'[d][k], b = ends'[Resp(d)][k]
          PROVE  Pair(d, a, b)'
      <4>1. CASE k \in 1..Len(answered[d])
        BY <2>1, <3>2, <3>3, <4>1
      <4>2. CASE k = Len(answered[d]) + 1
        BY <3>1, <3>2, <3>3, <4>2
      <4> QED
        BY <3>2, <4>1, <4>2
    <3> QED
      BY <3>2, <3>3
  <2> QED
    BY <2>2, <2>3
<1> QED
  BY <1>4

\* Nobody is answered, and every pair is kept.
LEMMA PairSame ==
  ASSUME PInv, \A d \in Conns : /\ answered'[d] = answered[d]
                                /\ ends'[Resp(d)] = ends[Resp(d)],
         ASSUME NEW d \in Conns, NEW a, NEW b, Pair(d, a, b) PROVE Pair(d, a, b)'
  PROVE  \A d \in Conns : PairAt(d)'
<1> SUFFICES ASSUME NEW d \in Conns PROVE PairAt(d)'
  OBVIOUS
<1>1. PairAt(d) /\ answered'[d] = answered[d] /\ ends'[Resp(d)] = ends[Resp(d)]
  BY DEF PInv
<1>2. ASSUME NEW k \in 1..Len(answered'[d]), NEW a, NEW b,
             a = answered'[d][k], b = ends'[Resp(d)][k]
      PROVE  Pair(d, a, b)'
  <2>1. Pair(d, answered[d][k], ends[Resp(d)][k])
    BY <1>1, <1>2 DEF PairAt
  <2> QED
    BY <1>1, <1>2, <2>1
<1>3. Len(ends'[Resp(d)]) = Len(answered'[d])
  BY <1>1 DEF PairAt
<1> QED
  BY <1>2, <1>3, PairsAt

LEMMA PairPeers ==
  ASSUME PInv, IInv', NEW c \in Conns, PeerMove(c) \/ \E e \in Ends : Reset(e)
  PROVE  \A d \in Conns : PairAt(d)'
<1>0. IInv
  BY DEF PInv, OInv
<1>1. ASSUME NEW m \in Replies, PlcReply(c, m) PROVE \A d \in Conns : PairAt(d)'
  BY <1>1, PairReply
<1>2. ASSUME ~\E m \in Replies : PlcReply(c, m) PROVE \A d \in Conns : PairAt(d)'
  <2>1. /\ UNCHANGED <<frame, file, flushed>>
        /\ \A q \in Pumps : pc'[q] = pc[q] \/ (pc[q] = "idle" /\ pc'[q] = "recv")
    BY <1>0, PeerFrame
  <2>2. ASSUME NEW d \in Conns, NEW a, NEW b, Pair(d, a, b) PROVE Pair(d, a, b)'
    <3>1. Len(file') \in Nat /\ Len(file') <= Len(file)
      BY <2>1 DEF IInv, TypeOK
    <3> QED
      BY <2>1, <2>2, <3>1, PairsKept
  <2>3. \A d \in Conns : answered'[d] = answered[d] /\ ends'[Resp(d)] = ends[Resp(d)]
    <3>1. ASSUME NEW m \in Requests, ClientWrite(c, m)
          PROVE  \A d \in Conns : answered'[d] = answered[d] /\ ends'[Resp(d)] = ends[Resp(d)]
      <4>1. /\ answered' = answered /\ ends \in [Pumps -> Seq(Nat)]
            /\ \E x : ends' = [ends EXCEPT ![Req(c)] = x]
        BY <1>0, <3>1 DEF ClientWrite, Emit, IInv, TypeOK
      <4> QED
        BY <4>1, StreamsDiffer
    <3>2. CASE ClientConnect(c) \/ ClientClose(c) \/ PlcClose(c) \/ Handler(c)
               \/ PlcUnreachable(c) \/ \E e \in Ends : Reset(e)
      <4>1. UNCHANGED <<answered, ends>>
        BY <3>2 DEF ClientConnect, ClientClose, PlcClose, Handler, Accept, PlcConnected,
                    CloseBoth, PlcUnreachable, Reset, peerVars
      <4> QED
        BY <4>1
    <3> QED
      BY <1>2, <3>1, <3>2 DEF PeerMove, Client, Plc
  <2> QED
    BY <2>2, <2>3, PairSame
<1> QED
  BY <1>1, <1>2

LEMMA PairInit == Init => PInv
<1> SUFFICES ASSUME Init PROVE PInv
  OBVIOUS
<1>1. \A c \in Conns : PairAt(c)
  BY StreamsDiffer DEF Init, PairAt
<1> QED
  BY <1>1, OrderInit DEF PInv

LEMMA PairStep == PInv /\ [Next]_vars => PInv'
<1> SUFFICES ASSUME PInv, [Next]_vars PROVE PInv'
  OBVIOUS
<1>0. OInv /\ OInv' /\ IInv /\ IInv'
  BY OrderStep DEF PInv, OInv
<1>1. ASSUME NEW p \in Pumps, Pump(p) PROVE \A c \in Conns : PairAt(c)'
  <2>1. ASSUME NEW c \in Conns, NEW a, NEW b, Pair(c, a, b) PROVE Pair(c, a, b)'
    BY <1>0, <1>1, <2>1, PairPump
  <2>2. UNCHANGED <<answered, ends>>
    BY <1>0, <1>1, PumpFrame
  <2> QED
    BY <2>1, <2>2, PairSame
<1>2. ASSUME NEW c \in Conns, PeerMove(c) PROVE \A d \in Conns : PairAt(d)'
  BY <1>0, <1>2, PairPeers
<1>3. ASSUME NEW e \in Ends, Reset(e) PROVE \A d \in Conns : PairAt(d)'
  <2>1. PICK c \in Conns : TRUE
    BY DEF Ends
  <2> QED
    BY <1>0, <1>3, <2>1, PairPeers
<1>4. ASSUME Interrupt \/ CloseLogger \/ Kill \/ UNCHANGED vars
      PROVE  \A d \in Conns : PairAt(d)'
  <2>1. UNCHANGED <<frame, flushed, pc, answered, ends>>
    BY <1>4 DEF Interrupt, CloseLogger, Kill, vars, peerVars, pumpVars, logVars
  <2>2. /\ Len(file') \in Nat /\ Len(file') <= Len(file)
        /\ \A i \in 1..Len(file') : file'[i] = file[i]
    <3>1. file \in Seq(Rows) /\ flushed \in Nat /\ flushed <= Len(file)
      BY <1>0 DEF IInv, TypeOK, InFile
    <3>2. CASE file' = file
      BY <3>1, <3>2
    <3>3. CASE Kill
      BY <3>1, <3>3 DEF Kill
    <3> QED
      BY <1>4, <3>2, <3>3 DEF Interrupt, CloseLogger, vars, logVars
  <2>3. ASSUME NEW c \in Conns, NEW a, NEW b, Pair(c, a, b) PROVE Pair(c, a, b)'
    BY <1>0, <2>1, <2>2, <2>3, PairsKept
  <2>4. \A d \in Conns : answered'[d] = answered[d] /\ ends'[Resp(d)] = ends[Resp(d)]
    BY <2>1
  <2> QED
    BY <2>3, <2>4, PairSame
<1> QED
  BY <1>0, <1>1, <1>2, <1>3, <1>4 DEF Next, PeerMove, PInv

\* The row of a reply always comes after the row of the request it answers, in
\* the file and in time, with any number of connections being served, and the
\* disk still says so after a kill.
THEOREM ReplyAfterRequest == Spec => []ReplyRowAfterRequestRow
<1>1. PInv => ReplyRowAfterRequestRow
  <2> SUFFICES ASSUME PInv, NEW c \in Conns, NEW k \in 1..Len(answered[c]),
                      NEW j \in 1..flushed, RowOf(Resp(c), j),
                      file[j].last >= ends[Resp(c)][k]
               PROVE  \E i \in 1..j-1 : /\ RowOf(Req(c), i)
                                        /\ file[i].last = answered[c][k]
                                        /\ file[i].stamp < file[j].stamp
    BY DEF ReplyRowAfterRequestRow
  <2>1. j \in 1..Len(file)
    BY DEF PInv, OInv, IInv, TypeOK, InFile
  <2>2. Pair(c, answered[c][k], ends[Resp(c)][k])
    BY DEF PInv, PairAt
  <2> QED
    BY <2>1, <2>2 DEF Pair, RequestRow
<1> QED
  BY <1>1, PairInit, PairStep, PTL DEF Spec

----------------------------------------------------------------------------
(* Peers that write one well-formed frame at a time, and the rows of those  *)
(* frames.                                                                  *)

OneFrame(m) == WholeFrame(m, 0, Len(m)) /\ Total(m, 0) = Len(m)
WholePayloads == \A m \in Requests \cup Replies : OneFrame(m)

\* o is where stream s, which was written in parts that end at e, starts or one
\* of the parts ends; behind each such place is the end, or a frame up to the
\* next one.
PartsEnd(e, o) == o = 0 \/ \E k \in 1..Len(e) : e[k] = o
FrameByFrame(s, e) ==
  /\ PartsEnd(e, Len(s))
  /\ \A o \in Nat : PartsEnd(e, o) =>
       /\ o <= Len(s)
       /\ o < Len(s) => WholeFrame(s, o, Len(s)) /\ PartsEnd(e, o + Total(s, o))

CutShort(p) == {Source(p), Dest(p)} \cap gone # {}

\* The parser stands where a frame starts, and what is left over at the end of a
\* stream was cut short by a reset.
CutAt(p) ==
  /\ Boundary(p, cut[p])
  /\ Logging(p) => Boundary(p, frame[p].first - 1)
  /\ (pc[p] = "final" \/ (Logging(p) /\ frame[p].then # "parse")) /\ Alive =>
       cut[p] = got[p] \/ CutShort(p)

RowWhole(p, r) ==
  /\ Boundary(p, r.first - 1)
  /\ Yielded(sent[p], r.first - 1, r.last) \/ (r.last = got[p] /\ CutShort(p))
RowsWhole(p) == \A i \in 1..Len(file) : RowOf(p, i) => RowWhole(p, file[i])

Framed(p) == FrameByFrame(sent[p], ends[p])
WInv == OInv /\ \A p \in Pumps : Framed(p) /\ CutAt(p) /\ RowsWhole(p)

\* A whole frame is the same one when more is written after it.
LEMMA WholeExtends ==
  ASSUME NEW s \in Seq(Nat), NEW t \in Seq(Nat), Len(s) <= Len(t),
         \A i \in 1..Len(s) : t[i] = s[i],
         NEW a \in Nat, NEW b \in 0..Len(s), HasHeader(a, b)
  PROVE  /\ WholeFrame(t, a, b) <=> WholeFrame(s, a, b)
         /\ Total(t, a) = Total(s, a)
<1>1. a + LENGTH_AT \in 1..Len(s)
  BY FramingAssumption DEF HasHeader
<1>2. LengthField(t, a) = LengthField(s, a)
  BY <1>1 DEF LengthField
<1> QED
  BY <1>2 DEF WholeFrame, ValidLength, Total

\* A stream of frames with one more of them is a stream of frames.
LEMMA OneMoreFrame ==
  ASSUME NEW s \in Seq(Nat), NEW e \in Seq(Nat), FrameByFrame(s, e),
         NEW m \in Seq(Nat), OneFrame(m)
  PROVE  /\ FrameByFrame(s \o m, Append(e, Len(s) + Len(m)))
         /\ \A o : PartsEnd(e, o) => PartsEnd(Append(e, Len(s) + Len(m)), o)
<1> DEFINE t == s \o m
           f == Append(e, Len(s) + Len(m))
<1>1. /\ Len(s) \in Nat /\ Len(m) \in Nat /\ Len(e) \in Nat /\ t \in Seq(Nat)
      /\ Len(t) = Len(s) + Len(m) /\ \A i \in 1..Len(s) : t[i] = s[i]
      /\ \A i \in 1..Len(m) : t[Len(s) + i] = m[i]
  OBVIOUS
<1>2. /\ Len(f) = Len(e) + 1 /\ f[Len(e) + 1] = Len(t)
      /\ \A k \in 1..Len(e) : f[k] = e[k]
  BY <1>1
<1> HIDE DEF t, f
<1>3. \A o : PartsEnd(f, o) <=> PartsEnd(e, o) \/ o = Len(t)
  <2>1. \A k : k \in 1..Len(f) <=> k \in 1..Len(e) \/ k = Len(e) + 1
    BY <1>1, <1>2
  <2> QED
    BY <1>2, <2>1 DEF PartsEnd
<1>4. ASSUME NEW o \in Nat, PartsEnd(f, o)
      PROVE  /\ o <= Len(t)
             /\ o < Len(t) => WholeFrame(t, o, Len(t)) /\ PartsEnd(f, o + Total(t, o))
  <2>1. CASE o = Len(s)
    <3>1. HasHeader(0, Len(m)) /\ ValidLength(m, 0) /\ Total(m, 0) = Len(m)
      BY DEF OneFrame, WholeFrame
    <3>2. LENGTH_AT \in 1..Len(m)
      BY <1>1, <3>1, FramingAssumption DEF HasHeader
    <3>3. LengthField(t, o) = LengthField(m, 0)
      BY <1>1, <2>1, <3>2 DEF LengthField
    <3>4. Total(t, o) = Len(m) /\ ValidLength(t, o)
      BY <3>1, <3>3 DEF Total, ValidLength
    <3>5. HasHeader(o, Len(t)) /\ Total(t, o) <= Len(t) - o /\ o + Total(t, o) = Len(t)
      BY <1>1, <2>1, <3>1, <3>4, FramingAssumption DEF HasHeader
    <3> QED
      BY <1>1, <1>3, <2>1, <3>4, <3>5 DEF WholeFrame
  <2>2. CASE o # Len(s) /\ PartsEnd(e, o)
    <3>1. o < Len(s) /\ WholeFrame(s, o, Len(s)) /\ PartsEnd(e, o + Total(s, o))
      BY <1>1, <2>2 DEF FrameByFrame
    <3>2. Total(s, o) \in Nat /\ Total(s, o) <= Len(s) - o /\ HasHeader(o, Len(s))
      <4>1. Total(s, o) \in Nat /\ Len(s) \in 0..Len(s)
        BY <1>1, <3>1, TotalType
      <4> QED
        BY <3>1, <4>1 DEF WholeFrame
    <3>3. WholeFrame(t, o, Len(s)) /\ Total(t, o) = Total(s, o)
      <4>1. Len(s) \in 0..Len(s) /\ Len(s) <= Len(t)
        BY <1>1
      <4> QED
        BY <1>1, <3>1, <3>2, <4>1, WholeExtends
    <3>4. HasHeader(o, Len(t)) /\ Total(t, o) <= Len(t) - o
      <4>1. Len(t) - o = (Len(s) - o) + Len(m) /\ Len(s) - o \in Int /\ HEADER \in Int
        BY <1>1, FramingAssumption
      <4> QED
        BY <1>1, <3>2, <3>3, <4>1 DEF HasHeader
    <3> QED
      BY <1>1, <1>3, <3>1, <3>3, <3>4 DEF WholeFrame
  <2>3. CASE o = Len(t)
    BY <1>1, <2>3
  <2> QED
    BY <1>3, <1>4, <2>1, <2>2, <2>3
<1> QED
  BY <1>3, <1>4 DEF FrameByFrame, t, f

\* In a stream of frames, what is cut off from where one starts is that frame.
LEMMA NextFrame ==
  ASSUME NEW s \in Seq(Nat), NEW e, FrameByFrame(s, e),
         NEW a \in Nat, NEW b \in 0..Len(s), PartsEnd(e, a)
  PROVE  /\ ~BadHeader(s, a, b)
         /\ WholeFrame(s, a, b) => PartsEnd(e, a + Total(s, a))
         /\ ~Unit(s, a, Len(s)) => a = Len(s)
<1>1. Len(s) \in Nat /\ a <= Len(s)
  BY DEF FrameByFrame
<1>2. CASE a = Len(s)
  BY <1>1, <1>2, FramingAssumption DEF BadHeader, WholeFrame, HasHeader
<1>3. CASE a < Len(s)
  BY <1>3 DEF FrameByFrame, WholeFrame, BadHeader, Unit
<1> QED
  BY <1>1, <1>2, <1>3

\* What a row says stays so while its stream is written on and nothing of it is
\* read.
LEMMA WholeStays ==
  ASSUME OInv, TypeOK', NEW p \in Pumps, NEW r, RowFits(p, r), RowWhole(p, r),
         r.first \in Nat, r.last \in Nat,
         Len(sent[p]) <= Len(sent'[p]),
         \A i \in 1..Len(sent[p]) : sent'[p][i] = sent[p][i],
         \A o : Boundary(p, o) => Boundary(p, o)',
         CutShort(p) => CutShort(p)',
         got'[p] = got[p] \/ pc[p] \notin {"flush", "shut", "done"}
  PROVE  RowWhole(p, r)'
<1>0. IInv
  BY DEF OInv
<1>1. /\ sent[p] \in Seq(Nat) /\ sent'[p] \in Seq(Nat) /\ Len(sent[p]) \in Nat
      /\ got[p] \in 0..Len(sent[p])
  BY <1>0, StreamTypes
<1>2. r.first - 1 \in Nat /\ r.last \in 0..Len(sent[p])
  <2>1. 1 <= r.first /\ r.last <= got[p]
    BY DEF RowFits
  <2> QED
    BY <1>1, <2>1
<1>3. CASE Yielded(sent[p], r.first - 1, r.last)
  <2>1. Yielded(sent'[p], r.first - 1, r.last)
    BY <1>1, <1>2, <1>3, YieldedExtends
  <2> QED
    BY <2>1 DEF RowWhole
<1>4. CASE ~Yielded(sent[p], r.first - 1, r.last)
  <2>1. pc[p] \in {"flush", "shut", "done"}
    BY <1>4 DEF RowFits
  <2>2. Boundary(p, r.first - 1) /\ r.last = got[p] /\ CutShort(p)
    BY <1>4 DEF RowWhole
  <2>3. Boundary(p, r.first - 1)' /\ r.last = got'[p] /\ CutShort(p)'
    BY <2>1, <2>2
  <2> QED
    BY <2>3 DEF RowWhole
<1> QED
  BY <1>3, <1>4

LEMMA WritesFramed ==
  ASSUME OInv, WholePayloads, \A q \in Pumps : Framed(q),
         NEW c \in Conns, PeerMove(c) \/ \E e \in Ends : Reset(e)
  PROVE  \A q \in Pumps : Framed(q)' /\ \A o : Boundary(q, o) => Boundary(q, o)'
<1> DEFINE Goal == \A q \in Pumps : Framed(q)' /\ \A o : Boundary(q, o) => Boundary(q, o)'
<1>0. /\ sent \in [Pumps -> Seq(Nat)] /\ ends \in [Pumps -> Seq(Nat)]
      /\ Req(c) \in Pumps /\ Resp(c) \in Pumps
  BY PumpTypes DEF OInv, IInv, TypeOK
<1>1. UNCHANGED <<sent, ends>> => Goal
  BY DEF Framed, Boundary
<1>2. ASSUME NEW p \in Pumps, NEW m \in Requests \cup Replies, Emit(p, m) PROVE Goal
  <2> SUFFICES ASSUME NEW q \in Pumps
               PROVE  Framed(q)' /\ \A o : Boundary(q, o) => Boundary(q, o)'
    OBVIOUS
  <2>1. m \in Seq(Nat) /\ OneFrame(m)
    BY PayloadAssumption DEF WholePayloads
  <2>2. CASE q # p
    <3>1. sent'[q] = sent[q] /\ ends'[q] = ends[q]
      BY <1>0, <1>2, <2>2 DEF Emit
    <3> QED
      BY <3>1 DEF Framed, Boundary
  <2>3. CASE q = p
    <3>1. sent'[q] = sent[q] \o m /\ ends'[q] = Append(ends[q], Len(sent[q]) + Len(m))
      BY <1>0, <1>2, <2>3 DEF Emit
    <3>2. /\ FrameByFrame(sent'[q], ends'[q])
          /\ \A o : PartsEnd(ends[q], o) => PartsEnd(ends'[q], o)
      BY <1>0, <2>1, <3>1, OneMoreFrame DEF Framed
    <3> QED
      BY <3>2 DEF Framed, Boundary, PartsEnd
  <2> QED
    BY <2>2, <2>3
<1>3. ASSUME NEW m \in Requests, ClientWrite(c, m) PROVE Goal
  BY <1>0, <1>2, <1>3 DEF ClientWrite
<1>4. ASSUME NEW m \in Replies, PlcReply(c, m) PROVE Goal
  BY <1>0, <1>2, <1>4 DEF PlcReply
<1>5. CASE ClientConnect(c) \/ ClientClose(c) \/ PlcClose(c) \/ Handler(c)
           \/ PlcUnreachable(c) \/ \E e \in Ends : Reset(e)
  <2>1. UNCHANGED <<sent, ends>>
    BY <1>5 DEF ClientConnect, ClientClose, PlcClose, Handler, Accept, PlcConnected,
                CloseBoth, PlcUnreachable, Reset, peerVars
  <2> QED
    BY <1>1, <2>1
<1> QED
  BY <1>3, <1>4, <1>5 DEF PeerMove, Client, Plc

LEMMA WholePeers ==
  ASSUME WInv, OInv', WholePayloads, NEW c \in Conns, PeerMove(c) \/ \E e \in Ends : Reset(e)
  PROVE  WInv'
<1>0. OInv /\ IInv /\ TypeOK'
  BY DEF WInv, OInv, IInv
<1>1. /\ UNCHANGED <<tap, got, cut, frame, file>>
      /\ \A q \in Pumps : pc'[q] = pc[q] \/ (pc[q] = "idle" /\ pc'[q] = "recv")
      /\ \A q \in Pumps : /\ Len(sent[q]) <= Len(sent'[q])
                          /\ \A i \in 1..Len(sent[q]) : sent'[q][i] = sent[q][i]
  BY <1>0, PeerFrame
<1>2. gone \subseteq gone'
  BY DEF PeerMove, Client, ClientConnect, ClientWrite, ClientClose, Plc, PlcReply, PlcClose,
         Handler, Accept, PlcConnected, CloseBoth, PlcUnreachable, Reset, peerVars
<1>3. ASSUME NEW q \in Pumps PROVE Framed(q)' /\ CutAt(q)' /\ RowsWhole(q)'
  <2>1. Framed(q)' /\ \A o : Boundary(q, o) => Boundary(q, o)'
    BY <1>0, WritesFramed DEF WInv
  <2>2. CutShort(q) => CutShort(q)'
    BY <1>2 DEF CutShort
  <2>3. CutAt(q) /\ RowsWhole(q) /\ RowsAt(q)
    BY DEF WInv, OInv
  <2>4. Logging(q)' => Logging(q)
    BY <1>1 DEF Logging
  <2>5. pc'[q] = "final" => pc[q] = "final"
    BY <1>1
  <2>6. CutAt(q)'
    BY <1>1, <2>1, <2>2, <2>3, <2>4, <2>5 DEF CutAt, Alive
  <2>7. ASSUME NEW i \in 1..Len(file), RowOf(q, i) PROVE RowWhole(q, file[i])'
    <3>1. PICK r : r = file[i]
      OBVIOUS
    <3>2. RowFits(q, r) /\ RowWhole(q, r) /\ r.first \in Nat /\ r.last \in Nat
      BY <1>0, <2>3, <2>7, <3>1, RowTypes DEF RowsAt, RowsWhole
    <3>3. RowWhole(q, r)'
      BY <1>0, <1>1, <2>1, <2>2, <3>2, WholeStays
    <3> QED
      BY <1>1, <3>1, <3>3 DEF RowWhole
  <2>8. RowsWhole(q)'
    BY <1>1, <2>7 DEF RowsWhole, RowOf
  <2> QED
    BY <2>1, <2>6, <2>8
<1> QED
  BY <1>3 DEF WInv

LEMMA WholeStop ==
  ASSUME WInv, OInv', Interrupt \/ CloseLogger \/ Kill \/ UNCHANGED vars
  PROVE  WInv'
<1>1. UNCHANGED <<gone, sent, ends, got, cut, pc, frame>> /\ (Alive' => Alive)
  BY DEF Interrupt, CloseLogger, Kill, vars, peerVars, pumpVars, Alive
<1>2. /\ Len(file') <= Len(file)
      /\ \A i \in 1..Len(file') : file'[i] = file[i] /\ i \in 1..Len(file)
  <2>1. file \in Seq(Rows) /\ flushed \in Nat /\ flushed <= Len(file)
    BY DEF WInv, OInv, IInv, TypeOK, InFile
  <2>2. CASE file' = file
    BY <2>1, <2>2
  <2>3. CASE Kill
    BY <2>1, <2>3 DEF Kill
  <2> QED
    BY <2>2, <2>3 DEF Interrupt, CloseLogger, vars, logVars
<1>3. ASSUME NEW q \in Pumps PROVE Framed(q)' /\ CutAt(q)' /\ RowsWhole(q)'
  <2>1. Framed(q) /\ CutAt(q) /\ RowsWhole(q)
    BY DEF WInv
  <2>2. Framed(q)' /\ CutAt(q)'
    BY <1>1, <2>1 DEF Framed, CutAt, Boundary, Logging, CutShort
  <2>3. ASSUME NEW i \in 1..Len(file'), RowOf(q, i)' PROVE RowWhole(q, file[i])'
    <3>1. i \in 1..Len(file) /\ file'[i] = file[i]
      BY <1>2
    <3>2. RowWhole(q, file[i])
      BY <2>1, <2>3, <3>1 DEF RowsWhole, RowOf
    <3> QED
      BY <1>1, <3>1, <3>2 DEF RowWhole, Boundary, CutShort
  <2> QED
    BY <2>2, <2>3 DEF RowsWhole
<1> QED
  BY <1>3 DEF WInv

LEMMA CutPump ==
  ASSUME WInv, NEW p \in Pumps, Pump(p)
  PROVE  CutAt(p)'
<1>0. /\ IInv /\ HandAt(p) /\ Framed(p) /\ CutAt(p)
      /\ pc \in [Pumps -> Places] /\ frame \in [Pumps -> Frames] /\ cut \in [Pumps -> Nat]
      /\ frame[p].then \in {"recv", "parse", "shut"} /\ cut[p] \in Nat
      /\ sent[p] \in Seq(Nat) /\ got[p] \in 0..Len(sent[p])
      /\ ForwardedAt(p)
  BY HandTypes, PumpFacts DEF WInv, OInv, IInv, TypeOK, Frames
<1>1. UNCHANGED <<tap, sent, ends, gone>>
  BY <1>0 DEF Pump, RecvChunk, RecvEnd, RecvError, YieldFrame, YieldRest, NoMoreFrames,
       SendAll, SendError, Leftover, HalfClose, Stamp, Acquire, WriteRow, WriteClosed, Flush,
       peerVars
<1>2. (CutShort(p)' <=> CutShort(p)) /\ (\A o : Boundary(p, o)' <=> Boundary(p, o))
  BY <1>1 DEF CutShort, Boundary
<1>3. CASE (\E n \in 1..CHUNK : RecvChunk(p, n)) \/ SendAll(p) \/ HalfClose(p)
           \/ NoMoreFrames(p)
  <2>1. cut'[p] = cut[p] /\ pc'[p] \in {"parse", "recv", "done", "send"}
    BY <1>0, <1>3 DEF RecvChunk, SendAll, HalfClose, NoMoreFrames, GoTo
  <2> QED
    BY <1>0, <1>2, <2>1 DEF CutAt, Logging, Boundary
<1>4. CASE RecvEnd(p) \/ RecvError(p) \/ SendError(p)
  <2>1. /\ cut' = cut /\ got' = got /\ pc'[p] = "final" /\ pc[p] \in {"recv", "send"}
    BY <1>0, <1>4 DEF RecvEnd, RecvError, SendError, At, GoTo
  <2>2. cut[p] = got[p] \/ CutShort(p)
    <3>1. CASE RecvEnd(p)
      <4>1. got[p] = Len(sent[p]) /\ ~Unit(sent[p], cut[p], got[p])
        BY <1>0, <3>1 DEF RecvEnd, At, ForwardedAt
      <4>2. PartsEnd(ends[p], cut[p])
        BY <1>0 DEF CutAt, Boundary, PartsEnd
      <4> QED
        BY <1>0, <4>1, <4>2, NextFrame DEF Framed
    <3>2. CASE RecvError(p) \/ SendError(p)
      BY <3>2 DEF RecvError, SendError, CutShort
    <3> QED
      BY <1>4, <3>1, <3>2
  <2> QED
    BY <1>0, <1>2, <2>1, <2>2 DEF CutAt, Logging, Boundary
<1>5. CASE YieldFrame(p) \/ YieldRest(p)
  <2> DEFINE n == cut[p] + Total(sent[p], cut[p])
  <2>1. PartsEnd(ends[p], cut[p])
    BY <1>0 DEF CutAt, Boundary, PartsEnd
  <2>2. /\ ~BadHeader(sent[p], cut[p], got[p])
        /\ WholeFrame(sent[p], cut[p], got[p]) => PartsEnd(ends[p], n)
    BY <1>0, <2>1, NextFrame DEF Framed
  <2>3. YieldFrame(p) /\ WholeFrame(sent[p], cut[p], got[p]) /\ Yield(p, n)
    BY <1>5, <2>2 DEF YieldFrame, YieldRest
  <2>4. Boundary(p, n)
    BY <2>2, <2>3 DEF Boundary, PartsEnd
  <2> HIDE DEF n
  <2>5. frame'[p] = [first |-> cut[p] + 1, last |-> n, stamp |-> 0, then |-> "parse"]
    BY <1>0, <2>3 DEF Yield
  <2>6. /\ cut'[p] = n /\ pc'[p] = "stamp" /\ frame'[p].then = "parse"
        /\ frame'[p].first - 1 = cut[p]
    BY <1>0, <2>3, <2>5 DEF Yield, GoTo
  <2>7. Boundary(p, cut[p])
    BY <1>0 DEF CutAt
  <2> QED
    BY <1>2, <2>4, <2>6, <2>7 DEF CutAt, Logging, Boundary
<1>6. CASE Leftover(p)
  <2>1. UNCHANGED <<cut, got>> /\ pc[p] = "final"
    BY <1>6 DEF Leftover, At
  <2>2. \/ pc'[p] = "shut"
        \/ pc'[p] = "stamp" /\ frame'[p].first - 1 = cut[p] /\ frame'[p].then = "shut"
    <3>1. CASE cut[p] < got[p]
      <4>1. /\ frame'[p] = [first |-> cut[p] + 1, last |-> got[p], stamp |-> 0,
                            then |-> "shut"]
            /\ pc'[p] = "stamp"
        BY <1>0, <1>6, <3>1 DEF Leftover, GoTo
      <4> QED
        BY <1>0, <4>1
    <3>2. CASE ~(cut[p] < got[p])
      BY <1>0, <1>6, <3>2 DEF Leftover, GoTo
    <3> QED
      BY <3>1, <3>2
  <2> QED
    BY <1>0, <1>1, <1>2, <2>1, <2>2 DEF CutAt, Logging, Boundary, Alive
<1>7. CASE Stamp(p) \/ Acquire(p) \/ WriteRow(p)
  <2>1. /\ UNCHANGED <<cut, got>> /\ Logging(p) /\ pc'[p] # "final"
        /\ frame'[p].first = frame[p].first /\ frame'[p].then = frame[p].then
    <3>1. CASE Stamp(p)
      <4>1. frame'[p] = [frame[p] EXCEPT !.stamp = clock + 1] /\ frame[p] \in Frames
        BY <1>0, <3>1 DEF Stamp
      <4>2. frame'[p].first = frame[p].first /\ frame'[p].then = frame[p].then
        BY <4>1 DEF Frames
      <4> QED
        BY <1>0, <3>1, <4>2 DEF Stamp, At, GoTo, Logging
    <3>2. CASE Acquire(p) \/ WriteRow(p)
      BY <1>0, <3>2 DEF Acquire, WriteRow, At, GoTo, Logging
    <3> QED
      BY <1>7, <3>1, <3>2
  <2> QED
    BY <1>0, <1>1, <1>2, <2>1 DEF CutAt, Logging, Boundary, Alive
<1>8. CASE WriteClosed(p) \/ Flush(p)
  <2>1. cut' = cut /\ pc'[p] \in {"final", "done", "recv", "parse", "shut"}
    BY <1>0, <1>8 DEF WriteClosed, Flush, GoTo
  <2>2. pc'[p] = "final" => tap' = "closed"
    BY <1>0, <1>1, <1>8 DEF WriteClosed, Flush, GoTo
  <2> QED
    BY <1>0, <1>2, <2>1, <2>2 DEF CutAt, Logging, Boundary, Alive
<1> QED
  BY <1>3, <1>4, <1>5, <1>6, <1>7, <1>8 DEF Pump

LEMMA WholePumps ==
  ASSUME WInv, OInv', NEW p \in Pumps, Pump(p)
  PROVE  WInv'
<1>0. OInv /\ IInv /\ TypeOK' /\ file \in Seq(Rows)
  BY DEF WInv, OInv, IInv, TypeOK
<1>1. UNCHANGED <<tap, sent, ends, gone>>
  BY <1>0 DEF Pump, RecvChunk, RecvEnd, RecvError, YieldFrame, YieldRest, NoMoreFrames,
       SendAll, SendError, Leftover, HalfClose, Stamp, Acquire, WriteRow, WriteClosed, Flush,
       peerVars
<1>2. \A q \in Pumps : CutShort(q)' = CutShort(q) /\ \A o : Boundary(q, o)' = Boundary(q, o)
  BY <1>1 DEF CutShort, Boundary
<1>3. ASSUME NEW q \in Pumps PROVE Framed(q)' /\ CutAt(q)'
  <2>1. Framed(q)' /\ CutAt(q)
    BY <1>1, <1>3 DEF WInv, Framed
  <2>2. CASE q # p
    <3>1. cut'[q] = cut[q] /\ pc'[q] = pc[q] /\ frame'[q] = frame[q] /\ got'[q] = got[q]
      BY <1>0, <2>2, PumpFrame DEF OthersSame
    <3> QED
      BY <1>1, <1>2, <2>1, <3>1 DEF CutAt, Logging, Alive
  <2> QED
    BY <2>1, <2>2, CutPump
<1>4. ASSUME NEW q \in Pumps, NEW r, RowFits(q, r), RowWhole(q, r),
             r.first \in Nat, r.last \in Nat
      PROVE  RowWhole(q, r)'
  <2>1. got'[q] = got[q] \/ pc[q] \notin {"flush", "shut", "done"}
    <3>1. CASE q # p
      BY <1>0, <3>1, PumpFrame DEF OthersSame
    <3>2. CASE q = p
      BY <3>2 DEF Pump, RecvChunk, RecvEnd, RecvError, YieldFrame, YieldRest, NoMoreFrames,
           SendAll, SendError, Leftover, HalfClose, Stamp, Acquire, WriteRow, WriteClosed,
           Flush, At
    <3> QED
      BY <3>1, <3>2
  <2>2. Len(sent[q]) <= Len(sent'[q]) /\ \A i \in 1..Len(sent[q]) : sent'[q][i] = sent[q][i]
    BY <1>0, <1>1, PumpFacts
  <2> QED
    BY <1>0, <1>2, <1>4, <2>1, <2>2, WholeStays
<1>5. ASSUME NEW q \in Pumps, NEW i \in 1..Len(file), RowOf(q, i), file'[i] = file[i]
      PROVE  RowWhole(q, file[i])'
  <2>1. PICK r : r = file[i]
    OBVIOUS
  <2>2. RowFits(q, r) /\ RowWhole(q, r) /\ r.first \in Nat /\ r.last \in Nat
    BY <1>0, <1>5, <2>1, RowTypes DEF WInv, OInv, RowsAt, RowsWhole
  <2>3. RowWhole(q, r)'
    BY <1>4, <2>2
  <2> QED
    BY <1>5, <2>1, <2>3 DEF RowWhole
<1>6. ASSUME WriteRow(p) PROVE RowWhole(p, HandRow(p))'
  <2>1. /\ UNCHANGED <<tap, got, cut, frame>> /\ Logging(p) /\ tap # "closed" /\ Running
    BY <1>6 DEF WriteRow, At, Logging
  <2>2. Alive
    BY <1>0, <2>1 DEF Alive, IInv, TypeOK, TapStates, Running
  <2>3. HandAt(p) /\ CutAt(p) /\ ForwardedAt(p)
    BY <1>0, PumpFacts DEF WInv, OInv
  <2>4. Boundary(p, frame[p].first - 1)
    BY <2>1, <2>3 DEF CutAt
  <2>5. CASE frame[p].then = "parse"
    <3>1. Yielded(sent[p], frame[p].first - 1, frame[p].last)
      BY <2>1, <2>3, <2>5 DEF HandAt
    <3> QED
      BY <1>1, <1>2, <2>1, <2>4, <3>1 DEF RowWhole, HandRow
  <2>6. CASE frame[p].then # "parse"
    <3>1. frame[p].last = got[p] /\ frame[p].first = cut[p] + 1 /\ cut[p] \in Nat /\ got[p] \in Nat
      BY <1>0, <2>1, <2>3, <2>6, HandTypes DEF ForwardedAt
    <3>2. frame[p].first <= frame[p].last
      BY <2>1, <2>3 DEF HandAt
    <3>3. CutShort(p)
      BY <2>1, <2>2, <2>3, <2>6, <3>1, <3>2 DEF CutAt
    <3> QED
      BY <1>2, <2>1, <2>4, <3>1, <3>3 DEF RowWhole, HandRow
  <2> QED
    BY <2>5, <2>6
<1>7. ASSUME NEW q \in Pumps PROVE RowsWhole(q)'
  <2> SUFFICES ASSUME NEW i \in 1..Len(file'), RowOf(q, i)' PROVE RowWhole(q, file[i])'
    BY DEF RowsWhole
  <2>1. CASE file' = file
    BY <1>5, <2>1 DEF RowOf
  <2>2. CASE WriteRow(p)
    <3>1. /\ Len(file') = Len(file) + 1 /\ Len(file) \in Nat
          /\ \A k \in 1..Len(file) : file'[k] = file[k]
          /\ file'[Len(file) + 1] = HandRow(p) /\ HandRow(p)' = HandRow(p)
      BY <1>0, <2>2, WriteFacts
    <3>2. CASE i \in 1..Len(file)
      BY <1>5, <3>1, <3>2 DEF RowOf
    <3>3. CASE i = Len(file) + 1
      <4>1. q = p /\ file'[i] = HandRow(p)'
        BY <3>1, <3>3 DEF RowOf, HandRow
      <4> QED
        BY <1>6, <2>2, <4>1
    <3> QED
      BY <3>1, <3>2, <3>3
  <2> QED
    BY <1>0, <2>1, <2>2, PumpFrame
<1> QED
  BY <1>3, <1>7 DEF WInv

LEMMA WholeInit == Init => \A p \in Pumps : Framed(p) /\ CutAt(p) /\ RowsWhole(p)
<1> SUFFICES ASSUME Init, NEW p \in Pumps PROVE Framed(p) /\ CutAt(p) /\ RowsWhole(p)
  OBVIOUS
<1>1. /\ sent[p] = <<>> /\ ends[p] = <<>> /\ cut[p] = 0 /\ pc[p] = "idle" /\ file = <<>>
  BY DEF Init
<1>2. Len(sent[p]) = 0 /\ Len(ends[p]) = 0 /\ Len(file) = 0
  BY <1>1
<1>3. \A o : PartsEnd(ends[p], o) <=> o = 0
  BY <1>2 DEF PartsEnd
<1>4. Framed(p)
  BY <1>2, <1>3 DEF Framed, FrameByFrame
<1>5. CutAt(p) /\ RowsWhole(p)
  BY <1>1, <1>2 DEF CutAt, Logging, Boundary, RowsWhole
<1> QED
  BY <1>4, <1>5

LEMMA WholeStep == WholePayloads /\ WInv /\ [Next]_vars => WInv'
<1> SUFFICES ASSUME WholePayloads, WInv, [Next]_vars PROVE WInv'
  OBVIOUS
<1>1. OInv'
  BY OrderStep DEF WInv
<1>2. ASSUME NEW e \in Ends, Reset(e) PROVE WInv'
  <2>1. PICK c \in Conns : TRUE
    BY DEF Ends
  <2> QED
    BY <1>1, <1>2, <2>1, WholePeers
<1>3. ASSUME NEW c \in Conns, PeerMove(c) PROVE WInv'
  BY <1>1, <1>3, WholePeers
<1> QED
  BY <1>1, <1>2, <1>3, WholePumps, WholeStop DEF Next, PeerMove

\* If each write of the peers is one well-formed frame, every row is exactly one
\* of those frames, however the bytes were split or joined on the way, except the
\* last row of a stream that a reset cut short.
THEOREM Segmentation == WholePayloads => (Spec => []FramesSurviveSegmentation)
<1>1. WInv => FramesSurviveSegmentation
  <2> SUFFICES ASSUME WInv, NEW i \in 1..Len(file), NEW p, p = file[i].pump
               PROVE  /\ Boundary(p, file[i].first - 1)
                      /\ \/ WholeFrame(sent[p], file[i].first - 1, file[i].last)
                            /\ Boundary(p, file[i].last)
                         \/ file[i].last = got[p] /\ pc[p] \in {"flush", "shut", "done"}
                            /\ {Source(p), Dest(p)} \cap gone # {}
    BY DEF FramesSurviveSegmentation
  <2>1. IInv /\ p \in Pumps /\ RowOf(p, i) /\ file[i].first \in Nat /\ file[i].last \in Nat
    BY RowTypes DEF WInv, OInv, RowOf
  <2>2. RowFits(p, file[i]) /\ RowWhole(p, file[i]) /\ Framed(p)
    BY <2>1 DEF WInv, OInv, RowsAt, RowsWhole
  <2>3. CASE Yielded(sent[p], file[i].first - 1, file[i].last)
    <3>1. PICK a, b : a = file[i].first - 1 /\ b = file[i].last
      OBVIOUS
    <3>2. /\ sent[p] \in Seq(Nat) /\ Len(sent[p]) \in Nat
          /\ a \in Nat /\ b \in 0..Len(sent[p])
      BY <2>1, <2>2, <3>1, PumpFacts DEF RowFits
    <3>3. PartsEnd(ends[p], a)
      BY <2>2, <3>1 DEF RowWhole, Boundary, PartsEnd
    <3>4. ~BadHeader(sent[p], a, b) /\ (WholeFrame(sent[p], a, b)
                                          => PartsEnd(ends[p], a + Total(sent[p], a)))
      BY <2>2, <3>2, <3>3, NextFrame DEF Framed
    <3>5. WholeFrame(sent[p], a, b) /\ PartsEnd(ends[p], b)
      BY <2>3, <3>1, <3>4 DEF Yielded
    <3> QED
      BY <2>2, <3>1, <3>5 DEF RowWhole, Boundary, PartsEnd
  <2>4. CASE ~Yielded(sent[p], file[i].first - 1, file[i].last)
    BY <2>2, <2>4 DEF RowWhole, RowFits, CutShort
  <2> QED
    BY <2>3, <2>4
<1>2. Init => WInv
  BY OrderInit, WholeInit DEF WInv
<1> SUFFICES ASSUME WholePayloads PROVE Spec => []FramesSurviveSegmentation
  OBVIOUS
<1>3. WInv /\ [Next]_vars => WInv'
  BY WholeStep
<1> QED
  BY <1>1, <1>2, <1>3, PTL DEF Spec
=============================================================================
