--------------------------- MODULE LabelingProofs ---------------------------
(* What the labeler's exit status and its match by bytes promise, for any    *)
(* plans of the scripts, any bytes and captures of any length.               *)
EXTENDS Labeling, FiniteSetTheorems, SequenceTheorems, WellFoundedInduction,
        TLAPS

----------------------------------------------------------------------------
(* The invariant.                                                          *)

Senders == Attacks \cup {"benign", "unknown"}
AttackPorts == {OwnPort[a] : a \in Attacks} \cup {HmiPort}

\* No two scripts of a run have one port.
PortInv ==
  /\ hmi_port \in {HmiPort, NOPORT}
  /\ port \in [Attacks -> AttackPorts \cup {NOPORT}]
  /\ \A a \in Attacks : port[a] \in {OwnPort[a], HmiPort, NOPORT}
  /\ \A a, b \in Attacks : port[a] = port[b] /\ port[a] # NOPORT => a = b

\* A script has a port before it logs a packet.
LogInv ==
  /\ script \in [Attacks -> {"todo", "running", "over"}]
  /\ packets \in [Attacks -> Seq(Packets)]
  /\ \A a \in Attacks : /\ script[a] = "todo" => port[a] = NOPORT
                        /\ script[a] = "running" => port[a] # NOPORT
                        /\ port[a] = NOPORT => packets[a] = <<>>

\* A row of script a is one of the packets it logged, or was cut off.
SentBy(a, r) ==
  /\ r.client_port = port[a]
  /\ port[a] # NOPORT
  /\ r.at \in 1..Len(packets[a])
  /\ r.raw_hex \in {Garbled, packets[a][r.at].raw_hex}

Rows == [direction : {"req", "resp"}, client_port : AttackPorts \cup {StrangerPort},
         raw_hex : Bytes \cup {Garbled}, inside : BOOLEAN, by : Senders, at : Nat]
RowOK(r) ==
  /\ r.by \in Attacks => SentBy(r.by, r)
  /\ r.by = "benign" => r.client_port = HmiPort
  /\ r.by = "unknown" => r.client_port = StrangerPort

\* The i-th row is a request of script a.  A script's requests are in the capture
\* in the order of its log.
Request(i, a) == capture[i].direction = "req" /\ capture[i].by = a
CaptureInv ==
  /\ capture \in Seq(Rows)
  /\ \A i \in 1..Len(capture) : RowOK(capture[i])
  /\ \A i, j \in 1..Len(capture), a \in Attacks :
       Request(i, a) /\ Request(j, a) /\ i < j => capture[i].at < capture[j].at

RunInv == PortInv /\ LogInv /\ CaptureInv

LabelNames == Senders \cup {"replay_seed", "cover", "response", "unmatched"}

\* The rows read so far; how many packets of script a are matched or lost.
Read == 1..Len(labels)
Off(a) == Len(packets[a]) - Len(pending[port[a]])

\* Each queue is what follows these in the log.
QueueInv ==
  /\ labels \in Seq(LabelNames)
  /\ Len(labels) <= Len(capture)
  /\ lost \in Nat
  /\ DOMAIN pending = {port[a] : a \in Attacks}
  /\ NOPORT \in DOMAIN pending => pending[NOPORT] = <<>>
  /\ \A a \in Attacks : port[a] # NOPORT =>
       /\ Off(a) \in 0..Len(packets[a])
       /\ pending[port[a]] = SubSeq(packets[a], Off(a) + 1, Len(packets[a]))

OnPort(r) == r.direction = "req" /\ \E a \in Attacks : r.client_port = port[a]
TrueAt(i) == labels[i] = TrueLabel(capture[i])
OthersTrue ==
  \A i \in Read : ~OnPort(capture[i]) =>
    TrueAt(i) \/ (capture[i].direction = "req" /\ labels[i] = "unknown")

\* Of a script whose packets differ, what is unread is still in the queue.
MatchedOnce(a) ==
  \A i \in 1..Len(capture) : Request(i, a) /\ capture[i].raw_hex # Garbled =>
    IF i \in Read THEN TrueAt(i) ELSE capture[i].at > Off(a)

\* As long as nothing is skipped or unmatched, either all is well or a row has run
\* ahead of the queue, whose last packets will then be left over.
Clean == lost = 0 /\ \A i \in Read : labels[i] # "unmatched"
Exact(a) ==
  /\ \A i \in Read : Request(i, a) => TrueAt(i)
  /\ \A m \in 1..Off(a) : \E i \in Read :
       Request(i, a) /\ capture[i].at = m /\ capture[i].raw_hex = packets[a][m].raw_hex
Surplus(a) == \E i \in Read : Request(i, a) /\ capture[i].at > Off(a)

\* On a port shared with the operator, a request of its has used up a packet of the
\* queue, and the script's last request will be unmatched.
Foreign == \E i \in Read : capture[i].direction = "req" /\ capture[i].by = "benign"
Shared(a) ==
  /\ \A i \in Read : Request(i, a) => capture[i].at <= Off(a)
  /\ Foreign => /\ Off(a) >= 1
                /\ \A i \in Read : Request(i, a) => capture[i].at < Off(a)
  /\ ~Foreign => /\ \A i \in Read : Request(i, a) => TrueAt(i)
                 /\ Off(a) = 0 \/ \E i \in Read : Request(i, a) /\ capture[i].at = Off(a)

ScriptInv(a) ==
  /\ port[a] \notin {NOPORT, HmiPort} /\ Distinct(a) => MatchedOnce(a)
  /\ port[a] \notin {NOPORT, HmiPort} /\ Clean => Exact(a) \/ Surplus(a)
  /\ port[a] = HmiPort /\ Clean /\ NothingLost => Shared(a)
LabelInv == QueueInv /\ OthersTrue /\ \A a \in Attacks : ScriptInv(a)

\* What exit status 0 means for the counts.
ExitInv ==
  /\ Clean
  /\ Len(labels) = Len(capture)
  /\ \A p \in DOMAIN pending : pending[p] = <<>>
  /\ \A i \in Read : labels[i] # "unknown"

LInv ==
  /\ phase \in {"run", "label", "scored", "refused"}
  /\ RunInv
  /\ phase = "run" => labels = <<>> /\ lost = 0
  /\ phase # "run" => LabelInv
  /\ phase = "scored" => ExitInv

----------------------------------------------------------------------------
(* The scenario.                                                           *)

USE DEF NOPORT

\* The ports are different ones, and none is no port.
LEMMA Ports ==
  /\ HmiPort # NOPORT /\ HmiPort # StrangerPort /\ StrangerPort # NOPORT
  /\ \A a \in Attacks : OwnPort[a] \notin {NOPORT, HmiPort, StrangerPort}
  /\ \A a, b \in Attacks : OwnPort[a] = OwnPort[b] => a = b
<1>1. \A a \in Attacks : OwnPort[a] \in Range(OwnPort)
  BY PortsAssumption DEF Range
<1> QED
  BY <1>1, PortsAssumption

\* What a script sends is a whole frame.
LEMMA Plans ==
  /\ Garbled \notin Bytes
  /\ plan \in [Attacks -> Seq(Packets)]
BY PlansAssumption DEF plan

\* Before the scenario starts.
LEMMA InitRun ==
  ASSUME Init
  PROVE  RunInv
<1>1. PortInv
  BY DEF Init, PortInv
<1>2. LogInv
  BY DEF Init, LogInv
<1>3. CaptureInv
  BY DEF Init, CaptureInv
<1> QED
  BY <1>1, <1>2, <1>3 DEF RunInv

\* What was a row of a script stays one.
RowsKept == \A a \in Attacks, r \in Rows : SentBy(a, r) => SentBy(a, r)'

\* A step that adds no row.
LEMMA KeepRows ==
  ASSUME CaptureInv, RowsKept, UNCHANGED capture
  PROVE  CaptureInv'
<1>1. \A i \in 1..Len(capture) : capture[i] \in Rows /\ RowOK(capture[i])
  BY DEF CaptureInv
<1>2. \A r \in Rows : RowOK(r) => RowOK(r)'
  BY DEF RowOK, RowsKept
<1>3. \A i \in 1..Len(capture') : RowOK(capture[i])'
  BY <1>1, <1>2
<1> QED
  BY <1>3 DEF CaptureInv, Request

LEMMA AddRow ==
  ASSUME CaptureInv, RowsKept, NEW r \in Rows, RowOK(r)', Capture(r),
         \A i \in 1..Len(capture) : r.direction = "req" /\ r.by \in Attacks /\ Request(i, r.by)
           => capture[i].at < r.at
  PROVE  CaptureInv'
<1> DEFINE n == Len(capture) + 1
<1>1. capture \in Seq(Rows) /\ n \in Nat
  BY DEF CaptureInv
<1>2. /\ capture' \in Seq(Rows) /\ Len(capture') = n /\ capture'[n] = r
      /\ \A i \in 1..Len(capture) : capture'[i] = capture[i]
      /\ \A i \in 1..Len(capture') : i \in 1..Len(capture) \/ i = n
  BY <1>1 DEF Capture
<1>3. \A q \in Rows : RowOK(q) => RowOK(q)'
  BY DEF RowOK, RowsKept
<1>4. \A i \in 1..Len(capture) : capture[i] \in Rows /\ RowOK(capture[i])
  BY DEF CaptureInv
<1>5. \A i \in 1..Len(capture') : RowOK(capture[i])'
  <2> SUFFICES ASSUME NEW i \in 1..Len(capture') PROVE RowOK(capture[i])'
    OBVIOUS
  <2>1. PICK q \in Rows : q = capture'[i] /\ RowOK(q)'
    BY <1>2, <1>3, <1>4
  <2> QED
    BY <2>1 DEF RowOK, SentBy
<1>6. ASSUME NEW i \in 1..Len(capture'), NEW j \in 1..Len(capture'), NEW a \in Attacks,
             Request(i, a)', Request(j, a)', i < j
      PROVE  capture'[i].at < capture'[j].at
  <2>1. i \in 1..Len(capture) /\ capture'[i] = capture[i]
    BY <1>1, <1>2, <1>6
  <2>2. Request(i, a)
    BY <1>6, <2>1 DEF Request
  <2>3. CASE j = n
    BY <1>2, <1>6, <2>1, <2>2, <2>3 DEF Request
  <2>4. CASE j # n
    BY <1>2, <1>6, <2>1, <2>2, <2>4 DEF Request, CaptureInv
  <2> QED
    BY <2>3, <2>4
<1> QED
  BY <1>2, <1>5, <1>6 DEF CaptureInv

\* A log only grows.
LEMMA LogPacket ==
  ASSUME RunInv, NEW a \in Attacks, script[a] = "running", NEW rec \in Packets,
         packets' = [packets EXCEPT ![a] = Append(@, rec)],
         script' \in {script, [script EXCEPT ![a] = "over"]},
         UNCHANGED <<hmi_port, port>>
  PROVE  PortInv' /\ LogInv' /\ RowsKept
<1>1. PortInv'
  BY DEF RunInv, PortInv
<1>2. /\ packets' \in [Attacks -> Seq(Packets)]
      /\ Len(packets'[a]) = Len(packets[a]) + 1
      /\ \A i \in 1..Len(packets[a]) : packets'[a][i] = packets[a][i]
      /\ \A b \in Attacks \ {a} : packets'[b] = packets[b]
  BY DEF RunInv, LogInv
<1>3. LogInv'
  BY <1>2 DEF RunInv, LogInv
<1>4. \A b \in Attacks : Len(packets[b]) \in Nat /\ Len(packets'[b]) \in Nat
  BY <1>2 DEF RunInv, LogInv
<1>5. \A b \in Attacks : \A i \in 1..Len(packets[b]) :
         i \in 1..Len(packets'[b]) /\ packets'[b][i] = packets[b][i]
  BY <1>2, <1>4
<1>6. RowsKept
  BY <1>5 DEF RowsKept, SentBy
<1> QED
  BY <1>1, <1>3, <1>6

\* A script that starts has a port of its own, and no row yet.
LEMMA StartScriptRun ==
  ASSUME RunInv, NEW a \in Attacks, StartScript(a)
  PROVE  RunInv'
<1>1. script[a] = "todo" /\ port[a] = NOPORT /\ packets[a] = <<>>
  BY DEF StartScript, RunInv, LogInv
<1>2. CASE UNCHANGED port /\ script' = [script EXCEPT ![a] = "over"]
  <2>1. PortInv'
    BY <1>2 DEF StartScript, RunInv, PortInv
  <2>2. LogInv'
    BY <1>1, <1>2 DEF StartScript, RunInv, LogInv
  <2>3. RowsKept
    BY <1>2 DEF StartScript, RowsKept, SentBy
  <2> QED
    BY <2>1, <2>2, <2>3, KeepRows DEF RunInv, StartScript
<1>3. ASSUME NEW p \in PortsFor(a), port' = [port EXCEPT ![a] = p],
             script' = [script EXCEPT ![a] = "running"]
      PROVE  RunInv'
  <2>1. p \in {OwnPort[a], HmiPort} /\ p \in AttackPorts /\ p # NOPORT
    BY Ports DEF PortsFor, AttackPorts
  <2>2. \A b \in Attacks : port[b] # p
    <3>1. CASE p = OwnPort[a]
      BY <1>1, <3>1, Ports DEF RunInv, PortInv
    <3>2. CASE p = HmiPort
      <4>1. HmiPort \notin Range(port)
        BY <3>2, Ports DEF PortsFor
      <4> QED
        BY <3>2, <4>1 DEF RunInv, PortInv, Range
    <3> QED
      BY <2>1, <3>1, <3>2
  <2>3. PortInv'
    BY <1>3, <2>1, <2>2 DEF StartScript, RunInv, PortInv
  <2>4. LogInv'
    BY <1>1, <1>3, <2>1 DEF StartScript, RunInv, LogInv, PortInv
  <2>5. RowsKept
    BY <1>1, <1>3 DEF StartScript, RowsKept, SentBy, RunInv, PortInv
  <2> QED
    BY <2>3, <2>4, <2>5, KeepRows DEF RunInv, StartScript
<1> QED
  BY <1>2, <1>3 DEF StartScript

\* The packet is logged, and then its row is captured.
LEMMA SendPacketRun ==
  ASSUME RunInv, NEW a \in Attacks, SendPacket(a)
  PROVE  RunInv'
<1> DEFINE at0 == Len(packets[a]) + 1
           rec0 == plan[a][at0]
<1>1. PICK at \in Nat \ {0}, rec \in Packets : at = at0 /\ rec = rec0
  <2>1. plan[a] \in Seq(Packets)
    BY Plans
  <2>2. Len(packets[a]) \in Nat /\ Len(packets[a]) < Len(plan[a])
    BY DEF SendPacket, RunInv, LogInv
  <2>3. at0 \in 1..Len(plan[a])
    BY <2>1, <2>2
  <2> QED
    BY <2>1, <2>3
<1>2. /\ packets' = [packets EXCEPT ![a] = Append(@, rec)]
      /\ script' \in {script, [script EXCEPT ![a] = "over"]}
      /\ script[a] = "running"
      /\ UNCHANGED <<hmi_port, port>>
      /\ \/ \E inside \in BOOLEAN, b \in {rec.raw_hex, Garbled} :
              Capture(Row("req", port[a], b, inside, a, at))
         \/ UNCHANGED capture
  BY <1>1 DEF SendPacket
<1>3. PortInv' /\ LogInv' /\ RowsKept
  BY <1>2, LogPacket
<1>4. port[a] \in AttackPorts /\ port[a] # NOPORT
  BY <1>2 DEF RunInv, PortInv, LogInv
<1>5. at \in 1..Len(packets'[a]) /\ packets'[a][at] = rec
  BY <1>1, <1>2 DEF RunInv, LogInv
<1>6. ASSUME NEW inside \in BOOLEAN, NEW b \in {rec.raw_hex, Garbled},
             Capture(Row("req", port[a], b, inside, a, at))
      PROVE  CaptureInv'
  <2> DEFINE r == Row("req", port[a], b, inside, a, at)
  <2>1. r \in Rows
    BY <1>1, <1>4 DEF Rows, Row, Packets, Senders
  <2>2. PICK q \in Rows : q = r
    BY <2>1
  <2>3. q.direction = "req" /\ q.by = a /\ q.at = at /\ q.client_port = port[a] /\ q.raw_hex = b
    BY <2>2 DEF Row
  <2>4. RowOK(q)'
    BY <1>2, <1>4, <1>5, <2>3 DEF RowOK, SentBy, Attacks
  <2>5. ASSUME NEW i \in 1..Len(capture), Request(i, a) PROVE capture[i].at < at
    <3>1. SentBy(a, capture[i])
      BY <2>5 DEF RunInv, CaptureInv, Request, RowOK
    <3>2. Len(packets[a]) \in Nat
      BY DEF RunInv, LogInv
    <3> QED
      BY <1>1, <3>1, <3>2 DEF SentBy
  <2>6. Capture(q)
    BY <1>6, <2>2
  <2> HIDE DEF r
  <2> QED
    BY <1>3, <2>3, <2>4, <2>5, <2>6, AddRow DEF RunInv
<1> QED
  BY <1>2, <1>3, <1>6, KeepRows DEF RunInv

\* A script that ends leaves its port, log and rows.
LEMMA EndScriptRun ==
  ASSUME RunInv, NEW a \in Attacks, EndScript(a)
  PROVE  RunInv'
<1>1. PortInv' /\ LogInv'
  BY DEF EndScript, RunInv, PortInv, LogInv
<1>2. RowsKept
  BY DEF EndScript, RowsKept, SentBy
<1> QED
  BY <1>1, <1>2, KeepRows DEF RunInv, EndScript

\* The operator's and the stranger's rows.
LEMMA SendBenignRun ==
  ASSUME RunInv, NEW b \in Bytes,
         NEW by \in {"benign", "unknown"}, NEW p, p = IF by = "benign" THEN HmiPort ELSE StrangerPort,
         SendBenign(by, p, b)
  PROVE  RunInv'
<1> DEFINE r == Row("req", p, b, \E a \in Attacks : port[a] = p /\ script[a] = "running", by, 0)
<1>1. r \in Rows
  BY DEF Rows, Row, Senders, AttackPorts
<1>2. PICK q \in Rows : q = r
  BY <1>1
<1>3. q.by = by /\ q.client_port = p /\ by \notin Attacks
  BY <1>2 DEF Row, Attacks
<1>4. RowOK(q)'
  BY <1>3 DEF RowOK
<1>5. Capture(q)
  BY <1>2 DEF SendBenign
<1> HIDE DEF r
<1>6. RowsKept
  BY DEF SendBenign, RowsKept, SentBy
<1>7. CaptureInv'
  BY <1>3, <1>4, <1>5, <1>6, AddRow DEF RunInv
<1> QED
  BY <1>7 DEF SendBenign, RunInv, PortInv, LogInv

\* A reply's row is its request's, but for the direction.
LEMMA AnswerRun ==
  ASSUME RunInv, Answer
  PROVE  RunInv'
<1> DEFINE n == Len(capture)
           r == [capture[n] EXCEPT !.direction = "resp"]
<1>1. n \in 1..Len(capture) /\ capture[n] \in Rows /\ RowOK(capture[n]) /\ Last(capture) = capture[n]
  BY DEF Answer, RunInv, CaptureInv, Last
<1>2. r \in Rows
  BY <1>1 DEF Rows
<1>3. PICK q \in Rows : q = r
  BY <1>2
<1>4. PICK o \in Rows : o = capture[n] /\ RowOK(o)
  BY <1>1
<1>5. /\ q.direction = "resp" /\ q.by = o.by /\ q.client_port = o.client_port
      /\ q.at = o.at /\ q.raw_hex = o.raw_hex
  BY <1>3, <1>4 DEF Rows
<1>6. RowOK(q)'
  BY <1>4, <1>5 DEF Answer, RowOK, SentBy
<1>7. Capture(q)
  BY <1>1, <1>3 DEF Answer
<1> HIDE DEF r, n
<1>8. RowsKept
  BY DEF Answer, RowsKept, SentBy
<1>9. CaptureInv'
  BY <1>5, <1>6, <1>7, <1>8, AddRow DEF RunInv
<1> QED
  BY <1>9 DEF Answer, RunInv, PortInv, LogInv

----------------------------------------------------------------------------
(* The labeler.                                                            *)

\* The labeler's map of ports is the scripts' own.
LEMMA Roles ==
  ASSUME RunInv
  PROVE  /\ \A a \in Attacks : port[a] # NOPORT => RoleOf(port[a]) = a
         /\ \A p : (\A a \in Attacks : port[a] # p) =>
              RoleOf(p) = (IF p = hmi_port THEN "benign" ELSE "unknown") /\ RoleOf(p) \notin Attacks
<1>1. ASSUME NEW a \in Attacks, port[a] # NOPORT PROVE RoleOf(port[a]) = a
  <2>1. \A b \in Attacks : port[b] = port[a] => b = a
    BY <1>1 DEF RunInv, PortInv
  <2> QED
    BY <2>1 DEF RoleOf
<1>2. ASSUME NEW p, \A a \in Attacks : port[a] # p
      PROVE  RoleOf(p) = (IF p = hmi_port THEN "benign" ELSE "unknown") /\ RoleOf(p) \notin Attacks
  BY <1>2 DEF RoleOf, Attacks
<1> QED
  BY <1>1, <1>2

\* Min of SequencesExt, on natural numbers.
LEMMA MinOf ==
  ASSUME NEW S, S \subseteq Nat, S # {}
  PROVE  Min(S) \in S /\ \A y \in S : Min(S) <= y
<1>1. PICK x \in S : \A y \in S : ~(<<y, x>> \in OpToRel(<, Nat))
  BY NatLessThanWellFounded, WFMin
<1>2. ASSUME NEW y \in S PROVE x <= y
  <2>1. x \in Nat /\ y \in Nat /\ <<y, x>> \in Nat \X Nat
    OBVIOUS
  <2>2. <<y, x>>[1] = y /\ <<y, x>>[2] = x
    OBVIOUS
  <2>3. <<y, x>> \notin {ss \in Nat \X Nat : ss[1] < ss[2]}
    BY <1>1, Zenon DEF OpToRel
  <2>4. ~(<<y, x>>[1] < <<y, x>>[2])
    BY <2>1, <2>3, Zenon
  <2> QED
    BY <2>1, <2>2, <2>4
<1>3. \E z \in S : \A y \in S : z <= y
  BY <1>2
<1> QED
  BY <1>3, Zenon DEF Min

\* The queue is searched from its head.
LEMMA HitFirst ==
  ASSUME queue \in Seq(Packets)
  PROVE  /\ Hit \in 0..Len(queue)
         /\ Hit # 0 => queue[Hit].raw_hex = row.raw_hex
         /\ \A j \in 1..Len(queue) : Hit = 0 \/ j < Hit => queue[j].raw_hex # row.raw_hex
<1> DEFINE I == {i \in 1..Len(queue) : queue[i].raw_hex = row.raw_hex}
<1>1. Hit = IF I # {} THEN Min(I) ELSE 0
  BY DEF Hit, SelectInSeq
<1>2. I \subseteq Nat /\ Len(queue) \in Nat
  OBVIOUS
<1>3. CASE I = {}
  <2>1. \A j \in 1..Len(queue) : queue[j].raw_hex # row.raw_hex
    BY <1>3
  <2> QED
    BY <1>1, <1>2, <1>3, <2>1
<1>4. CASE I # {}
  <2>1. Min(I) \in I /\ \A y \in I : Min(I) <= y
    BY <1>2, <1>4, MinOf
  <2>2. Hit = Min(I)
    BY <1>1, <1>4
  <2>3. Hit \in I /\ \A y \in I : Hit <= y
    BY <2>1, <2>2
  <2>4. Hit \in 1..Len(queue) /\ queue[Hit].raw_hex = row.raw_hex
    BY <2>3
  <2> HIDE DEF I
  <2>5. ASSUME NEW j \in 1..Len(queue), j < Hit PROVE queue[j].raw_hex # row.raw_hex
    BY <2>3, <2>4, <2>5 DEF I
  <2> QED
    BY <2>4, <2>5
<1> QED
  BY <1>3, <1>4

\* The queues are the logs.
LEMMA ReadManifestLabel ==
  ASSUME RunInv, labels = <<>>, lost = 0, ReadManifest
  PROVE  RunInv' /\ LabelInv'
<1>1. RunInv' /\ labels' = <<>> /\ lost' = 0 /\ Read' = {} /\ Len(labels') = 0
  BY DEF ReadManifest, runVars, RunInv, PortInv, LogInv, CaptureInv, RowOK, SentBy, Request, Read
<1>2. /\ DOMAIN pending' = {port'[a] : a \in Attacks}
      /\ NOPORT \in DOMAIN pending' => pending'[NOPORT] = <<>>
      /\ \A a \in Attacks : port[a] # NOPORT => pending'[port[a]] = packets[a]
  BY Roles DEF ReadManifest, runVars
<1>3. ASSUME NEW a \in Attacks, port[a] # NOPORT
      PROVE  /\ Off(a)' = 0 /\ Len(packets'[a]) \in Nat
             /\ pending'[port'[a]] = SubSeq(packets'[a], 0 + 1, Len(packets'[a]))
  <2>1. port'[a] = port[a] /\ packets'[a] = packets[a] /\ packets[a] \in Seq(Packets)
    BY DEF ReadManifest, runVars, RunInv, LogInv
  <2>2. pending'[port'[a]] = packets[a]
    BY <1>2, <1>3, <2>1
  <2>3. SubSeq(packets[a], 1, Len(packets[a])) = packets[a]
    BY <2>1
  <2> QED
    BY <2>1, <2>2, <2>3 DEF Off
<1>4. QueueInv'
  <2>1. \A a \in Attacks : port'[a] # NOPORT =>
          /\ Off(a)' \in 0..Len(packets'[a])
          /\ pending'[port'[a]] = SubSeq(packets'[a], Off(a)' + 1, Len(packets'[a]))
    BY <1>3 DEF ReadManifest, runVars
  <2>2. Len(capture') \in Nat
    BY <1>1 DEF RunInv, CaptureInv
  <2> QED
    BY <1>1, <1>2, <2>1, <2>2 DEF QueueInv
<1>5. ASSUME NEW a \in Attacks PROVE ScriptInv(a)'
  <2>1. port'[a] # NOPORT => Off(a)' = 0
    BY <1>3 DEF ReadManifest, runVars
  <2>2. port'[a] # NOPORT => \A i \in 1..Len(capture') : Request(i, a)' => capture'[i].at > 0
    <3>1. ASSUME NEW i \in 1..Len(capture'), Request(i, a)' PROVE capture'[i].at > 0
      <4>1. PICK c : c = capture'
        OBVIOUS
      <4>2. SentBy(a, c[i])'
        BY <1>1, <3>1, <4>1 DEF RunInv, CaptureInv, RowOK, Request, SentBy
      <4>3. Len(packets'[a]) \in Nat
        BY <1>1 DEF RunInv, LogInv
      <4> QED
        BY <4>1, <4>2, <4>3 DEF SentBy
    <3> QED
      BY <3>1
  <2>3. port'[a] # NOPORT => MatchedOnce(a)'
    BY <1>1, <2>1, <2>2 DEF MatchedOnce
  <2>4. port'[a] # NOPORT => Exact(a)' /\ Shared(a)'
    BY <1>1, <2>1 DEF Exact, Shared, Foreign
  <2> QED
    BY <2>3, <2>4, Ports DEF ScriptInv
<1> QED
  BY <1>1, <1>4, <1>5 DEF LabelInv, OthersTrue

\* The n-th row has got the label l.
NewRow(n, l) ==
  /\ n \in 1..Len(capture) /\ n \notin Read
  /\ capture[n] = row /\ capture[n] \in Rows /\ RowOK(capture[n])
  /\ labels' \in Seq(LabelNames) /\ Len(labels') = n /\ labels'[n] = l
  /\ Read' = Read \cup {n}
  /\ \A i \in Read : i \in 1..Len(capture) /\ i < n /\ labels'[i] = labels[i] /\ (TrueAt(i)' <=> TrueAt(i))
  /\ \A i \in 1..Len(capture) : (i < n => i \in Read) /\ (i \notin Read' => i > n)

LEMMA LabelRow ==
  ASSUME RunInv, QueueInv, Reading, UNCHANGED runVars, NEW l \in LabelNames, Label(l)
  PROVE  NewRow(Len(labels) + 1, l)
<1> DEFINE k == Len(labels) + 1
<1>1. PICK n \in Nat : n = k
  BY DEF QueueInv
<1>2. /\ Len(labels) \in Nat /\ Len(capture) \in Nat /\ Len(labels) < Len(capture)
      /\ n \in 1..Len(capture)
  BY <1>1 DEF Reading, QueueInv, RunInv, CaptureInv
<1>3. capture[n] = row /\ capture[n] \in Rows /\ RowOK(capture[n])
  BY <1>1, <1>2 DEF row, RunInv, CaptureInv
<1>4. /\ labels' \in Seq(LabelNames) /\ Len(labels') = n /\ labels'[n] = l
      /\ \A i \in Read : labels'[i] = labels[i]
  <2>1. labels' = Append(labels, l) /\ labels \in Seq(LabelNames)
    BY DEF QueueInv, Label
  <2>2. Append(labels, l) \in Seq(LabelNames) /\ Len(Append(labels, l)) = n
    BY <1>1, <2>1
  <2>3. Append(labels, l)[n] = l
    BY <1>1, <2>1
  <2>4. \A i \in 1..Len(labels) : Append(labels, l)[i] = labels[i]
    BY <2>1
  <2> QED
    BY <2>1, <2>2, <2>3, <2>4 DEF Read
<1>5. \A i \in Read : TrueAt(i)' <=> TrueAt(i)
  BY <1>4 DEF runVars, TrueAt, TrueLabel
<1>6. Read = 1..n-1 /\ Read' = 1..n
  BY <1>1, <1>2, <1>4 DEF Read
<1> HIDE DEF k
<1>7. NewRow(n, l)
  BY <1>2, <1>3, <1>4, <1>5, <1>6 DEF NewRow
<1> QED
  BY <1>1, <1>7 DEF k

\* The labeler changes nothing of the run.
LEMMA RunStays ==
  ASSUME RunInv, UNCHANGED runVars
  PROVE  RunInv'
BY DEF runVars, RunInv, PortInv, LogInv, CaptureInv, RowOK, SentBy, Request

\* A row that is not on the port of script b, whose queue stays.
LEMMA OthersRow ==
  ASSUME RunInv, LabelInv, UNCHANGED runVars, NEW n, NEW l \in LabelNames, NewRow(n, l),
         NEW b \in Attacks,
         port[b] # NOPORT => /\ Off(b)' = Off(b)
                             /\ ~(capture[n].direction = "req" /\ capture[n].client_port = port[b]),
         lost' = 0 => lost = 0
  PROVE  ScriptInv(b)'
<1>1. port[b] # NOPORT => ~Request(n, b)
  BY DEF NewRow, RowOK, SentBy, Request
<1>2. \A i : Request(i, b)' <=> Request(i, b)
  BY DEF runVars, Request
<1>3. Clean' => Clean
  BY DEF NewRow, Clean
<1>4. (Distinct(b)' <=> Distinct(b)) /\ (NothingLost' <=> NothingLost)
  BY DEF runVars, Distinct, NothingLost, Whole
<1>5. ASSUME port[b] \notin {NOPORT, HmiPort}, Distinct(b) PROVE MatchedOnce(b)'
  <2>1. MatchedOnce(b)
    BY <1>5 DEF LabelInv, ScriptInv
  <2> QED
    BY <1>1, <1>2, <1>5, <2>1 DEF MatchedOnce, NewRow, runVars
<1>6. ASSUME port[b] \notin {NOPORT, HmiPort}, Clean PROVE Exact(b)' \/ Surplus(b)'
  <2>1. CASE Exact(b)
    BY <1>1, <1>2, <1>6, <2>1 DEF Exact, NewRow, runVars
  <2>2. CASE Surplus(b)
    BY <1>1, <1>2, <1>6, <2>2 DEF Surplus, NewRow, runVars
  <2> QED
    BY <1>6, <2>1, <2>2 DEF LabelInv, ScriptInv
<1>7. ASSUME port[b] = HmiPort, Clean, NothingLost PROVE Shared(b)'
  <2>1. Shared(b) /\ HmiPort # NOPORT
    BY <1>7, Ports DEF LabelInv, ScriptInv
  <2>2. Foreign' <=> Foreign
    BY <1>7, <2>1 DEF Foreign, NewRow, RowOK, runVars
  <2>3. \A i \in Read' : Request(i, b)' => i \in Read /\ Request(i, b)
    BY <1>1, <1>2, <1>7, <2>1 DEF NewRow
  <2>4. Off(b)' = Off(b) /\ capture' = capture /\ Read \subseteq Read'
    BY <1>7, <2>1 DEF NewRow, runVars
  <2> QED
    BY <1>2, <2>1, <2>2, <2>3, <2>4 DEF Shared, NewRow
<1> QED
  BY <1>3, <1>4, <1>5, <1>6, <1>7 DEF ScriptInv, runVars

\* Rows of other ports get a label and touch no queue.
LEMMA LabelOtherInv ==
  ASSUME RunInv, LabelInv, LabelOther
  PROVE  LabelInv'
<1> DEFINE l == IF row.direction = "resp" THEN "response" ELSE RoleOf(row.client_port)
<1>1. RunInv /\ LabelInv /\ QueueInv /\ OthersTrue /\ Reading /\ UNCHANGED runVars /\ Label(l)
      /\ pending' = pending /\ lost' = lost
  BY DEF LabelOther, LabelInv
<1>2. \A a \in Attacks : ~(row.direction = "req" /\ row.client_port = port[a] /\ port[a] # NOPORT)
  BY Roles DEF LabelOther, OnAttackPort
<1>3. row \in Rows
  BY <1>1 DEF Reading, row, RunInv, CaptureInv, QueueInv
<1>4. row.client_port # NOPORT /\ ~OnPort(row)
  BY <1>2, <1>3, Ports DEF Rows, OnPort, AttackPorts
<1>5. \/ row.direction = "resp" /\ l = "response"
      \/ row.direction = "req" /\ l = (IF row.client_port = hmi_port THEN "benign" ELSE "unknown")
  BY <1>3, <1>4, Roles DEF Rows, OnPort
<1>6. PICK n \in Nat, m \in LabelNames : n = Len(labels) + 1 /\ m = l
  <2>1. l \in LabelNames
    BY <1>5 DEF LabelNames, Senders
  <2> HIDE DEF l
  <2> QED
    BY <1>1, <2>1 DEF QueueInv
<1> HIDE DEF l
<1>7. NewRow(n, m)
  BY <1>1, <1>6, LabelRow
<1>8. QueueInv'
  <2>1. \A a \in Attacks : Off(a)' = Off(a)
    BY <1>1 DEF Off, runVars
  <2>2. labels' \in Seq(LabelNames) /\ Len(labels') <= Len(capture) /\ lost' \in Nat
    BY <1>1, <1>6, <1>7 DEF QueueInv, NewRow, RunInv, CaptureInv
  <2>3. /\ port' = port /\ packets' = packets /\ pending' = pending /\ capture' = capture
        /\ QueueInv
    BY <1>1 DEF runVars
  <2> HIDE <1>1
  <2> QED
    BY <2>1, <2>2, <2>3 DEF QueueInv
<1>9. ~OnPort(capture[n]) /\ capture[n] = row
  BY <1>4, <1>7 DEF NewRow
<1>10. TrueAt(n)' \/ (capture[n].direction = "req" /\ labels'[n] = "unknown")
  <2>1. labels'[n] = m /\ RowOK(capture[n]) /\ capture'[n] = capture[n] /\ capture[n] \in Rows
    BY <1>1, <1>7 DEF NewRow, runVars
  <2>2. CASE row.direction = "resp"
    BY <1>5, <1>6, <1>9, <2>1, <2>2 DEF TrueAt, TrueLabel
  <2>3. CASE row.direction = "req" /\ row.client_port = hmi_port
    <3>1. row.by = "benign"
      BY <1>1, <1>4, <1>9, <2>1, <2>3, Ports
        DEF RowOK, SentBy, OnPort, RunInv, PortInv, Rows, Senders
    <3> QED
      BY <1>5, <1>6, <1>9, <2>1, <2>3, <3>1 DEF TrueAt, TrueLabel, Attacks
  <2>4. CASE row.direction = "req" /\ row.client_port # hmi_port
    BY <1>5, <1>6, <1>9, <2>1, <2>4
  <2> QED
    BY <1>3, <2>2, <2>3, <2>4 DEF Rows
<1>11. OthersTrue'
  <2>1. ASSUME NEW i \in Read', ~OnPort(capture[i])
        PROVE  TrueAt(i)' \/ (capture[i].direction = "req" /\ labels'[i] = "unknown")
    BY <1>1, <1>7, <1>10, <2>1 DEF OthersTrue, NewRow
  <2> QED
    BY <1>1, <2>1 DEF OthersTrue, OnPort, runVars
<1>12. ASSUME NEW b \in Attacks PROVE ScriptInv(b)'
  <2>1. Off(b)' = Off(b)
    BY <1>1 DEF Off, runVars
  <2>2. port[b] # NOPORT => ~(capture[n].direction = "req" /\ capture[n].client_port = port[b])
    BY <1>2, <1>9
  <2> QED
    BY <1>1, <1>7, <2>1, <2>2, OthersRow
<1> QED
  BY <1>8, <1>11, <1>12 DEF LabelInv

\* A queue is its log from some packet on ...
LEMMA Suffix ==
  ASSUME NEW s \in Seq(Packets), NEW off \in 0..Len(s), NEW q, q = SubSeq(s, off + 1, Len(s))
  PROVE  /\ q \in Seq(Packets) /\ Len(q) = Len(s) - off
         /\ \A j \in 1..Len(q) : q[j] = s[off + j]
<1>1. Len(s) \in Nat /\ off \in Nat /\ off <= Len(s)
  OBVIOUS
<1>2. \A i \in off + 1..Len(s) : s[i] \in Packets
  BY <1>1
<1>3. /\ q \in Seq(Packets)
      /\ Len(q) = IF off + 1 <= Len(s) THEN Len(s) - (off + 1) + 1 ELSE 0
      /\ \A i \in 1..Len(s) - (off + 1) + 1 : q[i] = s[(off + 1) + i - 1]
  BY <1>1, <1>2, SubSeqProperties
<1>4. Len(q) = Len(s) - off
  BY <1>1, <1>3
<1>5. ASSUME NEW j \in 1..Len(q) PROVE q[j] = s[off + j]
  <2>1. j \in 1..Len(s) - (off + 1) + 1 /\ (off + 1) + j - 1 = off + j
    BY <1>1, <1>4
  <2> QED
    BY <1>3, <2>1
<1> QED
  BY <1>3, <1>4, <1>5

\* ... and still is when its first packets are taken off.
LEMMA SuffixOfSuffix ==
  ASSUME NEW s \in Seq(Packets), NEW off \in 0..Len(s), NEW q, q = SubSeq(s, off + 1, Len(s)),
         NEW h \in 1..Len(q)
  PROVE  /\ SubSeq(q, h + 1, Len(q)) = SubSeq(s, off + h + 1, Len(s))
         /\ Len(SubSeq(q, h + 1, Len(q))) = Len(s) - (off + h)
<1>1. /\ Len(s) \in Nat /\ off \in Nat /\ off <= Len(s)
      /\ q \in Seq(Packets) /\ Len(q) = Len(s) - off /\ \A j \in 1..Len(q) : q[j] = s[off + j]
  BY Suffix
<1>2. PICK r : r = SubSeq(q, h + 1, Len(q))
  OBVIOUS
<1>3. PICK t : t = SubSeq(s, off + h + 1, Len(s))
  OBVIOUS
<1>4. r \in Seq(Packets) /\ Len(r) = Len(q) - h /\ \A j \in 1..Len(r) : r[j] = q[h + j]
  BY <1>1, <1>2, Suffix
<1>5. /\ off + h \in 0..Len(s) /\ t = SubSeq(s, (off + h) + 1, Len(s))
  BY <1>1, <1>3
<1>6. t \in Seq(Packets) /\ Len(t) = Len(s) - (off + h) /\ \A j \in 1..Len(t) : t[j] = s[(off + h) + j]
  BY <1>5, Suffix
<1>7. Len(r) = Len(t)
  BY <1>1, <1>4, <1>6
<1>8. \A j \in 1..Len(r) : r[j] = t[j]
  <2>1. \A j \in 1..Len(r) : h + j \in 1..Len(q) /\ off + (h + j) = (off + h) + j
    BY <1>1, <1>4
  <2>2. ASSUME NEW j \in 1..Len(r) PROVE r[j] = t[j]
    <3>1. h + j \in 1..Len(q) /\ off + (h + j) = (off + h) + j
      BY <2>1
    <3>2. r[j] = q[h + j] /\ q[h + j] = s[off + (h + j)]
      BY <1>1, <1>4, <3>1
    <3>3. t[j] = s[(off + h) + j]
      BY <1>6, <1>7
    <3> QED
      BY <3>1, <3>2, <3>3
  <2> QED
    BY <2>2
<1>9. r = t
  BY <1>4, <1>6, <1>7, <1>8, SeqEqual
<1> QED
  BY <1>2, <1>3, <1>6, <1>9

\* Row n is on script a's port, whose queue is its log from Off(a) + 1.
OwnRow(n, a) ==
  /\ n = Len(labels) + 1 /\ capture[n] = row /\ capture[n] \in Rows
  /\ capture[n].direction = "req" /\ capture[n].client_port = port[a]
  /\ port[a] # NOPORT /\ RoleOf(row.client_port) = a
  /\ \A b \in Attacks \ {a} : port[b] # port[a]
  /\ packets[a] \in Seq(Packets) /\ Off(a) \in 0..Len(packets[a])
  /\ queue = SubSeq(packets[a], Off(a) + 1, Len(packets[a]))
  /\ queue \in Seq(Packets) /\ Len(queue) = Len(packets[a]) - Off(a)
  /\ \A j \in 1..Len(queue) : queue[j] = packets[a][Off(a) + j]

\* The row belongs to the port of one script.
LEMMA RowOnPort ==
  ASSUME RunInv, QueueInv, Reading, OnAttackPort
  PROVE  \E a \in Attacks : OwnRow(Len(labels) + 1, a)
<1>1. /\ capture[Len(labels) + 1] = row /\ row \in Rows /\ row.client_port # NOPORT
      /\ row.direction = "req"
  <2>1. capture[Len(labels) + 1] = row /\ row \in Rows /\ row.direction = "req"
    BY DEF Reading, row, RunInv, CaptureInv, QueueInv, OnAttackPort
  <2>2. row.client_port \in AttackPorts \cup {StrangerPort}
    BY <2>1 DEF Rows
  <2> QED
    BY <2>1, <2>2, Ports DEF AttackPorts
<1>2. PICK a \in Attacks : port[a] = row.client_port
  BY Roles DEF OnAttackPort
<1>3. /\ port[a] # NOPORT /\ RoleOf(row.client_port) = a
      /\ \A b \in Attacks \ {a} : port[b] # port[a]
  BY <1>1, <1>2, Roles DEF RunInv, PortInv
<1>4. packets[a] \in Seq(Packets) /\ Off(a) \in 0..Len(packets[a])
  BY <1>3 DEF RunInv, LogInv, QueueInv
<1>5. queue = SubSeq(packets[a], Off(a) + 1, Len(packets[a]))
  BY <1>2, <1>3 DEF queue, QueueInv
<1>6. /\ queue \in Seq(Packets) /\ Len(queue) = Len(packets[a]) - Off(a)
      /\ \A j \in 1..Len(queue) : queue[j] = packets[a][Off(a) + j]
  BY <1>4, <1>5, Suffix
<1>7. row.client_port = port[a]
  BY <1>2
<1> QED
  BY <1>1, <1>3, <1>4, <1>5, <1>6, <1>7 DEF OwnRow

\* Row n is matched with the at-th packet of script a's log.
Match(n, a, at) ==
  /\ at \in 1..Len(packets[a]) /\ at > Off(a) /\ Off(a)' = at
  /\ capture[n].raw_hex = packets[a][at].raw_hex
  /\ \A m \in 1..Len(packets[a]) : Off(a) < m /\ m < at =>
       packets[a][m].raw_hex # capture[n].raw_hex
  /\ QueueInv'
  /\ \A b \in Attacks \ {a} : Off(b)' = Off(b)
  /\ lost' = lost + (at - Off(a) - 1)
  /\ lost' = 0 => lost = 0 /\ at = Off(a) + 1

\* LabelHit is a match with a packet that is still in the queue.
LEMMA LabelHitMatch ==
  ASSUME RunInv, LabelInv, LabelHit
  PROVE  \E n \in Nat, a \in Attacks, at \in Nat, l \in LabelNames :
           OwnRow(n, a) /\ NewRow(n, l) /\ Match(n, a, at) /\ l = LabelOf(packets[a][at])
<1>1. /\ QueueInv /\ Reading /\ OnAttackPort /\ UNCHANGED runVars /\ Hit # 0
      /\ Label(LabelOf(queue[Hit]))
      /\ pending' = [pending EXCEPT ![row.client_port] = SubSeq(@, Hit + 1, Len(@))]
      /\ lost' = lost + Skipped
  BY DEF LabelHit, LabelInv
<1>2. PICK n \in Nat, a \in Attacks : n = Len(labels) + 1 /\ OwnRow(n, a)
  BY <1>1, RowOnPort DEF QueueInv
<1>3. PICK q : q = queue
  OBVIOUS
<1>4. PICK off : off = Off(a)
  OBVIOUS
<1>5. PICK log : log = packets[a]
  OBVIOUS
<1>6. /\ q \in Seq(Packets) /\ log \in Seq(Packets) /\ Len(log) \in Nat
      /\ off \in 0..Len(log) /\ Len(q) = Len(log) - off
      /\ \A j \in 1..Len(q) : q[j] = log[off + j]
      /\ q = SubSeq(log, off + 1, Len(log))
  BY <1>2, <1>3, <1>4, <1>5 DEF OwnRow
<1>7. PICK h \in 1..Len(q) : /\ h = Hit /\ q[h].raw_hex = row.raw_hex
                            /\ \A j \in 1..Len(q) : j < h => q[j].raw_hex # row.raw_hex
  <2>1. queue \in Seq(Packets)
    BY <1>3, <1>6
  <2>2. /\ Hit \in 1..Len(queue) /\ queue[Hit].raw_hex = row.raw_hex
        /\ \A j \in 1..Len(queue) : j < Hit => queue[j].raw_hex # row.raw_hex
    BY <1>1, <2>1, HitFirst
  <2> QED
    BY <1>3, <2>2
<1>8. PICK at \in Nat : at = off + h
  BY <1>3, <1>6, <1>7
<1>9. /\ at \in 1..Len(log) /\ at > off /\ log[at] = q[h] /\ log[at].raw_hex = row.raw_hex
      /\ \A m \in 1..Len(log) : off < m /\ m < at => log[m].raw_hex # row.raw_hex
  <2>1. at \in 1..Len(log) /\ at > off /\ log[at] = q[h]
    BY <1>3, <1>6, <1>7, <1>8
  <2>2. ASSUME NEW m \in 1..Len(log), off < m, m < at PROVE log[m].raw_hex # row.raw_hex
    <3>1. m - off \in 1..Len(q) /\ m - off < h /\ off + (m - off) = m
      BY <1>3, <1>6, <1>7, <1>8, <2>2
    <3> QED
      BY <1>6, <1>7, <3>1
  <2> QED
    BY <1>7, <2>1, <2>2
<1>10. /\ SubSeq(q, h + 1, Len(q)) = SubSeq(log, at + 1, Len(log))
      /\ Len(SubSeq(q, h + 1, Len(q))) = Len(log) - at
  BY <1>6, <1>7, <1>8, SuffixOfSuffix
<1>11. PICK p : p = row.client_port
  OBVIOUS
<1>12. /\ p = port[a] /\ p # NOPORT /\ p \in DOMAIN pending /\ q = pending[p]
       /\ \A b \in Attacks \ {a} : port[b] # p
  BY <1>1, <1>2, <1>3, <1>11 DEF OwnRow, queue, QueueInv
<1>13. /\ pending'[p] = SubSeq(log, at + 1, Len(log)) /\ DOMAIN pending' = DOMAIN pending
       /\ \A b \in DOMAIN pending \ {p} : pending'[b] = pending[b]
  BY <1>1, <1>3, <1>7, <1>10, <1>11, <1>12
<1>14. Off(a)' = at /\ \A b \in Attacks \ {a} : Off(b)' = Off(b)
  <2>1. /\ packets' = packets /\ port' = port
        /\ \A b \in Attacks \ {a} : port[b] \in DOMAIN pending \ {p}
    BY <1>1, <1>12 DEF runVars, QueueInv
  <2>2. \A b \in Attacks \ {a} : Off(b)' = Off(b)
    BY <1>13, <2>1 DEF Off
  <2>3. Len(pending'[p]) = Len(log) - at
    BY <1>10, <1>13
  <2>4. Off(a)' = Len(log) - (Len(log) - at)
    BY <1>5, <1>12, <2>1, <2>3 DEF Off
  <2>5. Off(a)' = at
    BY <1>6, <1>8, <2>4
  <2> QED
    BY <2>2, <2>5
<1>15. PICK l \in LabelNames : l = LabelOf(log[at])
  <2>1. log[at] \in Packets /\ RoleOf(row.client_port) \in Attacks
    BY <1>2, <1>6, <1>9 DEF OwnRow
  <2> QED
    BY <2>1 DEF LabelOf, Packets, LabelNames, Senders
<1>16. NewRow(n, l)
  <2>1. queue[Hit] = log[at]
    BY <1>3, <1>7, <1>9
  <2>2. Label(l)
    BY <1>1, <1>15, <2>1
  <2> QED
    BY <1>1, <1>2, <2>2, LabelRow
<1>17. /\ lost' \in Nat /\ lost' = lost + (at - off - 1)
       /\ lost' = 0 => lost = 0 /\ at = off + 1
  <2>1. lost' = lost + (h - 1) /\ lost \in Nat /\ h \in Nat /\ h > 0 /\ off \in Nat /\ at = off + h
    BY <1>1, <1>6, <1>7, <1>8 DEF QueueInv, Skipped
  <2> HIDE <1>1, <1>2
  <2> QED
    BY <2>1
<1>18. QueueInv'
  <2>1. labels' \in Seq(LabelNames) /\ Len(labels') <= Len(capture)
    BY <1>16 DEF NewRow, RunInv, CaptureInv
  <2>2. port' = port /\ packets' = packets /\ capture' = capture
    BY <1>1 DEF runVars
  <2>3. \A b \in Attacks : port[b] # NOPORT =>
          /\ Off(b)' \in 0..Len(packets[b])
          /\ pending'[port[b]] = SubSeq(packets[b], Off(b)' + 1, Len(packets[b]))
    <3> SUFFICES ASSUME NEW b \in Attacks, port[b] # NOPORT
                 PROVE  /\ Off(b)' \in 0..Len(packets[b])
                        /\ pending'[port[b]] = SubSeq(packets[b], Off(b)' + 1, Len(packets[b]))
      OBVIOUS
    <3>1. CASE b = a
      BY <1>5, <1>9, <1>12, <1>13, <1>14, <3>1
    <3>2. CASE b # a
      <4>1. port[b] \in DOMAIN pending \ {p}
        BY <1>1, <1>12, <3>2 DEF QueueInv
      <4>2. pending'[port[b]] = pending[port[b]] /\ Off(b)' = Off(b)
        BY <1>13, <1>14, <3>2, <4>1
      <4> QED
        BY <1>1, <4>2 DEF QueueInv
    <3> QED
      BY <3>1, <3>2
  <2>4. DOMAIN pending' = {port[b] : b \in Attacks} /\ (NOPORT \in DOMAIN pending' => pending'[NOPORT] = <<>>)
    BY <1>1, <1>12, <1>13 DEF QueueInv
  <2> QED
    BY <1>17, <2>1, <2>2, <2>3, <2>4 DEF QueueInv
<1>19. Match(n, a, at)
  BY <1>2, <1>4, <1>5, <1>9, <1>14, <1>17, <1>18 DEF Match, OwnRow
<1> QED
  BY <1>2, <1>5, <1>15, <1>16, <1>19

\* The queue of the row's script.
LEMMA OwnMatched ==
  ASSUME RunInv, LabelInv, UNCHANGED runVars, NEW n \in Nat, NEW a \in Attacks, NEW at \in Nat,
         NEW l \in LabelNames, OwnRow(n, a), NewRow(n, l), Match(n, a, at), l = LabelOf(packets[a][at])
  PROVE  ScriptInv(a)'
<1>1. /\ \A i : Request(i, a)' <=> Request(i, a)
      /\ (Distinct(a)' <=> Distinct(a)) /\ (NothingLost' <=> NothingLost)
      /\ capture' = capture /\ packets' = packets /\ port' = port
  BY DEF runVars, Request, Distinct, NothingLost, Whole
<1>2. Clean' => Clean /\ at = Off(a) + 1
  BY DEF NewRow, Clean, Match
<1>3. /\ Len(packets[a]) \in Nat /\ Off(a) \in Nat /\ Off(a) <= Len(packets[a])
      /\ Off(a)' = at /\ at \in 1..Len(packets[a]) /\ Off(a) < at
  BY DEF OwnRow, Match
<1>4. packets[a][at] \in Packets /\ packets[a][at].raw_hex \in Bytes
  <2>1. packets[a][at] \in Packets
    BY <1>3, ElementOfSeq DEF OwnRow
  <2> QED
    BY <2>1 DEF Packets
<1>5. capture[n].by \in Attacks => Request(n, a) /\ capture[n].by = a
  BY DEF OwnRow, NewRow, RowOK, SentBy, Request
<1>6. Request(n, a) => /\ capture[n].at \in 1..Len(packets[a])
                       /\ capture[n].raw_hex = packets[a][capture[n].at].raw_hex
  BY <1>4, Plans DEF NewRow, RowOK, SentBy, Request, Match
<1>7. Request(n, a) /\ capture[n].at = at => TrueAt(n)'
  <2>1. ASSUME Request(n, a), capture[n].at = at PROVE TrueAt(n)'
    <3>1. /\ labels'[n] = l /\ RoleOf(row.client_port) = a /\ packets[a][at] \in Packets
          /\ capture'[n] = capture[n]
      BY <1>1, <1>3 DEF NewRow, OwnRow
    <3>2. TrueLabel(capture[n]) = LabelOf(packets[a][at])
      <4>1. PICK rec \in Packets : rec = packets[a][at]
        BY <3>1
      <4>2. TrueLabel(capture[n]) = CASE rec.kind = "seed" -> "replay_seed"
                                      [] rec.kind = "cover" -> "cover" [] OTHER -> a
        BY <2>1, <4>1 DEF TrueLabel, Request
      <4>3. LabelOf(rec) = CASE rec.kind = "seed" -> "replay_seed" [] rec.kind = "cover" -> "cover"
                             [] rec.kind = "attack" -> a
        BY <3>1 DEF LabelOf
      <4>4. rec.kind \in {"seed", "attack", "cover"}
        BY DEF Packets
      <4> QED
        BY <4>1, <4>2, <4>3, <4>4
    <3>3. TrueAt(n)' <=> labels'[n] = TrueLabel(capture[n])
      BY <1>1 DEF TrueAt, TrueLabel
    <3> QED
      BY <3>1, <3>2, <3>3
  <2> QED
    BY <2>1
\* The rows of the script that were read, and are yet to be, lie on either side.
<1>8. /\ \A i \in Read : Request(i, a) /\ Request(n, a) => capture[i].at < capture[n].at
      /\ \A i \in 1..Len(capture) : i \notin Read' /\ Request(i, a) /\ Request(n, a) =>
           capture[n].at < capture[i].at
  BY DEF NewRow, RunInv, CaptureInv
<1>9. port[a] # HmiPort => Request(n, a)
  <2> SUFFICES ASSUME port[a] # HmiPort PROVE capture[n].by \in Attacks
    BY <1>5
  <2>1. port[a] = OwnPort[a] /\ capture[n].client_port = port[a]
    BY DEF OwnRow, RunInv, PortInv
  <2>2. capture[n].client_port \notin {HmiPort, StrangerPort}
    BY <2>1, Ports
  <2>3. capture[n].by \in Senders /\ RowOK(capture[n])
    BY DEF NewRow, Rows
  <2> QED
    BY <2>2, <2>3 DEF RowOK, Senders
<1>10. ASSUME port[a] \notin {NOPORT, HmiPort}, Distinct(a) PROVE MatchedOnce(a)'
  <2>1. MatchedOnce(a) /\ Request(n, a)
    BY <1>9, <1>10 DEF LabelInv, ScriptInv
  <2>2. capture[n].raw_hex # Garbled /\ n \in 1..Len(capture) /\ n \notin Read
    BY <1>4, Plans DEF NewRow, Match
  <2>3. capture[n].at = at
    BY <1>3, <1>6, <1>10, <2>1 DEF Distinct, Match
  <2>4. ASSUME NEW i \in 1..Len(capture), Request(i, a), capture[i].raw_hex # Garbled
        PROVE  IF i \in Read' THEN TrueAt(i)' ELSE capture[i].at > at
    <3>1. CASE i \in Read
      BY <2>1, <2>4, <3>1 DEF MatchedOnce, NewRow
    <3>2. CASE i = n
      BY <1>7, <2>1, <2>3, <3>2 DEF NewRow
    <3>3. CASE i \notin Read'
      <4>1. i \in 1..Len(capture) /\ SentBy(a, capture[i])
        BY <2>4 DEF RunInv, CaptureInv, RowOK, Request
      <4> QED
        BY <1>3, <1>8, <2>1, <2>3, <2>4, <3>3, <4>1 DEF SentBy
    <3> QED
      BY <3>1, <3>2, <3>3 DEF NewRow
  <2> QED
    BY <1>1, <1>3, <2>4 DEF MatchedOnce
<1>11. \A i \in Read : Request(i, a) => capture[i].at \in 1..Len(packets[a])
  BY DEF NewRow, RunInv, CaptureInv, RowOK, SentBy, Request
<1>12. /\ n \in Read' /\ Read \subseteq Read'
       /\ \A i \in Read' : i \in Read \/ i = n
       /\ \A i \in Read : TrueAt(i)' <=> TrueAt(i)
  BY DEF NewRow
<1>13. ASSUME port[a] \notin {NOPORT, HmiPort}, Clean' PROVE Exact(a)' \/ Surplus(a)'
  <2>1. Request(n, a) /\ at = Off(a) + 1 /\ (Exact(a) \/ Surplus(a))
    BY <1>2, <1>9, <1>13 DEF LabelInv, ScriptInv
  <2>2. CASE \E i \in Read : Request(i, a) /\ capture[i].at > Off(a)
    <3>1. capture[n].at > at
      BY <1>3, <1>6, <1>8, <1>11, <2>1, <2>2
    <3> QED
      BY <1>1, <1>3, <1>12, <2>1, <3>1 DEF Surplus
  <2>3. CASE Exact(a) /\ capture[n].at > at
    BY <1>1, <1>3, <1>12, <2>1, <2>3 DEF Surplus
  <2>4. CASE Exact(a) /\ capture[n].at <= at
    <3>1. capture[n].at >= at
      <4>1. CASE capture[n].at \in 1..Off(a)
        <5>1. \E i \in Read : Request(i, a) /\ capture[i].at = capture[n].at
          BY <2>4, <4>1 DEF Exact
        <5> QED
          BY <1>6, <1>8, <1>11, <2>1, <5>1
      <4> QED
        BY <1>3, <1>6, <2>1, <4>1
    <3>2. capture[n].at = at
      BY <1>3, <1>6, <2>1, <2>4, <3>1
    <3>3. \A i \in Read' : Request(i, a) => TrueAt(i)'
      BY <1>7, <1>12, <2>1, <2>4, <3>2 DEF Exact
    <3>4. ASSUME NEW m \in 1..at
          PROVE  \E i \in Read' : /\ Request(i, a) /\ capture[i].at = m
                                  /\ capture[i].raw_hex = packets[a][m].raw_hex
      <4>1. CASE m = at
        BY <1>12, <2>1, <3>2, <4>1 DEF Match
      <4>2. CASE m # at
        <5>1. m \in 1..Off(a)
          BY <1>3, <2>1, <4>2
        <5> QED
          BY <1>12, <2>4, <5>1 DEF Exact
      <4> QED
        BY <4>1, <4>2
    <3> QED
      BY <1>1, <1>3, <3>3, <3>4 DEF Exact
  <2> QED
    BY <1>3, <1>6, <2>1, <2>2, <2>3, <2>4 DEF Surplus
<1>14. ASSUME port[a] = HmiPort, Clean', NothingLost PROVE Shared(a)'
  <2>1. at = Off(a) + 1 /\ Shared(a)
    BY <1>2, <1>14 DEF LabelInv, ScriptInv
  <2>2. \A m \in 1..Len(packets[a]) : \E i \in 1..Len(capture) : Request(i, a) /\ capture[i].at = m
    BY <1>14 DEF NothingLost, Whole, Request
  \* A packet whose request is still unread comes after this row's.
  <2>3. ASSUME NEW m \in 1..Len(packets[a]), Request(n, a),
               \A i \in Read : Request(i, a) => capture[i].at # m
        PROVE  capture[n].at <= m
    <3>1. PICK i \in 1..Len(capture) : Request(i, a) /\ capture[i].at = m
      BY <2>2
    <3>2. i = n \/ i \notin Read'
      BY <1>12, <2>3, <3>1
    <3> QED
      BY <1>6, <1>8, <2>3, <3>1, <3>2
  <2>4. Request(n, a) => capture[n].at <= at
    <3>1. \A i \in Read : Request(i, a) => capture[i].at # at
      BY <1>3, <1>11, <2>1 DEF Shared
    <3> QED
      BY <1>3, <2>3, <3>1
  <2>5. \A i \in Read' : Request(i, a) => capture[i].at <= at
    BY <1>3, <1>11, <1>12, <2>1, <2>4 DEF Shared
  <2>6. Foreign' => \A i \in Read' : Request(i, a) => capture[i].at < at
    <3>1. ASSUME Foreign', NEW i \in Read', Request(i, a) PROVE capture[i].at < at
      <4>1. CASE i \in Read
        BY <1>3, <1>11, <2>1, <3>1, <4>1 DEF Shared
      <4>2. CASE i = n
        <5>1. Foreign
          BY <1>1, <1>5, <1>12, <3>1, <4>2 DEF Foreign, Request, Attacks
        <5>2. Off(a) >= 1 /\ \A j \in Read : Request(j, a) => capture[j].at # Off(a)
          BY <1>3, <1>11, <2>1, <5>1 DEF Shared
        <5>3. Off(a) \in 1..Len(packets[a])
          BY <1>3, <5>2
        <5>4. capture[n].at <= Off(a)
          BY <2>3, <3>1, <4>2, <5>2, <5>3
        <5> QED
          BY <1>3, <1>6, <3>1, <4>2, <5>4
      <4> QED
        BY <1>12, <4>1, <4>2
    <3> QED
      BY <3>1
  <2>7. ASSUME ~Foreign'
        PROVE  /\ \A i \in Read' : Request(i, a) => TrueAt(i)'
               /\ \E i \in Read' : Request(i, a) /\ capture[i].at = at
    <3>1. ~Foreign
      BY <1>1, <1>12, <2>7 DEF Foreign
    <3>2. Request(n, a)
      BY <1>1, <1>5, <1>12, <1>14, <2>7, Ports
        DEF Foreign, OwnRow, NewRow, RowOK, Rows, Senders
    <3>3. capture[n].at > Off(a)
      BY <1>3, <1>6, <1>8, <2>1, <3>1, <3>2 DEF Shared
    <3>4. capture[n].at = at
      BY <1>3, <1>6, <2>1, <2>4, <3>2, <3>3
    <3> QED
      BY <1>7, <1>12, <2>1, <3>1, <3>2, <3>4 DEF Shared
  <2> QED
    BY <1>1, <1>3, <2>5, <2>6, <2>7 DEF Shared
<1> QED
  BY <1>1, <1>10, <1>13, <1>14 DEF ScriptInv

\* A match keeps the invariant.
LEMMA LabelHitInv ==
  ASSUME RunInv, LabelInv, LabelHit
  PROVE  LabelInv'
<1>1. PICK n \in Nat, a \in Attacks, at \in Nat, l \in LabelNames :
        OwnRow(n, a) /\ NewRow(n, l) /\ Match(n, a, at) /\ l = LabelOf(packets[a][at])
  BY LabelHitMatch
<1>2. UNCHANGED runVars
  BY DEF LabelHit
<1>3. ScriptInv(a)'
  BY <1>1, <1>2, OwnMatched
<1>4. ASSUME NEW b \in Attacks \ {a} PROVE ScriptInv(b)'
  <2>1. Off(b)' = Off(b) /\ capture[n].client_port # port[b] /\ (lost' = 0 => lost = 0)
    BY <1>1 DEF OwnRow, Match
  <2> QED
    BY <1>1, <1>2, <2>1, OthersRow
<1>5. OthersTrue'
  <2>1. n \in Read' => OnPort(capture[n])
    BY <1>1 DEF OnPort, OwnRow
  <2>2. ASSUME NEW i \in Read', ~OnPort(capture[i])
        PROVE  TrueAt(i)' \/ (capture[i].direction = "req" /\ labels'[i] = "unknown")
    BY <1>1, <2>1, <2>2 DEF LabelInv, OthersTrue, NewRow
  <2> QED
    BY <1>2, <2>2 DEF OthersTrue, OnPort, runVars
<1> QED
  BY <1>1, <1>3, <1>4, <1>5 DEF LabelInv, Match

\* So does a row that matches nothing.
LEMMA LabelUnmatchedInv ==
  ASSUME RunInv, LabelInv, LabelUnmatched
  PROVE  LabelInv'
<1>1. /\ QueueInv /\ Reading /\ OnAttackPort /\ UNCHANGED runVars /\ Hit = 0
      /\ Label("unmatched") /\ pending' = pending /\ lost' = lost
  BY DEF LabelUnmatched, LabelInv
<1>2. PICK n \in Nat, a \in Attacks : n = Len(labels) + 1 /\ OwnRow(n, a)
  BY <1>1, RowOnPort DEF QueueInv
<1>3. NewRow(n, "unmatched")
  BY <1>1, <1>2, LabelRow DEF LabelNames
<1>4. capture' = capture /\ packets' = packets /\ port' = port
  BY <1>1 DEF runVars
<1>5. \A b \in Attacks : Off(b)' = Off(b)
  BY <1>1, <1>4 DEF Off
<1>6. QueueInv'
  <2>1. labels' \in Seq(LabelNames) /\ Len(labels') <= Len(capture)
    BY <1>3 DEF NewRow, RunInv, CaptureInv
  <2> QED
    BY <1>1, <1>4, <1>5, <2>1 DEF QueueInv
<1>7. OthersTrue'
  <2>1. OnPort(capture[n])
    BY <1>2 DEF OnPort, OwnRow
  <2>2. ASSUME NEW i \in Read', ~OnPort(capture[i])
        PROVE  TrueAt(i)' \/ (capture[i].direction = "req" /\ labels'[i] = "unknown")
    BY <1>3, <2>1, <2>2 DEF LabelInv, OthersTrue, NewRow
  <2> QED
    BY <1>4, <2>2 DEF OthersTrue, OnPort
<1>8. ASSUME NEW b \in Attacks \ {a} PROVE ScriptInv(b)'
  <2>1. capture[n].client_port # port[b]
    BY <1>2 DEF OwnRow
  <2> QED
    BY <1>1, <1>3, <1>5, <2>1, OthersRow DEF LabelNames
<1>9. ~Clean'
  BY <1>3 DEF NewRow, Clean
\* A whole row of the script would have found its packet.
<1>10. ASSUME port[a] \notin {NOPORT, HmiPort}, Distinct(a) PROVE MatchedOnce(a)'
  <2>1. MatchedOnce(a)
    BY <1>10 DEF LabelInv, ScriptInv
  <2>2. \A j \in 1..Len(queue) : queue[j].raw_hex # capture[n].raw_hex
    BY <1>1, <1>2, HitFirst DEF OwnRow
  <2>3. ~(Request(n, a) /\ capture[n].raw_hex # Garbled)
    <3> SUFFICES ASSUME Request(n, a), capture[n].raw_hex # Garbled PROVE FALSE
      OBVIOUS
    <3>1. capture[n].at > Off(a) /\ SentBy(a, capture[n])
      BY <1>3, <2>1 DEF MatchedOnce, NewRow, RowOK, Request
    <3>2. /\ capture[n].at \in 1..Len(packets[a])
          /\ capture[n].raw_hex = packets[a][capture[n].at].raw_hex
      BY <3>1 DEF SentBy
    <3>3. /\ Len(packets[a]) \in Nat /\ Off(a) \in Nat /\ Len(queue) = Len(packets[a]) - Off(a)
      BY <1>2 DEF OwnRow
    <3>4. PICK at \in Nat, j \in Nat : at = capture[n].at /\ j = at - Off(a)
      BY <3>1, <3>2, <3>3
    <3>5. j \in 1..Len(queue) /\ Off(a) + j = at
      BY <3>1, <3>2, <3>3, <3>4
    <3>6. queue[j] = packets[a][at]
      BY <1>2, <3>5 DEF OwnRow
    <3> QED
      BY <2>2, <3>2, <3>4, <3>5, <3>6
  <2> QED
    BY <1>3, <1>4, <1>5, <2>1, <2>3 DEF MatchedOnce, NewRow, Request
<1>11. ScriptInv(a)'
  BY <1>4, <1>9, <1>10 DEF ScriptInv, Distinct
<1> QED
  BY <1>6, <1>7, <1>8, <1>11 DEF LabelInv

\* Nothing left over: each queue is empty.
LEMMA NothingLeft ==
  ASSUME RunInv, QueueInv
  PROVE  /\ Unmatched \in Nat
         /\ Unmatched = 0 => \A p \in DOMAIN pending : pending[p] = <<>>
<1>1. \A p \in DOMAIN pending : pending[p] \in Seq(Packets)
  <2>1. \A a \in Attacks : port[a] # NOPORT => pending[port[a]] \in Seq(Packets)
    <3> SUFFICES ASSUME NEW a \in Attacks, port[a] # NOPORT PROVE pending[port[a]] \in Seq(Packets)
      OBVIOUS
    <3>1. packets[a] \in Seq(Packets) /\ Off(a) \in 0..Len(packets[a])
      BY DEF RunInv, LogInv, QueueInv
    <3> QED
      BY <3>1, Suffix DEF QueueInv
  <2>2. <<>> \in Seq(Packets)
    BY EmptySeq
  <2> QED
    BY <2>1, <2>2 DEF QueueInv
<1> DEFINE left(p) == {p} \X DOMAIN pending[p]
           all == UNION {left(p) : p \in DOMAIN pending}
<1>2. \A p \in DOMAIN pending : IsFiniteSet(left(p))
  <2> SUFFICES ASSUME NEW p \in DOMAIN pending PROVE IsFiniteSet(left(p))
    OBVIOUS
  <2>1. IsFiniteSet({p}) /\ IsFiniteSet(DOMAIN pending[p])
    <3>1. DOMAIN pending[p] = 1..Len(pending[p]) /\ Len(pending[p]) \in Nat
      BY <1>1, LenProperties
    <3>2. IsFiniteSet(1..Len(pending[p]))
      BY <3>1, FS_Interval
    <3>3. IsFiniteSet({p})
      BY FS_Singleton
    <3> QED
      BY <3>1, <3>2, <3>3
  <2> QED
    BY <2>1, FS_Product
<1>3. IsFiniteSet(all)
  <2>1. all = left(port["replay"]) \cup left(port["injection"])
    BY DEF QueueInv, Attacks
  <2>2. IsFiniteSet(left(port["replay"])) /\ IsFiniteSet(left(port["injection"]))
    BY <1>2 DEF QueueInv, Attacks
  <2> HIDE DEF left, all
  <2> QED
    BY <2>1, <2>2, FS_Union
<1>4. Unmatched = Cardinality(all)
  BY DEF Unmatched
<1>5. ASSUME Unmatched = 0, NEW p \in DOMAIN pending, pending[p] # <<>> PROVE FALSE
  <2>1. 1 \in DOMAIN pending[p]
    BY <1>1, <1>5, LenProperties
  <2>2. <<p, 1>> \in all
    BY <1>5, <2>1
  <2> HIDE DEF all
  <2> QED
    BY <1>3, <1>4, <1>5, <2>2, FS_EmptySet
<1> HIDE DEF all
<1> QED
  BY <1>3, <1>4, <1>5, FS_CardinalityType

\* A step of neither rows nor queues.
LEMMA LabelStays ==
  ASSUME UNCHANGED <<runVars, labels, pending, lost>>
  PROVE  (LabelInv => LabelInv') /\ (ExitInv => ExitInv')
<1>1. ASSUME LabelInv PROVE LabelInv'
  <2>1. /\ port' = port /\ packets' = packets /\ capture' = capture
        /\ labels' = labels /\ pending' = pending /\ lost' = lost
    BY DEF runVars
  <2>2. Read' = Read /\ (Clean' <=> Clean) /\ (NothingLost' <=> NothingLost) /\ (Foreign' <=> Foreign)
    BY <2>1 DEF Read, Clean, NothingLost, Whole, Foreign
  <2>3. \A i : TrueAt(i)' <=> TrueAt(i)
    BY <2>1 DEF TrueAt, TrueLabel
  <2>4. \A a, i : Request(i, a)' <=> Request(i, a)
    BY <2>1 DEF Request
  <2>5. \A a : Off(a)' = Off(a) /\ (Distinct(a)' <=> Distinct(a))
    BY <2>1 DEF Off, Distinct
  <2>6. QueueInv' /\ OthersTrue'
    BY <1>1, <2>1, <2>2, <2>3, <2>5 DEF LabelInv, QueueInv, OthersTrue, OnPort
  <2>7. ASSUME NEW a \in Attacks PROVE ScriptInv(a)'
    <3>1. MatchedOnce(a) => MatchedOnce(a)'
      BY <2>1, <2>2, <2>3, <2>4, <2>5 DEF MatchedOnce
    <3>2. (Exact(a) => Exact(a)') /\ (Surplus(a) => Surplus(a)')
      BY <2>1, <2>2, <2>3, <2>4, <2>5 DEF Exact, Surplus
    <3>3. Shared(a) => Shared(a)'
      BY <2>1, <2>2, <2>3, <2>4, <2>5 DEF Shared
    <3> QED
      BY <2>1, <2>2, <2>5, <3>1, <3>2, <3>3, <1>1 DEF LabelInv, ScriptInv
  <2> QED
    BY <2>6, <2>7 DEF LabelInv
<1>2. ExitInv => ExitInv'
  BY DEF runVars, ExitInv, Clean, Read
<1> QED
  BY <1>1, <1>2

\* The exit status is 0 only if the counts are.
LEMMA ExitExit ==
  ASSUME RunInv, LabelInv, Exit
  PROVE  LabelInv' /\ (phase' = "scored" => ExitInv')
<1>1. UNCHANGED <<runVars, labels, pending, lost>>
  BY DEF Exit
<1>2. LabelInv' /\ (ExitInv => ExitInv')
  BY <1>1, LabelStays
<1>3. ASSUME phase' = "scored" PROVE ExitInv
  <2>1. /\ ~(leftover > 0) /\ {"unmatched", "unknown"} \cap Range(labels) = {}
        /\ Len(labels) = Len(capture)
    BY <1>3 DEF Exit
  <2>2. Unmatched \in Nat /\ lost \in Nat
    BY NothingLeft DEF LabelInv, QueueInv
  <2>3. Unmatched = 0 /\ lost = 0
    BY <2>1, <2>2 DEF leftover
  <2>4. \A i \in Read : labels[i] \notin {"unmatched", "unknown"}
    <3>1. DOMAIN labels = Read
      BY LenProperties DEF LabelInv, QueueInv, Read
    <3> QED
      BY <2>1, <3>1 DEF Range
  <2> QED
    BY <2>1, <2>3, <2>4, NothingLeft DEF ExitInv, Clean, LabelInv
<1> QED
  BY <1>2, <1>3

\* LInv holds all the time.
LEMMA LInvInductive == Spec => []LInv
<1>1. Init => LInv
  BY InitRun DEF Init, LInv
<1>2. LInv /\ [Next]_vars => LInv'
  <2> SUFFICES ASSUME LInv, [Next]_vars PROVE LInv'
    OBVIOUS
  <2>1. ASSUME phase = "run", phase' = "run", RunInv', UNCHANGED labelVars PROVE LInv'
    BY <2>1 DEF LInv, labelVars
  <2>2. ASSUME phase = "label", phase' = "label", UNCHANGED runVars, LabelInv' PROVE LInv'
    BY <2>2, RunStays DEF LInv
  <2>3. CASE UNCHANGED vars
    BY <2>3, RunStays, LabelStays DEF vars, labelVars, LInv
  <2>4. ASSUME NEW a \in Attacks, StartScript(a) PROVE LInv'
    BY <2>1, <2>4, StartScriptRun DEF StartScript, LInv
  <2>5. ASSUME NEW a \in Attacks, SendPacket(a) PROVE LInv'
    BY <2>1, <2>5, SendPacketRun DEF SendPacket, LInv
  <2>6. ASSUME NEW a \in Attacks, EndScript(a) PROVE LInv'
    BY <2>1, <2>6, EndScriptRun DEF EndScript, LInv
  <2>7. ASSUME NEW b \in Bytes, SendBenign("benign", HmiPort, b) \/ SendBenign("unknown", StrangerPort, b)
        PROVE  LInv'
    <3>1. RunInv
      BY <2>7 DEF SendBenign, LInv
    <3>2. RunInv'
      BY <2>7, <3>1, SendBenignRun
    <3> QED
      BY <2>1, <2>7, <3>2 DEF SendBenign
  <2>8. CASE Answer
    BY <2>1, <2>8, AnswerRun DEF Answer, LInv
  <2>9. CASE ReadManifest
    BY <2>9, ReadManifestLabel DEF ReadManifest, LInv
  <2>10. CASE LabelOther
    BY <2>2, <2>10, LabelOtherInv DEF LabelOther, Reading, LInv
  <2>11. CASE LabelHit
    BY <2>2, <2>11, LabelHitInv DEF LabelHit, Reading, LInv
  <2>12. CASE LabelUnmatched
    BY <2>2, <2>12, LabelUnmatchedInv DEF LabelUnmatched, Reading, LInv
  <2>13. CASE Exit
    BY <2>13, ExitExit, RunStays DEF Exit, LInv
  <2> QED
    BY <2>3, <2>4, <2>5, <2>6, <2>7, <2>8, <2>9, <2>10, <2>11, <2>12, <2>13 DEF Next
<1> QED
  BY <1>1, <1>2, PTL DEF Spec

----------------------------------------------------------------------------
(* The theorems.                                                           *)

\* A packet that never reached the capture, or was cut off, costs no other packet of
\* its script its label (label_dataset.py:102-127).
THEOREM Losses == Spec => []LossCostsNoOtherLabel
<1>1. LInv => LossCostsNoOtherLabel
  <2> SUFFICES ASSUME LInv, PortsDistinct, NEW i \in 1..Len(labels),
                      capture[i].by \in Attacks, capture[i].raw_hex # Garbled, Distinct(capture[i].by)
               PROVE  TrueAt(i)
    BY DEF LossCostsNoOtherLabel, TrueAt
  <2>1. phase # "run" /\ LabelInv /\ i \in Read /\ i \in 1..Len(capture)
    BY DEF LInv, LabelInv, QueueInv, Read, RunInv, CaptureInv
  <2>2. PICK a \in Attacks : a = capture[i].by
    OBVIOUS
  <2>3. port[a] \notin {NOPORT, HmiPort} /\ capture[i] \in Rows
    BY <2>1, <2>2 DEF LInv, RunInv, CaptureInv, RowOK, SentBy, PortsDistinct
  <2>4. CASE capture[i].direction = "req"
    BY <2>1, <2>2, <2>3, <2>4 DEF LabelInv, ScriptInv, MatchedOnce, Request
  <2>5. CASE capture[i].direction # "req"
    BY <2>1, <2>5 DEF LabelInv, OthersTrue, OnPort
  <2> QED
    BY <2>4, <2>5
<1> QED
  BY <1>1, LInvInductive, PTL

\* What a scored run's queues say of each script: all its packets were captured, and
\* its rows bear their labels.
LEMMA ScoredScript ==
  ASSUME LInv, phase = "scored", NEW a \in Attacks, port[a] # NOPORT,
         port[a] = HmiPort => NothingLost
  PROVE  /\ \A i \in Read : Request(i, a) => TrueAt(i)
         /\ port[a] # HmiPort => \A k \in 1..Len(packets[a]) : Whole(a, k)
         /\ port[a] = HmiPort => ~Foreign
<1>1. LabelInv /\ ExitInv /\ RunInv
  BY DEF LInv
<1>2. Len(packets[a]) \in Nat /\ Off(a) = Len(packets[a])
  <2>1. pending[port[a]] = <<>>
    BY <1>1 DEF ExitInv, LabelInv, QueueInv
  <2> QED
    BY <1>1, <2>1 DEF Off, RunInv, LogInv
<1>3. \A i \in 1..Len(capture) : Request(i, a) => capture[i].at \in 1..Len(packets[a])
  BY <1>1 DEF RunInv, CaptureInv, RowOK, SentBy, Request
<1>4. Read = 1..Len(capture) /\ Clean
  BY <1>1 DEF ExitInv, Read
<1>5. CASE port[a] # HmiPort
  <2>1. ~Surplus(a)
    BY <1>2, <1>3, <1>4 DEF Surplus
  <2>2. Exact(a)
    BY <1>1, <1>4, <1>5, <2>1 DEF LabelInv, ScriptInv
  <2> QED
    BY <1>2, <1>4, <1>5, <2>2 DEF Exact, Whole, Request
<1>6. CASE port[a] = HmiPort
  <2>1. Shared(a) /\ NothingLost
    BY <1>1, <1>4, <1>6 DEF LabelInv, ScriptInv
  <2>2. ASSUME Foreign PROVE FALSE
    <3>1. Len(packets[a]) \in 1..Len(packets[a])
      BY <1>2, <2>1, <2>2 DEF Shared
    <3>2. PICK i \in Read : Request(i, a) /\ capture[i].at = Len(packets[a])
      BY <1>4, <2>1, <3>1 DEF NothingLost, Whole, Request
    <3> QED
      BY <1>2, <2>1, <2>2, <3>2 DEF Shared
  <2> QED
    BY <1>6, <2>1, <2>2 DEF Shared
<1> QED
  BY <1>5, <1>6

\* Exit status 0: every row bears its true label (label_dataset.py:27-32).
THEOREM TrueLabels == Spec => []ExitZeroMeansTrueLabels
<1>1. LInv => ExitZeroMeansTrueLabels
  <2> SUFFICES ASSUME LInv, phase = "scored", PortsDistinct \/ NothingLost, NEW i \in 1..Len(capture)
               PROVE  TrueAt(i)
    BY DEF ExitZeroMeansTrueLabels, TrueAt
  <2>1. /\ LabelInv /\ ExitInv /\ i \in Read /\ labels[i] # "unknown"
        /\ capture[i] \in Rows /\ RowOK(capture[i])
    BY DEF LInv, ExitInv, Read, RunInv, CaptureInv
  <2>2. CASE ~OnPort(capture[i])
    BY <2>1, <2>2 DEF LabelInv, OthersTrue
  <2>3. CASE OnPort(capture[i])
    <3>1. PICK a \in Attacks : capture[i].client_port = port[a]
      BY <2>3 DEF OnPort
    <3>2. port[a] # NOPORT
      BY <2>1, <3>1, Ports DEF Rows, AttackPorts
    <3>3. /\ \A j \in Read : Request(j, a) => TrueAt(j)
          /\ port[a] = HmiPort => ~Foreign
      BY <3>2, ScoredScript DEF PortsDistinct
    <3>4. capture[i].by \in Attacks => Request(i, a)
      BY <2>1, <2>3, <3>1, <3>2 DEF OnPort, Request, RowOK, SentBy, LInv, RunInv, PortInv
    <3>5. capture[i].by # "unknown"
      BY <2>1, <3>1, <3>2, Ports DEF RowOK, LInv, RunInv, PortInv, AttackPorts
    <3>6. capture[i].by # "benign"
      BY <2>1, <2>3, <3>1, <3>3 DEF RowOK, Foreign, OnPort
    <3> QED
      BY <2>1, <3>3, <3>4, <3>5, <3>6 DEF Rows, Senders
  <2> QED
    BY <2>2, <2>3
<1> QED
  BY <1>1, LInvInductive, PTL

\* Exit status 0: every logged packet is in the capture (label_dataset.py:27-28).
THEOREM AllCaptured == Spec => []ExitZeroMeansAllCaptured
<1>1. LInv => ExitZeroMeansAllCaptured
  <2> SUFFICES ASSUME LInv, phase = "scored", PortsDistinct, NEW a \in Attacks,
                      NEW k \in 1..Len(packets[a])
               PROVE  Whole(a, k)
    BY DEF ExitZeroMeansAllCaptured, NothingLost
  <2>1. port[a] # NOPORT
    BY DEF LInv, RunInv, LogInv
  <2> QED
    BY <2>1, ScoredScript DEF PortsDistinct
<1> QED
  BY <1>1, LInvInductive, PTL

----------------------------------------------------------------------------
(* Every packet of the log.                                                *)

\* Each packet that is no longer in a queue is a labelled row or was skipped.
Matched == {i \in Read : labels[i] \in MatchedLabels}
AccountInv == Cardinality(Matched) + lost = Off("replay") + Off("injection")

\* How much of the log is matched or lost, and how much is left.
LEMMA Offsets ==
  ASSUME RunInv, QueueInv, NEW a \in Attacks
  PROVE  /\ Off(a) \in Nat /\ Len(packets[a]) \in Nat
         /\ pending[port[a]] \in Seq(Packets) /\ Len(pending[port[a]]) \in Nat
         /\ Off(a) + Len(pending[port[a]]) = Len(packets[a])
<1>1. packets[a] \in Seq(Packets)
  BY DEF RunInv, LogInv
<1>2. CASE port[a] = NOPORT
  <2>1. pending[port[a]] = <<>> /\ packets[a] = <<>>
    BY <1>2 DEF QueueInv, RunInv, LogInv
  <2> QED
    BY <2>1, EmptySeq DEF Off
<1>3. CASE port[a] # NOPORT
  <2>1. Off(a) \in 0..Len(packets[a]) /\ pending[port[a]] = SubSeq(packets[a], Off(a) + 1, Len(packets[a]))
    BY <1>3 DEF QueueInv
  <2>2. pending[port[a]] \in Seq(Packets) /\ Len(pending[port[a]]) = Len(packets[a]) - Off(a)
    BY <1>1, <2>1, Suffix
  <2> QED
    BY <1>1, <2>1, <2>2
<1> QED
  BY <1>2, <1>3

\* The packets of one queue, as Unmatched counts them.
LEMMA QueueSize ==
  ASSUME NEW p, NEW q \in Seq(Packets)
  PROVE  IsFiniteSet({p} \X DOMAIN q) /\ Cardinality({p} \X DOMAIN q) = Len(q)
<1>1. Len(q) \in Nat /\ DOMAIN q = 1..Len(q)
  BY LenProperties
<1>2. IsFiniteSet({p}) /\ Cardinality({p}) = 1
  BY FS_Singleton
<1>3. IsFiniteSet(DOMAIN q) /\ Cardinality(DOMAIN q) = Len(q)
  BY <1>1, FS_Interval
<1>4. /\ IsFiniteSet({p} \X DOMAIN q)
      /\ Cardinality({p} \X DOMAIN q) = Cardinality({p}) * Cardinality(DOMAIN q)
  BY <1>2, <1>3, FS_Product
<1> QED
  BY <1>1, <1>2, <1>3, <1>4

LEMMA UnmatchedCount ==
  ASSUME RunInv, QueueInv
  PROVE  Unmatched = Len(pending[port["replay"]]) + Len(pending[port["injection"]])
<1> DEFINE p == port["replay"]
           q == port["injection"]
           left(r) == {r} \X DOMAIN pending[r]
<1>1. DOMAIN pending = {p, q}
  BY DEF QueueInv, Attacks
<1>2. pending[p] \in Seq(Packets) /\ pending[q] \in Seq(Packets)
  BY Offsets DEF Attacks
<1>3. /\ IsFiniteSet(left(p)) /\ Cardinality(left(p)) = Len(pending[p])
      /\ IsFiniteSet(left(q)) /\ Cardinality(left(q)) = Len(pending[q])
  BY <1>2, QueueSize
<1>4. Unmatched = Cardinality(left(p) \cup left(q))
  <2>1. UNION {left(r) : r \in DOMAIN pending} = left(p) \cup left(q)
    BY <1>1
  <2> QED
    BY <2>1 DEF Unmatched
<1>5. CASE p = q
  <2>1. p = NOPORT
    BY <1>5 DEF RunInv, PortInv, Attacks
  <2>2. Len(pending[p]) = 0
    BY <1>1, <2>1, EmptySeq DEF QueueInv
  <2>3. left(p) \cup left(q) = left(p)
    BY <1>5
  <2> HIDE DEF left, p, q
  <2>4. Unmatched = 0 /\ Len(pending[q]) = 0
    BY <1>3, <1>4, <1>5, <2>2, <2>3
  <2> QED
    BY <2>2, <2>4 DEF p, q
<1>6. CASE p # q
  <2>1. left(p) \cap left(q) = {}
    BY <1>6
  <2> HIDE DEF left, p, q
  <2>2. Cardinality(left(p) \cup left(q)) =
          Cardinality(left(p)) + Cardinality(left(q)) - Cardinality(left(p) \cap left(q))
    BY <1>3, FS_Union
  <2>3. Cardinality(left(p) \cap left(q)) = 0
    BY <2>1, FS_EmptySet
  <2>4. Len(pending[p]) \in Nat /\ Len(pending[q]) \in Nat
    BY <1>2
  <2> QED
    BY <1>3, <1>4, <2>2, <2>3, <2>4 DEF p, q
<1> QED
  BY <1>5, <1>6

\* A row that is labelled counts if its label says it was matched.
LEMMA MatchedRow ==
  ASSUME RunInv, QueueInv, NEW n, NEW l, NewRow(n, l)
  PROVE  /\ Cardinality(Matched) \in Nat
         /\ Cardinality(Matched') = Cardinality(Matched) + (IF l \in MatchedLabels THEN 1 ELSE 0)
<1>1. IsFiniteSet(Matched) /\ n \notin Matched
  <2>1. Matched \subseteq Read /\ n \notin Read /\ Len(labels) \in Nat
    BY DEF Matched, NewRow, QueueInv
  <2>2. IsFiniteSet(Read)
    BY <2>1, FS_Interval DEF Read
  <2> QED
    BY <2>1, <2>2, FS_Subset
<1>2. Matched' = IF l \in MatchedLabels THEN Matched \cup {n} ELSE Matched
  BY DEF Matched, NewRow
<1> QED
  BY <1>1, <1>2, FS_AddElement, FS_CardinalityType

LEMMA AccountInductive ==
  ASSUME LInv, phase # "run" => AccountInv, [Next]_vars
  PROVE  phase' # "run" => AccountInv'
<1> SUFFICES ASSUME phase' # "run" PROVE AccountInv'
  OBVIOUS
<1>1. RunInv /\ (phase # "run" => QueueInv /\ LabelInv)
  BY DEF LInv, LabelInv
<1>2. ASSUME UNCHANGED <<runVars, labels, pending, lost>>, phase # "run" PROVE AccountInv'
  BY <1>2 DEF runVars, AccountInv, Matched, Read, Off
<1>3. CASE ReadManifest
  <2>1. labels' = <<>> /\ lost' = 0
    BY <1>3 DEF ReadManifest, LInv
  <2>2. \A a \in Attacks : Off(a)' = 0
    <3> SUFFICES ASSUME NEW a \in Attacks PROVE Off(a)' = 0
      OBVIOUS
    <3>1. port' = port /\ packets' = packets /\ packets[a] \in Seq(Packets)
      BY <1>1, <1>3 DEF ReadManifest, runVars, RunInv, LogInv
    <3>2. pending'[port[a]] = packets[a]
      BY <1>1, <1>3, Roles DEF ReadManifest, RunInv, LogInv
    <3> QED
      BY <3>1, <3>2 DEF Off
  <2>3. Matched' = {}
    BY <2>1 DEF Matched, Read
  <2>4. Cardinality(Matched') = 0
    BY <2>3, FS_EmptySet
  <2> QED
    BY <2>1, <2>2, <2>4 DEF AccountInv, Attacks
<1>4. CASE LabelOther
  <2>1. phase # "run" /\ Reading /\ UNCHANGED <<runVars, pending, lost>>
    BY <1>4 DEF LabelOther, Reading
  <2>2. PICK l \in LabelNames : l \notin MatchedLabels /\ Label(l)
    <3>1. Label(IF row.direction = "resp" THEN "response" ELSE RoleOf(row.client_port))
      BY <1>4 DEF LabelOther
    <3>2. CASE row.direction = "resp"
      <4>1. "response" \in LabelNames \ MatchedLabels /\ Label("response")
        BY <3>1, <3>2 DEF LabelNames, MatchedLabels, Attacks
      <4> QED
        BY <4>1
    <3>3. CASE row.direction # "resp"
      <4>1. row \in Rows
        BY <1>1, <2>1 DEF Reading, row, RunInv, CaptureInv, QueueInv
      <4>2. RoleOf(row.client_port) \notin Attacks
        BY <1>4, <3>3, <4>1 DEF LabelOther, OnAttackPort, Rows
      <4>3. RoleOf(row.client_port) \in {"benign", "unknown"}
        BY <4>2 DEF RoleOf
      <4>4. {"benign", "unknown"} \subseteq LabelNames \ MatchedLabels
        BY DEF LabelNames, Senders, MatchedLabels, Attacks
      <4>5. Label(RoleOf(row.client_port))
        BY <3>1, <3>3
      <4> QED
        BY <4>3, <4>4, <4>5, Zenon
    <3> QED
      BY <3>2, <3>3
  <2>3. NewRow(Len(labels) + 1, l)
    BY <1>1, <2>1, <2>2, LabelRow
  <2>4. Cardinality(Matched') = Cardinality(Matched) /\ Cardinality(Matched) \in Nat
    BY <1>1, <2>1, <2>2, <2>3, MatchedRow
  <2>5. \A a : Off(a)' = Off(a)
    BY <2>1 DEF runVars, Off
  <2> QED
    BY <2>1, <2>4, <2>5 DEF AccountInv
<1>5. CASE LabelHit
  <2>1. phase # "run" /\ AccountInv
    BY <1>5 DEF LabelHit, Reading
  <2>2. PICK n \in Nat, a \in Attacks, at \in Nat, l \in LabelNames :
          OwnRow(n, a) /\ NewRow(n, l) /\ Match(n, a, at) /\ l = LabelOf(packets[a][at])
    BY <1>1, <1>5, <2>1, LabelHitMatch
  <2>3. l \in MatchedLabels
    <3>1. packets[a][at] \in Packets /\ RoleOf(row.client_port) \in Attacks
      BY <2>2 DEF OwnRow, Match
    <3> QED
      BY <2>2, <3>1 DEF LabelOf, Packets, MatchedLabels
  <2>4. Cardinality(Matched') = Cardinality(Matched) + 1 /\ Cardinality(Matched) \in Nat
    BY <1>1, <2>1, <2>2, <2>3, MatchedRow
  <2>5. Off(a)' = at /\ lost' = lost + (at - Off(a) - 1) /\ \A b \in Attacks \ {a} : Off(b)' = Off(b)
    BY <2>2 DEF Match
  <2>6. \A b \in Attacks : Off(b) \in Nat
    BY <1>1, <2>1, Offsets
  <2>7. lost \in Nat
    BY <1>1, <2>1 DEF QueueInv
  <2>8. a \in {"replay", "injection"}
    BY DEF Attacks
  <2>9. CASE a = "replay"
    <3>1. Off("replay")' = at /\ Off("injection")' = Off("injection")
      BY <2>5, <2>9 DEF Attacks
    <3> QED
      BY <2>1, <2>4, <2>5, <2>6, <2>7, <2>9, <3>1 DEF AccountInv, Attacks
  <2>10. CASE a = "injection"
    <3>1. Off("injection")' = at /\ Off("replay")' = Off("replay")
      BY <2>5, <2>10 DEF Attacks
    <3> QED
      BY <2>1, <2>4, <2>5, <2>6, <2>7, <2>10, <3>1 DEF AccountInv, Attacks
  <2> QED
    BY <2>8, <2>9, <2>10
<1>6. CASE LabelUnmatched
  <2>1. phase # "run" /\ Reading /\ UNCHANGED <<runVars, pending, lost>> /\ Label("unmatched")
    BY <1>6 DEF LabelUnmatched, Reading
  <2>2. NewRow(Len(labels) + 1, "unmatched")
    BY <1>1, <2>1, LabelRow DEF LabelNames
  <2>3. "unmatched" \notin MatchedLabels
    BY DEF MatchedLabels, Attacks
  <2>4. Cardinality(Matched') = Cardinality(Matched) /\ Cardinality(Matched) \in Nat
    BY <1>1, <2>1, <2>2, <2>3, MatchedRow
  <2>5. \A a : Off(a)' = Off(a)
    BY <2>1 DEF runVars, Off
  <2> QED
    BY <2>1, <2>4, <2>5 DEF AccountInv
<1>7. ASSUME phase' = phase, UNCHANGED labelVars, UNCHANGED <<runVars>> PROVE AccountInv'
  BY <1>2, <1>7 DEF labelVars
<1>8. CASE Exit
  BY <1>2, <1>8 DEF Exit
<1>9. CASE UNCHANGED vars
  BY <1>7, <1>9 DEF vars
<1>10. ASSUME phase = "run", phase' = "run" PROVE FALSE
  BY <1>10
<1> QED
  BY <1>3, <1>4, <1>5, <1>6, <1>8, <1>9, <1>10
    DEF Next, StartScript, SendPacket, EndScript, SendBenign, Answer

\* Every packet that a script logged is a labelled row, still pending or counted as
\* lost, from the labeler's first row to its exit (label_dataset.py:93-127,182-192).
THEOREM Accounted == Spec => []EveryPacketIsAccountedFor
<1> DEFINE AInv == LInv /\ (phase # "run" => AccountInv)
<1>1. Init => AInv
  BY InitRun DEF Init, LInv
<1>2. Spec => []LInv
  BY LInvInductive
<1>3. LInv /\ LInv' /\ AInv /\ [Next]_vars => AInv'
  BY AccountInductive
<1>4. AInv => EveryPacketIsAccountedFor
  <2> SUFFICES ASSUME AInv, phase # "run"
               PROVE  Len(packets["replay"]) + Len(packets["injection"])
                        = Cardinality(Matched) + leftover
    BY DEF EveryPacketIsAccountedFor, Matched, Read
  <2>1. RunInv /\ QueueInv /\ lost \in Nat /\ AccountInv
    BY DEF LInv, LabelInv, QueueInv
  <2>2. \A a \in Attacks :
          /\ Off(a) \in Nat /\ Len(packets[a]) \in Nat /\ Len(pending[port[a]]) \in Nat
          /\ Off(a) + Len(pending[port[a]]) = Len(packets[a])
    BY <2>1, Offsets
  <2>3. leftover = Len(pending[port["replay"]]) + Len(pending[port["injection"]]) + lost
    BY <2>1, UnmatchedCount DEF leftover
  <2>4. Cardinality(Matched) \in Nat
    <3>1. Matched \subseteq Read /\ IsFiniteSet(Read)
      BY <2>1, FS_Interval DEF Matched, Read, QueueInv
    <3> QED
      BY <3>1, FS_Subset, FS_CardinalityType
  <2> HIDE DEF AInv
  <2>5. Cardinality(Matched) + lost = Off("replay") + Off("injection")
    BY <2>1 DEF AccountInv
  <2>6. PICK r \in Nat, i \in Nat, m \in Nat, n \in Nat :
          /\ r = Len(packets["replay"]) /\ i = Len(packets["injection"])
          /\ m = Len(pending[port["replay"]]) /\ n = Len(pending[port["injection"]])
    BY <2>2 DEF Attacks
  <2>7. PICK u \in Nat, v \in Nat : u = Off("replay") /\ v = Off("injection")
    BY <2>2 DEF Attacks
  <2>8. u + m = r /\ v + n = i
    BY <2>2, <2>6, <2>7 DEF Attacks
  <2>9. leftover = m + n + lost /\ Cardinality(Matched) + lost = u + v
    BY <2>3, <2>5, <2>6, <2>7
  <2>10. PICK c \in Nat, l \in Nat, t \in Int :
           c = Cardinality(Matched) /\ l = lost /\ t = leftover
    BY <2>1, <2>4, <2>9
  <2>11. t = m + n + l /\ c + l = u + v
    BY <2>9, <2>10
  <2>12. r + i = c + t
    BY <2>8, <2>11
  <2> QED
    BY <2>6, <2>10, <2>12
<1> QED
  BY <1>1, <1>2, <1>3, <1>4, PTL DEF Spec
=============================================================================
