------------------------------ MODULE Labeling ------------------------------
(***************************************************************************)
(* Ground truth from end to end: a scenario (attacks/run_scenario.py,      *)
(* attacks/harder_scenario.py) in which every attack script logs a packet  *)
(* before it sends it, the capture the tap makes of it, the manifest, and  *)
(* data/label_dataset.py, which matches captured requests to the log by    *)
(* their bytes and decides whether the run may be scored.                  *)
(*                                                                         *)
(* The capture is the tap's (ModbusTap): requests of one connection are in *)
(* it in the order they were sent.  A logged packet need not be: its       *)
(* script may die, or the tap may, and a frame cut off in the middle is a  *)
(* row of other bytes.                                                     *)
(***************************************************************************)
EXTENDS Integers, Sequences, SequencesExt

CONSTANTS
  Bytes,         (* what a whole frame's raw_hex may be                      *)
  Garbled,       (* the raw_hex of a frame that was cut off                  *)
  BasicPlan,     (* what the scripts of run_scenario.py send, and what those *)
  HarderPlan,    (* of harder_scenario.py do: per attack, kinds and bytes    *)
  HmiPort,       (* the operator's source port                               *)
  StrangerPort,  (* that of a client the scenario knows nothing of           *)
  OwnPort,       (* per attack, a source port no one else has                *)
  MAX_ROWS       (* bound of the model: rows of the capture                  *)

Attacks == {"replay", "injection"}
Packets == [kind : {"seed", "attack", "cover"}, raw_hex : Bytes]
NOPORT == -1

ASSUME PlansAssumption ==
  /\ Garbled \notin Bytes
  /\ {BasicPlan, HarderPlan} \subseteq [Attacks -> Seq(Packets)]

\* No two scripts of a run get one port from the system.
ASSUME PortsAssumption ==
  /\ DOMAIN OwnPort = Attacks
  /\ NOPORT \notin Range(OwnPort) \cup {HmiPort}
  /\ HmiPort \notin Range(OwnPort)
  /\ StrangerPort \notin Range(OwnPort) \cup {HmiPort, NOPORT}
  /\ \A a, b \in Attacks : OwnPort[a] = OwnPort[b] => a = b

VARIABLES
  phase,      (* the scenario runs; the labeler reads; it has exited: with   *)
              (* status 0 (scored) or 1 (refused)                            *)
  harder,     (* which of the two scenarios it is                            *)
  hmi_port,   (* what the scenario knows of the operator's port              *)
  script,     (* each attack script: todo, running or over                   *)
  port,       (* the source port it reported, if it did                      *)
  packets,    (* its log: kind and bytes of each packet, in order            *)
  capture,    (* rows of the capture, each with its history: who sent it,    *)
              (* and as which packet of the log                              *)
  labels,     (* the labels of the rows read so far                          *)
  pending,    (* per attack port: the packets not yet matched                *)
  lost,       (* how many packets were skipped over                          *)
  window_mismatches

runVars == <<harder, hmi_port, script, port, packets, capture>>
labelVars == <<labels, pending, lost, window_mismatches>>
vars == <<phase, runVars, labelVars>>

----------------------------------------------------------------------------
(* The scenario.                                                           *)

\* The operator's port is unknown if the HMI does not report it within 5 s.
Init ==
  /\ phase = "run"
  /\ harder \in BOOLEAN
  /\ hmi_port \in {HmiPort, NOPORT}
  /\ script = [a \in Attacks |-> "todo"]
  /\ port = [a \in Attacks |-> NOPORT]
  /\ packets = [a \in Attacks |-> <<>>]
  /\ capture = <<>>
  /\ labels = <<>>
  /\ pending = <<>>
  /\ lost = 0
  /\ window_mismatches = 0

plan == IF harder THEN HarderPlan ELSE BasicPlan

\* The harder attacks bind an address of their own, where the operator's port is
\* as good as any; the basic ones share the operator's.
PortsFor(a) ==
  {OwnPort[a]} \cup IF harder /\ HmiPort \notin Range(port) THEN {HmiPort} ELSE {}

Row(dir, p, b, inside, by, at) ==
  [direction |-> dir, client_port |-> p, raw_hex |-> b, inside |-> inside, by |-> by, at |-> at]

Capture(r) == Len(capture) < MAX_ROWS /\ capture' = Append(capture, r)

\* run_attack: one script at a time.  It may end before it has a port.
StartScript(a) ==
  /\ phase = "run"
  /\ script[a] = "todo"
  /\ \A b \in Attacks : script[b] # "running"
  /\ \/ \E p \in PortsFor(a) : /\ port' = [port EXCEPT ![a] = p]
                              /\ script' = [script EXCEPT ![a] = "running"]
     \/ /\ script' = [script EXCEPT ![a] = "over"]
        /\ UNCHANGED port
  /\ UNCHANGED <<phase, harder, hmi_port, packets, capture, labelVars>>

\* log_packet, then sendall, of the script's next packet.  The request reaches the
\* capture whole, cut off (and the script is over), or not at all.  Its row may have
\* been stamped outside the window of the script's run.
SendPacket(a) ==
  /\ phase = "run"
  /\ script[a] = "running"
  /\ Len(packets[a]) < Len(plan[a])
  /\ LET at == Len(packets[a]) + 1
         rec == plan[a][at]
     IN /\ packets' = [packets EXCEPT ![a] = Append(@, rec)]
        /\ \/ /\ \E inside \in BOOLEAN :
                   Capture(Row("req", port[a], rec.raw_hex, inside, a, at))
              /\ UNCHANGED script
           \/ /\ Capture(Row("req", port[a], Garbled, TRUE, a, at))
              /\ script' = [script EXCEPT ![a] = "over"]
           \/ UNCHANGED <<capture, script>>
  /\ UNCHANGED <<phase, harder, hmi_port, port, labelVars>>

\* The script has sent all, or it fails half-way: run_attack goes on either way.
EndScript(a) ==
  /\ phase = "run"
  /\ script[a] = "running"
  /\ script' = [script EXCEPT ![a] = "over"]
  /\ UNCHANGED <<phase, harder, hmi_port, port, packets, capture, labelVars>>

\* The operator, or a stranger, sends a request: it falls into the window of the
\* script that runs.
SendBenign(by, p, b) ==
  /\ phase = "run"
  /\ Capture(Row("req", p, b, \E a \in Attacks : port[a] = p /\ script[a] = "running", by, 0))
  /\ UNCHANGED <<phase, harder, hmi_port, script, port, packets, labelVars>>

\* The PLC answers the request the capture ends with; a write's answer echoes it.
Answer ==
  /\ phase = "run"
  /\ capture # <<>>
  /\ Last(capture).direction = "req"
  /\ Capture([Last(capture) EXCEPT !.direction = "resp"])
  /\ UNCHANGED <<phase, harder, hmi_port, script, port, packets, labelVars>>

----------------------------------------------------------------------------
(* The labeler.                                                            *)

\* source_port_roles as main builds it, operator first: of equal ports the last one
\* written counts.
RoleOf(p) ==
  IF \E a \in Attacks : port[a] = p THEN CHOOSE a \in Attacks : port[a] = p
  ELSE IF p = hmi_port THEN "benign"
  ELSE "unknown"

\* main up to the loop: the queues of packets, by source port.
ReadManifest ==
  /\ phase = "run"
  /\ \A a \in Attacks : script[a] = "over"
  /\ phase' = "label"
  /\ pending' = [p \in {port[a] : a \in Attacks} |->
                   IF p = NOPORT THEN <<>> ELSE packets[RoleOf(p)]]
  /\ UNCHANGED <<runVars, labels, lost, window_mismatches>>

row == capture[Len(labels) + 1]
Reading == phase = "label" /\ Len(labels) < Len(capture)
OnAttackPort == row.direction = "req" /\ RoleOf(row.client_port) \in Attacks
queue == pending[row.client_port]

Label(l) == labels' = Append(labels, l)

\* An attack connection's row outside its script's window is counted.
CheckWindow ==
  window_mismatches' = IF row.inside THEN window_mismatches ELSE window_mismatches + 1

LabelOther ==
  /\ Reading
  /\ ~OnAttackPort
  /\ Label(IF row.direction = "resp" THEN "response" ELSE RoleOf(row.client_port))
  /\ UNCHANGED <<phase, runVars, pending, lost, window_mismatches>>

Hit_AtHead == IF queue # <<>> /\ Head(queue).raw_hex = row.raw_hex THEN 1 ELSE 0

\* The first pending packet with the row's bytes; those before it are lost.
Hit == SelectInSeq(queue, LAMBDA rec : rec.raw_hex = row.raw_hex)

LabelOf(rec) ==
  CASE rec.kind = "seed"   -> "replay_seed"
    [] rec.kind = "cover"  -> "cover"
    [] rec.kind = "attack" -> RoleOf(row.client_port)

Skipped_Forgotten == 0
Skipped == Hit - 1

LabelHit ==
  /\ Reading
  /\ OnAttackPort
  /\ Hit # 0
  /\ Label(LabelOf(queue[Hit]))
  /\ pending' = [pending EXCEPT ![row.client_port] = SubSeq(@, Hit + 1, Len(@))]
  /\ lost' = lost + Skipped
  /\ CheckWindow
  /\ UNCHANGED <<phase, runVars>>

LabelUnmatched ==
  /\ Reading
  /\ OnAttackPort
  /\ Hit = 0
  /\ Label("unmatched")
  /\ CheckWindow
  /\ UNCHANGED <<phase, runVars, pending, lost>>

Unmatched == Cardinality(UNION {{p} \X DOMAIN pending[p] : p \in DOMAIN pending})
leftover_LostOnly == lost

leftover == Unmatched + lost

Exit ==
  /\ phase = "label"
  /\ Len(labels) = Len(capture)
  /\ phase' = IF \/ leftover > 0
                 \/ window_mismatches > 0
                 \/ {"unmatched", "unknown"} \cap Range(labels) # {}
               THEN "refused" ELSE "scored"
  /\ UNCHANGED <<runVars, labels, pending, lost, window_mismatches>>

Next ==
  \/ \E a \in Attacks : StartScript(a) \/ SendPacket(a) \/ EndScript(a)
  \/ \E b \in Bytes : SendBenign("benign", HmiPort, b) \/ SendBenign("unknown", StrangerPort, b)
  \/ Answer
  \/ ReadManifest
  \/ LabelOther
  \/ LabelHit
  \/ LabelUnmatched
  \/ Exit

Spec == Init /\ [][Next]_vars

----------------------------------------------------------------------------
(* Properties.                                                             *)

\* What row r really is.
TrueLabel(r) ==
  IF r.direction = "resp" THEN "response"
  ELSE IF r.by \notin Attacks THEN r.by
  ELSE LET kind == packets[r.by][r.at].kind
       IN CASE kind = "seed" -> "replay_seed" [] kind = "cover" -> "cover" [] OTHER -> r.by

Whole(a, k) == \E i \in 1..Len(capture) :
  /\ capture[i].direction = "req"
  /\ capture[i].by = a /\ capture[i].at = k
  /\ capture[i].raw_hex = packets[a][k].raw_hex
NothingLost == \A a \in Attacks : \A k \in 1..Len(packets[a]) : Whole(a, k)
PortsDistinct == \A a \in Attacks : port[a] # HmiPort

\* A run that may be scored carries the truth: exit 0 means that every label says
\* what its row really was, "so a pipeline that runs it [...] stops instead of
\* scoring a run whose unmatched attacks quietly dropped out of the count"
\* (label_dataset.py:27-32).  An operator that shares its port with an attack
\* script is noticed too, as long as nothing of the log is missing.
ExitZeroMeansTrueLabels ==
  phase = "scored" /\ (PortsDistinct \/ NothingLost) =>
    \A i \in 1..Len(capture) : labels[i] = TrueLabel(capture[i])

\* ... and that "every logged packet" matched "one captured request"
\* (label_dataset.py:27-28): nothing that a script logged is missing.
ExitZeroMeansAllCaptured == phase = "scored" /\ PortsDistinct => NothingLost

\* Every logged packet is matched, still pending or counted as lost, at each row.
MatchedLabels == Attacks \cup {"replay_seed", "cover"}
EveryPacketIsAccountedFor ==
  phase # "run" =>
    LET matched == {i \in 1..Len(labels) : labels[i] \in MatchedLabels}
    IN Len(packets["replay"]) + Len(packets["injection"]) = Cardinality(matched) + leftover

\* A packet that never reached the capture costs no other its label, when the
\* log's bytes differ: it is skipped "instead of failing every later packet"
\* (label_dataset.py:102-104; tests/test_label_dataset.py:72-80).
Distinct(a) == \A j, k \in 1..Len(packets[a]) :
  packets[a][j].raw_hex = packets[a][k].raw_hex => j = k
LossCostsNoOtherLabel ==
  PortsDistinct =>
    \A i \in 1..Len(labels) :
      capture[i].by \in Attacks /\ capture[i].raw_hex # Garbled /\ Distinct(capture[i].by)
        => labels[i] = TrueLabel(capture[i])
=============================================================================
