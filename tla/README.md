# Specifications of the Modbus IDS testbed

TLA+ models of the programs in this repository, TLC instances that check them,
and TLAPS proofs about the most important of them. `PROJECT.json` lists the
components, the runs, the mutants, for each definition the source lines it
models, the hazards, the findings and the theorems.

    tlc -workers 2 -config MCModbusTap.cfg MCModbusTap     # one run
    tlapm ModbusTapProofs.tla                              # one module of proofs

## 1. Inventory

The testbed is a set of Python programs that talk over loopback TCP and through
files in `data/`:

    HMI, attack scripts --TCP--> tap --TCP--> PLC simulator
                                  |
                                  v  capture.csv
    run_scenario --manifest--> label_dataset --> labeled.csv --> features -->
    rule-based, forest, one-class SVM --> evaluate, multi_run
    capture.csv --> export_pcap --> Zeek, Suricata;  tcpdump --> pcap_to_csv

| part | state it keeps | operations | what is hard | what makes it correct | module |
|---|---|---|---|---|---|
| Tap, `testbed/modbus_tap.py` | per connection two sockets and two pump threads, each with a rolling buffer; the CSV file, its lock and its buffer | accept, recv, cut frames, stamp, write and flush a row, forward, half-close, close | two threads per connection and many connections share a file; segmentation; a reset or a kill at any step; half-close | transparent link; a frame is on disk before it is forwarded; nothing received is lost; the last reply is captured; handlers end | `Framing`, `ModbusTap`, `TransparentLink`, `MCModbusTap`, `ModbusTapProofs` |
| Envelope and gateway, `testbed/secure_modbus.py` | the signer's next counter; the verifier's high-water mark | seal, verify | an unordered, repeating network that anyone may write to; several signers; the end of the counter | sealed requests only, each once, in order; bad envelopes move nothing; the operator is not locked out | `Envelope`, `SecureModbus`, `OrderedDelivery`, `AuthenticationProofs` |
| Authentication comparison, `detectors/auth_eval.py` | a signer, a verifier, the last sniffed envelope, per session | push a benign or an attack row for one of four capabilities | the order of rows within a session | what is reported as rejected is rejected; the operator is unaffected | `AuthEval`, `AuthenticationProofs` |
| Scenario's ground truth, `attacks/*.py`, `data/label_dataset.py` | the scripts' packet logs, ports, windows; the labeler's queues | log, send, capture, label, exit status | packets lost or cut off, scripts that die, equal bytes, equal ports | exit status 0 means true labels and nothing missing | `Labeling`, `MCLabeling`, `LabelingProofs` |
| Rules, `detectors/rule_based.py` and `tools/nids/modbus_project.zeek` | writes remembered by connection and identifier | score one request | interleaved connections, identifiers that wrap, tables that expire | masters are never flagged; a resend always is; both versions agree | `RuleBased`, `MCRuleBased`, `RuleBasedProofs` |
| Pcap tools, `tools/export_pcap.py`, `tools/pcap_to_csv.py` | sequence numbers per connection; a buffer and the next number per stream | export a row; take a segment | lost, repeated, late, overlapping segments; numbers that wrap; equal times | a round trip is the identity; no byte twice; each loss is counted | `Packets`, `ExportPcap`, `PcapToCsv`, `MCPcapToCsv`, `PcapProofs` |
| Sessions, `run_scenario.py`, `harder_scenario.py`, `capture_baseline.py`, `capture_tuning.py`, `multi_run.py`, `evaluate.py` | child processes; the files in `data/` and their backups | start, wait, stop; label; copy; back up; score | a step fails, is interrupted or killed between two others; files of failed sessions stay | three separate sessions with their own labels; finished sessions survive; nothing is left running | `Sessions`, `SessionsProofs` |
| Features, `detectors/features.py`, `nids_compare.py` | a table of requests, recomputed from the capture | sort, derive columns, map alerts back | rows that overtake each other on the way to the file, ties in time, malformed frames | a column is what a monitor on the wire had seen; an alert comes back to its request | `Features`, `MCFeatures`, `FeaturesProofs` |
| Thresholds, `ml_anomaly.py`, `ocsvm.py` | a threshold per view | fit, calibrate, predict | tied scores, a quantile of few rows, two views | the false alarms allowed are not exceeded; the tuned threshold is the best; held-out attacks stay held out | `Scoring`, `ScoringProofs` |
| Figures, `evaluate.py`, `multi_run.py`, `generalization.py`, `harder_attacks.py` | rows of results | score a session, summarize | sessions without attacks, missed attacks, sums over runs | each scored request is graded once; an attack is missed exactly when none of its requests is flagged | `Scoring`, `ScoringProofs` |
| PLC simulator, manual client, GRFICSv2 tools, sensor scripts | a process model; nothing; nothing; nothing | | | | none |

Who interacts with whom: the tap's framing (`Framing`) is also what the pcap reader
runs; what the tap promises (`ModbusTap`: requests of a connection are recorded
once, in order, before they go on) is what `Labeling` takes the capture to be; that
exit status 0 means true labels (`Labeling`) is what `Sessions` takes a labelled
file to be, and where `Scoring` gets its labels from. `Features` takes from the tap that
a stamp is taken before the lock is, and one thread logs the requests of a
connection. `Envelope` is shared by the gateway (`SecureModbus`) and by its
evaluation (`AuthEval`).

The 40 hazards that the properties are for are in `PROJECT.json`, each at its line.

## 2. The modules and the code

**Framing** is `iter_frames` (modbus_tap.py:107-129): where a buffer starts with a
whole frame, with an impossible length field, or with neither. The header's length
and the bounds of the length field are constants: 7 bytes and 2..254 in the code,
one or two bytes and one or two lengths in the runs. Which bytes follow the length
field does not matter to the code. `Cuts` is the places where the yields of a whole
buffer begin and end; `iter_frames` and `Taken` are read off it.

**ModbusTap** has the tap's threads step by step: one action per `recv`, per
yielded frame, stamp, acquire, write, flush, `sendall`, half-close. The state of a
pump is its place in the code (`pc`) and how far its stream is received (`got`),
parsed (`cut`) and forwarded (`fwd`): the code's `buffer` is `sent[cut+1..got]` and
its `chunk`, while one is held, `sent[fwd+1..got]`. `file` is what has been written
and `flushed` how much of it is on disk; `Kill` cuts the first to the second, since
`terminate()` runs no Python code. `WriteClosed` is the `ValueError` of a pump that
finds the file closed after Ctrl-C, which `pump` does not catch. The client and the
PLC write, finish and disappear at any step; the PLC answers whole requests in order.
Stamps are taken from `clock` before the lock is, as in `log_frame`.

**TransparentLink** is the tap without a tap: streams that arrive in order. It is
the abstract specification `ModbusTap` is shown to implement (`LinkSpec`), with
`stopped <- tap \in {"closed", "down"}` and all other variables as they are.

**SecureModbus** has any number of signers with one key, each with a counter of its
own, and the gateway. What arrives is any envelope put together from a counter, a
frame and a tag that was seen on the wire, or a made-up tag: this covers loss,
repetition, reordering, forgery and splicing. HMAC is ideal: a tag is the term of
what it was computed from. **OrderedDelivery** is what the channel promises.

**AuthEval** is `run_session` and `pooled`: each step takes one row of any kind, for
one of the four capabilities, or goes on to the next session.

**Labeling** has a scenario in which each script logs a packet and sends it, the
capture as a sequence of rows with their history (who sent it, as which packet),
and the labeler's loop row by row. A request reaches the capture whole, cut off, or
not at all. The basic replay sends the same bytes several times; a cover poll of the
harder attacks may have the operator's bytes; the harder attacks may have its port,
on another address.

**RuleBased** scores each request by the Python rules and by the Zeek script. The
commands of a run are one per case that the rules distinguish. `previous` and
`comparable` are history variables that the properties need.

**Packets, ExportPcap, PcapToCsv**: the exporter, row by row, and the reader, packet
by packet, over a file that is either an exported capture or what a sniffer saw of a
stream: up to `MAX_PACKETS` segments `Content[first..last]` in any order, with
repetitions, and with sequence numbers modulo `SEQS` (2^32 in the code). Half a
millisecond is 5 units of time, so handshakes and frames can coincide. A packet keeps
what the reader can tell: its stream, time, numbers, flags and payload. `streams` and
`keys` are the reader's dictionary and the order of its entries, in which what is left
in the buffers is appended (`Left`). Both programs' `list.sort` is `SortedByTime(s, S)`:
the elements of `s` at the places `S`, by time and then by place. The bytes of `Content`
differ from each other, so that a property can say where a byte came from; the code
compares no bytes and reads only length fields.

**Sessions** has a stack of scripts, each at a place in its `main`. A script that
fails ends its callers, as `run_step` and `check=True` do. Children start and end on
their own; the tap's file is emptied when the tap opens it, before it listens; the
port file is created and written in two steps. A data file is the session it was
captured in, its rows, and the manifest it was labelled with; a row stands for all
requests of one client in one session. `Interrupt` runs the finally clauses; `Kill`
does not, leaves children behind and cuts off a file that is being copied or
labelled. `evaluate` and `multi_run` record in `reports` what they scored.

**Features** has pumps that stamp a request (`Stamp`), wait for the lock in any order,
and log it (`Log`). `load_requests` and the columns are functions of the file:
`Previous(df, k, Like)` is the shift within a group, with `Like` the connection or
the target of a write. `facts` is a history variable: what a monitor that saw every
request as it passed would say of it. The file's columns are compared with these.
`Hits` is `flag_requests`: a Suricata alert names its connection's n-th transaction,
a Zeek notice an identifier and a time, which may be off by `TOL`.

**Scoring** first chooses a script, a threshold rule and a set of views (`Init`), then
a session whose requests have any labels and, per view, any scores: the forest and the
SVM are external, and only the order of their scores matters. `Calibrate` sets the
thresholds (`calibrate`, `calibrate_normal`), `ScoreRun` grades a test session as the
script does, and the summaries are functions of the `results`. `count` is a history
variable that counts each graded request as it is scored, and `staged` the attacks that
were in the sessions. A quantile does not say how it orders ties, so
`normal_quantile_threshold` takes the sort as a parameter and `Quantiles` is
the set of what all sorts give; `Budget` is proved for each.

## 3. Runs

| run | what it shows | bounds, and why they are enough |
|---|---|---|
| `tap` | safety of the tap under resets, an unreachable PLC, Ctrl-C and a kill at any step, with whole, cut and malformed frames | one connection: two pumps that share the lock and the file; streams of up to five bytes are a whole frame with a partial one after it, or a malformed one; chunks of up to three split and join frames. 0.7 M states |
| `tap_link` | the tap implements `TransparentLink`; frames survive segmentation; the last reply is captured; handlers end | two whole frames of two bytes per direction, in chunks of 1 to 4 bytes, all faults, under fairness. 0.16 M states |
| `tap_order` | finding 1 | two connections, one request each |
| `secure` | the gateway implements `OrderedDelivery`, and the window is safe | two signers, two frames and a short one, counters up to 3, so that both reach the last one. 17 k states |
| `auth` | the capabilities fail as reported, in sessions the operator leads | five rows in all, in any number of sessions. 39 k states |
| `labeling` | exit status 0 means true and complete labels | capture of three rows, both plans with two or three packets per script. 1.7 M states |
| `rules` | no false alarm, no missed resend, Zeek agrees | two connections, ten commands, two identifiers: a master wraps within three requests. 0.5 M states |
| `rules_wrap` | finding 2 | the same |
| `pcap` | round trip, no byte twice, each loss counted, wrap-around | files of up to three rows of two connections; four sniffed segments of a stream of three frames' bytes; sequence numbers modulo 16 that wrap within the stream. 1.1 M states |
| `sessions` | what is scored, what survives, what is left running | three commands of seven, four sessions, one fault anywhere: enough for a baseline, a multi-run that captures its own tuning session and run, and a reuse or an evaluation after it. 1.7 M states |
| `features` | the file's columns are what was seen on the wire; alerts come back | two connections, three requests of six kinds, three instants: two rows tie, and one overtakes another within a connection's gap. 0.1 M states |
| `scoring` | the label-free budget, the best F1, held-out attacks, grading and summing | calibrating sessions of up to three rows with three scores, so that ties and every place of the third that is allowed occur; two test sessions of up to two rows, so that an attack is missed in one and caught in the other. 0.2 M states |

Deadlock checking is off where a system really may stop: clients stop writing, the
tap goes down, counters, rows or commands run out.

**Fairness** is assumed in `tap_link` only: weak fairness of each thread of the tap
(the interpreter runs every thread that is not blocked; a `recv` without data and an
acquire of a held lock are not enabled, so they owe nothing) and of the PLC's
answers, which pymodbus gives as long as it runs. Nothing is assumed of clients,
resets, Ctrl-C or kills: the liveness properties start from a client that has
closed or vanished and except a tap that is stopped.

**Mutants.** Every property of a passing run has a mutant: a definition `D_...`
beside `D` that is `D` with a plausible bug in it (a dropped guard, a swapped order,
an off-by-one), with which TLC finds the property violated. No behaviour of the
specification uses these definitions.

## 4. Findings

1. `tap_order` (`modbus_tap.py:155`): stamps are taken before the logger's lock, so
   the rows of two connections may be in the file in the other order than their
   stamps. `features.py:138-141` relies on file order being "the order the tap saw
   them on the wire" for ties. Rows of one connection are never affected
   (`RowsInStreamOrder`), and requests precede their replies
   (`ReplyRowAfterRequestRow`).
2. `rules_wrap` (`rule_based.py:135`): the replay rule's memory is never cleared, and
   identifiers have 16 bits. A master that repeats a write one round later is
   reported as a replay. Up to the wrap it never is, which is proved.

Not violations, but limits the models make visible:
`pcap_to_csv` keeps no record of bytes before the first captured segment: if they
come later they count as "already seen", or are cut off an overlapping segment
without being counted (`LossIsCounted` speaks of the bytes from the first captured
on). Only the labels of a run captured by the same `multi_run` are known to be
complete: a copy cut off by a kill is scored by `--reuse` as a run
(`MultiRunScoresTrueSessions` says which of the two it promises). An operator and an
attacker with the same port on different addresses are told apart by the labeler's
counts only as long as nothing is lost (`ExitZeroMeansTrueLabels`).

Preconditions of properties, and the code that makes them necessary:

- `led` (`KeylessRejectedWhenLed`, `OperatorUnaffectedWhenLed`): in a session
  whose first scored row is an attack, the envelope that the "resend" attacker is said
  to repeat does not exist yet. `run_session` seals the row with the operator's key and
  a fresh counter instead (`auth_eval.py:81`), and it is accepted, other than
  `auth_eval.py:10-11` has it. Captures of the scenarios start with the operator.
- `WritesDecoded` (`ValueFeaturesAreOnline`): a malformed write's blank fields are
  filled with 0, and it counts in `_value_change` (`features.py:76-90`) as a write of 0
  to coil or register 0, although `features.py:40-41` and `97-99` keep such requests
  apart. The next write to that target then has the wrong run and step.
- `TiesInWireOrder` (`ValueFeaturesAreOnline`): rows with one recorded time that
  overtook each other (finding 1) are derived in file order. Rows with different
  times, in whatever order, are put right by the sort.
- A Zeek notice on the PLC's answer, within `TOL` of another request with its
  identifier, would map to that request; alerts and requests are matched by client
  port alone (`nids_compare.py`), so two hosts with one port are one connection.
- `multi_run.py:176,193-203` counts an attack that a session does not have among the
  missed. `MissedIffNeverFlagged` says so: missed is "no request of it was flagged".
- A restarted gateway is at window 0 and takes old envelopes again
  (`secure_modbus.py:81`): the verifier's state is in memory only, and the model has one
  life of it. A killed session's tap keeps its port (`run_scenario.py:164`): see
  "Two generations of children" below.

## 5. What is proved

TLAPS checks these for every value of the constants, given the named assumptions.

| theorem | says |
|---|---|
| `ModbusTapProofs!TypeCorrect`, `Recording`, `Keeping`, `OneRowAtRisk` | `TypeOK`, `RecordedBeforeForwarded`, `NothingReceivedIsLost`, `AtMostOneRowAtRisk` are invariants of the tap |
| `ModbusTapProofs!Transparent` | `Spec => LinkSpec`: the tap implements the transparent link |
| `ModbusTapProofs!StreamOrder`, `ReplyAfterRequest` | `RowsInStreamOrder`, `ReplyRowAfterRequestRow`: the order of the file, by bytes and by stamps |
| `ModbusTapProofs!Segmentation` | `FramesSurviveSegmentation`: if each write is one well-formed frame, each row is one of these frames, but for the last of a stream that was reset |
| `AuthenticationProofs!ChannelTypeCorrect`, `DeliversInOrder`, `NotLockedOut`, `Window` | types; `Spec => DeliverySpec`; some signer is always ahead of the window; the window is the last accepted counter |
| `AuthenticationProofs!Keyless`, `Operator` | in led sessions no keyless attack row is accepted, and the operator's well-formed rows all are |
| `LabelingProofs!Losses`, `TrueLabels`, `AllCaptured`, `Accounted` | a lost packet costs no other its label; exit status 0 means true labels, and that nothing is missing; each logged packet is a labelled row, in a queue, or counted as lost; for plans and captures of any length |
| `RuleBasedProofs!DetectorTypeCorrect`, `NoFalseAlarm`, `Resend` | types; masters are not flagged before their identifiers wrap; a write that is sent again is flagged each time |
| `RuleBasedProofs!ZeekPort` | `ZeekAgrees`: the Zeek script reports the rule the detector does, request by request, under the conditions the property names |
| `SessionsProofs!TrueSessions`, `SeparateSessions`, `Survival`, `TuningManifest`, `Stops` | `MultiRunScoresTrueSessions`, `ThreeSessions`, `FinishedSessionsSurvive`, `TuningManifestBelongs`, `NothingLeftRunning`: for any number of commands, sessions, runs and faults |
| `FeaturesProofs!ConnectionFeatures`, `ValueFeatures`, `Alerts` | `ConnectionFeaturesAreOnline`, `ValueFeaturesAreOnline`, `AlertsComeBack`: the columns of a file of any length are what was seen on the wire, and alerts come back |
| `PcapProofs!BytesOnce`, `LossCounted`, `FramesWhole` | `NoByteTwice`, `LossIsCounted`, `FramesDespiteSegmentation`: what is read of a sniffed stream, whatever was lost, repeated, late, split anew or wrapped, in any number of packets; from the inductive invariant of `Sniffing` |
| `PcapProofs!Reassembled` | `ToolsAcceptIt`: each packet of an exported file continues its connection; from the invariant of `Exporting` |
| `PcapProofs!ReadBack` | `RoundTrip`: what is exported and read back is the capture; from the invariants of `Exporting` and `Converting`, for files of any length |
| `ScoringProofs!Budget`, `Apart` | the label-free threshold keeps its budget, ties or not; a threshold tuned without an attack has seen none of it and is graded on the other alone |
| `ScoringProofs!Best` | `BestF1IsBest`: no cut-off, tried or not, has a better F1 on the tuning session than the threshold, or the same F1 with fewer false alarms |
| `ScoringProofs!GradedOnce`, `NeverFlagged` | `EveryScoredRequestGradedOnce`, `MissedIffNeverFlagged`: the pooled figures count each request once; missed attacks are those with no flagged request; for any number of runs |

**Assumptions.** TLC evaluates each in some passing run.

- `FramingAssumption`: a header has a byte, one of them is the length field, and a valid
  length is at least 2, so a frame is longer than its header.
- `BoundsAssumption` (of several modules): numbers are natural, a chunk has a byte,
  masters are connections. `ConnsAssumption`: no pump is the value for a free lock.
  `PayloadAssumption`: payloads are sequences of bytes, and a reply is not empty.
- `EnvelopeAssumption`, `NoTagAssumption`: frames are short or not; a made-up tag
  verifies nothing. `RowsAssumption`: a session has fewer rows than there are counters.
- `PlansAssumption`: what is left of a packet that was cut off is no packet's bytes.
  `PortsAssumption`: the system gives every script of a run a port of its own.
- `WholePayloads` is no assumption of a module but the hypothesis of `Segmentation`: each
  write of the client and the PLC is one well-formed frame, which is how the scripts and
  pymodbus write. The payloads of `tap_link` satisfy it; those of `tap` do not, by
  intent, and none of the other theorems needs it.
- `CommandsAssumption`: an operator's commands break no rule by themselves, and a write of
  a single place (codes 5 and 6) has count 1, which is what the tap decodes it to.
  `BoundsAssumption` of `Features`: frames have the columns that `frame_row` fills.
  `NoneAssumption` (of three modules): the value that stands for none is no request, no
  table, no row and no number.
- `RUNSAssumption`: a multi-run has a run at least.
- `SEQSAssumption`, `ClientsAssumption`, `FirstSeqAssumption`: there are two sequence
  numbers and a client; a connection's first numbers are natural.
- `ContentAssumption`: the sniffed bytes differ from each other, and they are at most
  half as many as there are sequence numbers: `_seq_diff` tells ahead from behind by the
  shorter way round (`pcap_to_csv.py:126-129`), which is right up to 2^31 bytes.
- `RowFilesAssumption`: what is exported is a capture of the tap. A row is a yield of
  `iter_frames`, or a part of a frame; the latter is a stream's last row, as
  `modbus_tap.py:185-191` writes it; a stream's rows are in the order of their times,
  which `RowsInStreamOrder` says of the tap. Rows without bytes may occur anywhere.
- `ViewsAssumption`, `ScoresAssumption`, `TargetAssumption`: at most two views, whole
  scores, and a target rate between 0 and 1.

**The tap.** `RecordedBeforeForwarded` is not inductive: it does not say why what is
forwarded is on disk. `IInv` adds, per pump and per place in the code, how `fwd`,
`cut` and `got` relate (`ForwardedAt`: of the bytes not yet parsed, what is forwarded
never makes a whole frame), that exactly the parsed bytes are on disk, but for the
frame in hand (`RecordedAt`), that what a stream received is kept to its end unless
the logger is closed (`KeptAt`), and that only the lock's holder has a row in flight
(`OneInFlight`). Each action is a lemma; two facts about `Unit` carry it: a unit stays
one when more is written (`UnitExtends`), and what is no unit in a longer buffer is
none in a shorter one (`UnitSmaller`). For the refinement, `LinkInv` adds that a pump
which left its loop has a reason to end its stream (`Ending`), and each action is
shown to be a step or a stutter of the link.

**The capture's order.** `OInv` adds to `IInv` where each row lies in its stream
(`RowFits`), that the row in hand is where the parser stands (`HandAt`) and that what a
stream's rows cover is what was parsed. `PInv` relates the two pumps of a connection:
a reply is written only after its request was forwarded, hence after its row is on the
disk (`RecordedBeforeForwarded`), so each reply's row has its request's row before it
(`Pair`), and a pump that holds a reply has that row on the disk already (`PairAt`).
For `Segmentation`, `WInv` says that behind each end of a write is the end of the stream
or a frame up to the next one (`Framed`), that the parser stands at such a place unless
a reset cut the stream short (`CutAt`), and that each row starts at one (`RowsWhole`).

**The gateway.** `SInv`: every sealed envelope has the tag of its own content and a
counter its signer is past; every accepted one was sealed; the window is the last
accepted counter. So what passes the tag check was sealed, and an accepted counter
is above every accepted one before it.

**The comparison.** `AInv`: everything sealed is numbered below the signer's next
counter (`Numbered`), in led sessions what was sniffed is short or at or below the
window (`SniffedIsSpent`), and in these, and in all sessions beside a holder of the
key, the operator's next counter is above it (`OperatorAhead`).

**The labeler.** `LInv`: a queue is always the rest of its script's log from an offset
(`Off`). Of a script whose packets differ, a request that is unread is still in the
queue (`MatchedOnce`), which is why losses cost no other packet its label. As long as
nothing is skipped or unmatched, either every row read has its own label and every
packet used was captured (`Exact`), or a row was read whose packet is still in the queue
(`Surplus`), whose last packets will then be left over, so the status will not be 0. On
a port shared with the operator, a request of its uses up a packet (`Shared`), and the
script's last request will be unmatched.

**The rules.** The replay rule's memory of a master's connection holds only
identifiers it has used (`MemoryIsPast`), so its next one is new until they wrap. For
`Resend`, the last write of each connection breaks a rule itself or is in memory under
its identifier and bytes (`LastWriteCaught`). For `ZeekPort`,
`SameMemories` compares what the detector and the script remember of each connection and
identifier: as long as both decoded alike, neither has an entry, or the script's is
what it makes of the detector's. Two writes that pass the rules and are alike to the
script are then alike to the detector. Proving it showed one more case in which they are
not: a block write that announces no registers (`DecodedAlike`). The detector compares
whole payloads, announced count included, and the script the registers that came.

**The budget.** Above the quantile are only rows sorted after it, and there are
`Allowed` of them whichever way ties were broken; with two views a request is flagged
by one or the other, so at most twice as many.

**The best F1.** `calibrate` tries only the scores it has seen. `CutOffsSeen`: any other
cut-off flags what one of these does, or nothing. F1 is compared by cross-multiplying,
and that is transitive because no denominator is 0 when the session has an attack
(`Tunable`). `BestInv` says that the threshold was set this way.

**The figures.** The scripts add up columns of their results. What they add up to is not
visible in the last session, so `FiguresInv` relates each sum to the history variables
that count requests (`count`) and attacks (`staged`) one by one. A sum over a sequence is
a recursive function, and that it has a value for each length (`SumsExist`), and
that one more row adds that row's column (`SumOfOneMore`), is proved from
the well-foundedness of the numbers: a least length where it failed contradicts itself.

**Every packet.** `AccountInv`: the rows with an attack's label, and the packets counted
as lost, are as many as are off the queues. A row takes one packet off and gets a label,
or skips some and counts each.

**The features.** `load_requests` sorts the file, and a row's column looks at an earlier
row of the sorted frame. `FInv` says what was seen on the wire without the frame: rows
are numbered as they are stamped, and times follow the numbers (`StampInv`); a pump
holds one row at a time, so a connection's rows are in the file in that order
(`FileInv`); and what a monitor kept is of the last row of the connection (`ConnInv`), or
the last decoded write of the target (`ValueInv`). The stable sort then yields a
permutation of the file with a connection's rows in the order of their numbers, so the
row before in the frame is the row before on the wire. `repeat_run` counts back through
the frame; a least row at which it differed from the monitor's count would have its
predecessor right, and so would be right itself (`RunLengths`).

**The sessions.** None of the five properties is inductive: each speaks of a few files
and depends on which script runs, at which place, called by which. `SInv` has, per
place, what is already true: files of one session have one first request, and while one
is captured no other file is of it (`FilesInv`); what is to be labelled is the
last session's capture and manifest, and what is to be copied is labelled from them
(`PipelineInv`); runs copied by the command under way miss nothing (`RunsInv`); what was
moved aside is not there (`AsideInv`); names for backups carry this second's stamp, which
a script that may still move a file finds free (`StampsInv`), since every command
starts in a second of its own (`clock`); finished sessions are in place or in a
backup (`KeptInv`). Only the script on top of the stack has children, and only while it
captures (`StackInv`).

**Frames of a stream in pieces.** `Cuts` is a recursive function of a place in the
buffer. That it has a value at each place (`CutsExist`), that the places rise
(`CutsRise`), and that two buffers with the same bytes have the same cuts (`CutsAgree`)
are proved by a least place at which they fail, from the well-foundedness of the numbers.
`FramesOfMore` is the one that counts: the frames of a longer stream are those of the
shorter one and then those of what was left in the buffer with the new bytes behind it.
So a reader that cuts as it goes yields what one yields that had the stream whole, up
to an impossible length field.

**A sniffed stream.** `SniffInv`: nothing has been read of the stream (`Idle`), or
(`Begun`) for some `c <= m` the bytes up to `c` are done with, the buffer is
`Content[c+1..m]`, the next number expected is that of byte `m + 1`, and the last byte
carried so far is `m`. The rows are pieces of the stream in its order (`Laid`), their
times rise (`Timed`), so that the final sort moves nothing, and the gaps counted are the
holes in rows and buffer (`Missing`). `Distance` says that the signed difference of two
sequence numbers is the difference of their places, which turns the guards of `InOrder`,
`Gap`, `SeenBefore` and `Overlap` into comparisons of places with `m`. A frame that is
flushed at a gap has the time of its last byte, which is why it sorts before what follows.

**The export.** `ExportInv`: while rows are exported (`Building`), the packets so far
fit and each connection's are in the order of their times (`Fitting`); of a connection
that is open, the next numbers are those that follow its packets (`Connected`), and as
long as rows of it are left it has no close (`StillOpen`); the packets with a payload are
the rows done, in order (`Carries`). A connection's packets alone decide whether they fit,
and the sort keeps their order, since equal times stay as they were; so the file fits
although packets of different connections change places (`SortedFits`).

**The round trip.** `ConvertInv`: when the first `r` rows have been read (`ReadTo`), those
that are whole frames are the records (`Sourced`), a part of a frame is in its stream's
buffer and where each stream continues is where its last row ended (`Buffers`), and the
streams that have an entry are those of the rows (`Keyed`). From `Fits` of two
neighbouring rows of a stream, the second starts where the first ended (`Consecutive`),
so every packet with a payload is `InOrder`; since a part of a frame is the last of its
stream, the buffer is empty whenever more comes. At the end records and buffers are
all the rows, once each (`Numbers`), and a stable sort by time leaves each stream's in
their order. Without parts the records are the file itself.

**Only model-checked:**

- `LastReplyIsCaptured` and `HandlerEnds` (`tap_link`): liveness. Temporal proofs with
  fairness and ENABLED are out of the prover's reach.
- `FileOrderIsWireOrder` and `SteadySetpointNotFlagged`, which are the findings and do not
  hold.

## 6. What is not modelled, and why

- What scikit-learn trains (isolation forest, one-class SVM, scalers, the fill values
  learned in `fit`): any score is possible in `Scoring`. Means, confidence intervals,
  ROC and PR curves, measured costs, tables, `training_curve.py` and
  `harder_attacks.regression_check`: floating point and presentation.
- `harder_attacks`' main takes files that exist without asking whether its sessions
  share requests, as `multi_run` and `evaluate` do; `Sessions` covers these two.
- A frame too short for a transaction identifier, in `Features` (the tap never yields
  one), and a wall clock that is set back.
- The fields of a frame beyond its length (function code, addresses, values) in the
  tap: `frame_row` decodes them and decides nothing by them. The rules' module takes
  them decoded.
- The water tank: `plc_simulator.py`'s level is no input of any detector.
- Two generations of children: `Sessions` has the user end stray processes before
  the next command, as `docs/SETUP_LOG.md:50-56` advises. Without that, a new
  session's tap empties the capture and cannot bind, while the old one answers.
- Equal ports in different sessions or on reused connections (`Sessions`,
  `PcapToCsv`): the operating system gives fresh ones for long enough.
- GRFICSv2 tools, sensor scripts, Suricata's rules: the same rules with other numbers,
  and configuration of other programs. The manual client is a check by hand.
- Two hazards in `PROJECT.json` have no property: a run file that is a part of a copy
  (`multi_run.py:256`: nothing in the code tells it from a whole), and malformed writes
  among the value features (`features.py:81`, see `WritesDecoded`).

## 7. Plan

Written, in this order: `Framing` and `ModbusTap` with its proofs and link;
`SecureModbus`, `AuthEval`, `Labeling` and `RuleBased`, each with its proofs; the pcap
tools; `Sessions`; `Features`; `Scoring` with its proofs; the proofs about the pcap tools.

To model next:

1. The captures of `generalization.py:93-101,259-273` and `harder_attacks.py:93-101,
   229-237`, as further commands of `Sessions`.
2. Connections that reuse a port, in `PcapToCsv`; two generations of children, in
   `Sessions`.

To prove next:

1. That `Labeling`'s capture is what `ModbusTap` writes: the rows of one connection, in
   stream order, with stamps (`StreamOrder`) as the labeler's input; and likewise that the
   tap's files satisfy `RowFilesAssumption`.
