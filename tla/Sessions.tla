----------------------------- MODULE Sessions -----------------------------
(***************************************************************************)
(* How capture sessions are made, kept and used: run_scenario.py,          *)
(* harder_scenario.py and capture_baseline.py start the PLC, the tap and   *)
(* the HMI and stop them again; label_dataset.py joins a capture and a     *)
(* manifest; capture_tuning.py and multi_run.py call these one after the   *)
(* other and copy files; evaluate.py and multi_run.py score what the files *)
(* hold.                                                                   *)
(*                                                                         *)
(* One user types one command after the other, and stops what an earlier   *)
(* command left running first (docs/SETUP_LOG.md:50-56).  A command may    *)
(* fail by itself, be interrupted (Ctrl-C: the finally clauses run) or be  *)
(* killed (they do not run, and the children stay).                        *)
(*                                                                         *)
(* A data file holds the session it was captured in, its rows in order,    *)
(* and what the manifest said it was labelled with.  A row stands for the  *)
(* requests of one client in one session: the labeler knows a client by    *)
(* its port, which is new in every session.  That labels are right when    *)
(* the labeler finds all rows and packets is Labeling's result.            *)
(***************************************************************************)
EXTENDS Integers, Sequences, SequencesExt

CONSTANTS
  RUNS,           (* the runs of multi_run: 10 in the code                   *)
  MAX_COMMANDS,   (* bounds of the model: commands typed, ...                *)
  MAX_SESSIONS,   (* ... sessions started, ...                               *)
  MAX_FAULTS      (* ... and faults                                          *)

ASSUME RUNSAssumption == RUNS \in Nat \ {0}

Attacks == {"replay", "injection"}
Commands == {"scenario", "baseline", "label", "tuning", "multi_run", "reuse", "evaluate"}

VARIABLES
  stack,      (* the scripts that run, the innermost last, and where each is *)
  live,       (* the children of the session that run                        *)
  port_file,  (* data/.hmi_port                                              *)
  memory,     (* what the last capturing script notes: its file, its clients *)
  session,    (* sessions started so far                                     *)
  file,       (* the files in data/, by name                                 *)
  runs,       (* data/runs/run_XX.csv                                        *)
  backups,    (* data/backups/, by name and stamp                            *)
  clock,      (* seconds, as the stamps of backups have them                 *)
  reports,    (* what was scored: by which script, on which files' contents  *)
  kept,       (* the training and tuning files that were finished            *)
  commands,   (* how many commands were typed                                *)
  faults      (* how many faults happened                                    *)

captureVars == <<live, port_file, memory, session>>
fileVars == <<file, runs, backups, clock, reports, kept>>
vars == <<stack, captureVars, fileVars, commands, faults>>

NoManifest == [of |-> 0, hmi |-> FALSE, logged |-> {}]
NoFile == [of |-> 0, rows |-> <<>>, truth |-> NoManifest]
Exists(f) == f.of # 0
Names == {"capture", "labeled", "baseline", "tuning"}
Manifests == {"manifest", "tuning_manifest"}
Noted(out) == [out |-> out, hmi |-> FALSE, tried |-> {}, logged |-> {}]

----------------------------------------------------------------------------
(* The scripts.  One that fails ends its callers too: run_step and         *)
(* check=True raise (multi_run.py:123-130, capture_tuning.py:37-38).       *)

Top == stack[Len(stack)]
In(script, place) == stack # <<>> /\ Top.script = script /\ Top.at = place
Frame(script) == [script |-> script, at |-> "start", i |-> 1]
GoTo(place) == stack' = [stack EXCEPT ![Len(stack)].at = place]
CallThen(script, place) ==
  stack' = Append([stack EXCEPT ![Len(stack)].at = place], Frame(script))
Exit0 == stack' = Front(stack)

Fail_CallerGoesOn == stack' = Front(stack)

Fail == stack' = <<>>

Type(command) ==
  /\ stack = <<>>
  /\ live = {}
  /\ commands < MAX_COMMANDS
  /\ commands' = commands + 1
  /\ clock' = clock + 1
  /\ stack' = <<Frame(command)>>
  /\ UNCHANGED <<captureVars, file, runs, backups, reports, kept, faults>>

\* The user stops what a killed command left behind.
StopStrays ==
  /\ stack = <<>>
  /\ live' = {}
  /\ live # {}
  /\ UNCHANGED <<stack, port_file, memory, session, fileVars, commands, faults>>

Fault == faults < MAX_FAULTS /\ faults' = faults + 1
FaultUnless(due) == IF due THEN UNCHANGED faults ELSE Fault

----------------------------------------------------------------------------
(* Capturing: run_scenario's and capture_baseline's main.                  *)

Capturing(place) == stack # <<>> /\ Top.script \in {"scenario", "baseline"} /\ Top.at = place
Out == memory.out

BackedUp_Overwrites(name) == backups

\* back_up: the file is moved, to a name with the second in it.
BackedUp(name) ==
  IF Exists(file[name])
  THEN [k \in DOMAIN backups \cup {<<name, clock>>} |->
          IF k = <<name, clock>> THEN file[name] ELSE backups[k]]
  ELSE backups

StartBaseline ==
  /\ In("baseline", "start")
  /\ backups' = BackedUp("baseline")
  /\ file' = [file EXCEPT !["baseline"] = NoFile]
  /\ GoTo("launch")
  /\ UNCHANGED <<captureVars, runs, clock, reports, kept, commands, faults>>

LaunchPlc ==
  /\ Capturing("launch") \/ In("scenario", "start")
  /\ session < MAX_SESSIONS
  /\ session' = session + 1
  /\ live' = {"plc"}
  /\ memory' = Noted(IF Top.script = "scenario" THEN "capture" ELSE "baseline")
  /\ GoTo("plc")
  /\ UNCHANGED <<port_file, fileVars, commands, faults>>

\* wait_for_port: the PLC listens, and the tap is started.
LaunchTap ==
  /\ Capturing("plc")
  /\ "plc" \in live
  /\ live' = live \cup {"tap"}
  /\ GoTo("tap")
  /\ UNCHANGED <<port_file, memory, session, fileVars, commands, faults>>

\* The tap opens its file, which empties it, before it listens.
TapOpens ==
  /\ "tap" \in live
  /\ file[Out].of # session
  /\ file' = [file EXCEPT ![Out] = [NoFile EXCEPT !.of = session]]
  /\ UNCHANGED <<stack, captureVars, runs, backups, clock, reports, kept, commands, faults>>

TapUp == "tap" \in live /\ file[Out].of = session

\* Last session's port file goes before the HMI starts.
LaunchHmi ==
  /\ Capturing("tap")
  /\ TapUp
  /\ live' = live \cup {"hmi"}
  /\ port_file' = IF Out = "capture" THEN "none" ELSE port_file
  /\ GoTo("port")
  /\ UNCHANGED <<memory, session, fileVars, commands, faults>>

NotUp_Exits ==
  /\ \/ Capturing("plc") /\ "plc" \notin live
     \/ Capturing("tap") /\ "tap" \notin live
  /\ Fail
  /\ UNCHANGED <<captureVars, fileVars, commands, faults>>

\* wait_for_port gives up: the process is not there.
NotUp ==
  /\ \/ Capturing("plc") /\ "plc" \notin live
     \/ Capturing("tap") /\ "tap" \notin live
  /\ GoTo("stop_failed")
  /\ UNCHANGED <<captureVars, fileVars, commands, faults>>

\* hmi_client creates the file and writes its port in two steps, then polls.
HmiCreatesPortFile ==
  /\ "hmi" \in live
  /\ Out = "capture"
  /\ port_file = "none"
  /\ port_file' = "empty"
  /\ UNCHANGED <<stack, live, memory, session, fileVars, commands, faults>>

HmiWritesPort ==
  /\ "hmi" \in live
  /\ Out = "capture"
  /\ port_file = "empty"
  /\ port_file' = "port"
  /\ UNCHANGED <<stack, live, memory, session, fileVars, commands, faults>>

Captured(client) == file' = [file EXCEPT ![Out].rows = Append(@, <<session, client>>)]

HmiPolls ==
  /\ {"plc", "hmi"} \subseteq live
  /\ TapUp
  /\ Out = "capture" => port_file = "port"
  /\ ~Contains(file[Out].rows, <<session, "hmi">>)
  /\ Captured("hmi")
  /\ UNCHANGED <<stack, captureVars, runs, backups, clock, reports, kept, commands, faults>>

ReadPort ==
  /\ Capturing("port")
  /\ Out = "capture"
  /\ port_file = "port"
  /\ memory' = [memory EXCEPT !.hmi = TRUE]
  /\ GoTo("attack")
  /\ UNCHANGED <<live, port_file, session, fileVars, commands, faults>>

\* int("") raises when the file is read between the two steps of the HMI.
ReadEmptyPort ==
  /\ Capturing("port")
  /\ Out = "capture"
  /\ port_file = "empty"
  /\ GoTo("stop_failed")
  /\ UNCHANGED <<captureVars, fileVars, commands, faults>>

\* Five seconds are over: the operator's port stays unknown.
NoPort ==
  /\ Capturing("port")
  /\ Out = "capture"
  /\ port_file = "none"
  /\ FaultUnless("hmi" \notin live)
  /\ GoTo("attack")
  /\ UNCHANGED <<captureVars, fileVars, commands>>

\* capture_baseline sleeps until its HMI is done, and only warns if one is gone.
BaselineOver ==
  /\ Capturing("port")
  /\ Out = "baseline"
  /\ GoTo("stop")
  /\ UNCHANGED <<captureVars, fileVars, commands, faults>>

\* Replay and injection, in the order of the session's plan.
NextAttack(a) == In("scenario", "attack") /\ a \notin memory.tried
Tried(a, log) == memory' = [memory EXCEPT !.tried = @ \cup {a}, !.logged = @ \cup log]

RunAttack(a) ==
  /\ NextAttack(a)
  /\ {"plc", "tap"} \subseteq live
  /\ Captured(a)
  /\ Tried(a, {a})
  /\ UNCHANGED <<stack, live, port_file, session, runs, backups, clock, reports, kept, commands, faults>>

\* The script cannot connect; or it logs a packet that is never captured.
AttackFails(a) ==
  /\ NextAttack(a)
  /\ FaultUnless(~ {"plc", "tap"} \subseteq live)
  /\ \/ Tried(a, {})
     \/ "tap" \in live /\ Tried(a, {a})
  /\ UNCHANGED <<stack, live, port_file, session, fileVars, commands>>

WriteManifest ==
  /\ In("scenario", "attack")
  /\ memory.tried = Attacks
  /\ file' = [file EXCEPT !["manifest"] =
       [of |-> session, hmi |-> memory.hmi, logged |-> memory.logged]]
  /\ GoTo("stop")
  /\ UNCHANGED <<captureVars, runs, backups, clock, reports, kept, commands, faults>>

ChildDies(c) ==
  /\ c \in live
  /\ Fault
  /\ live' = live \ {c}
  /\ UNCHANGED <<stack, port_file, memory, session, fileVars, commands>>

\* The finally clause: HMI, tap and PLC are terminated in that order, and killed
\* if they do not end in time.
Stopping == Capturing("stop") \/ Capturing("stop_failed")
StopChild ==
  /\ Stopping
  /\ \/ "hmi" \in live /\ live' = live \ {"hmi"}
     \/ "hmi" \notin live /\ "tap" \in live /\ live' = live \ {"tap"}
     \/ live = {"plc"} /\ live' = {}
  /\ UNCHANGED <<stack, port_file, memory, session, fileVars, commands, faults>>

Finished == IF Top.script = "baseline" /\ Top.at = "stop" THEN {file["baseline"]} ELSE {}
Stopped ==
  /\ Stopping
  /\ live = {}
  /\ IF Top.at = "stop" THEN Exit0 ELSE Fail
  /\ kept' = kept \cup Finished
  /\ UNCHANGED <<captureVars, file, runs, backups, clock, reports, commands, faults>>

----------------------------------------------------------------------------
(* Labelling: label_dataset's main.                                        *)

\* What the labeler makes of a row: "benign" and the attacks are scored, "unknown"
\* (no client of the manifest) and "unmatched" (not in its log) are not.
Attributed(r, m) == r[1] = m.of /\ IF r[2] = "hmi" THEN m.hmi ELSE r[2] \in m.logged
Scored(f) == {r \in Range(f.rows) : Attributed(r, f.truth)}
label_problems(f) == Range(f.rows) \ Scored(f)
NotCaptured(f) == {a \in f.truth.logged : <<f.truth.of, a>> \notin Range(f.rows)}

LabelMissing ==
  /\ In("label", "start")
  /\ ~Exists(file["capture"]) \/ ~Exists(file["manifest"])
  /\ Fail
  /\ UNCHANGED <<captureVars, fileVars, commands, faults>>

LabelledNow == [file["capture"] EXCEPT !.truth = file["manifest"]]
Label ==
  /\ In("label", "start")
  /\ Exists(file["capture"])
  /\ Exists(file["manifest"])
  /\ file' = [file EXCEPT !["labeled"] = LabelledNow]
  /\ IF label_problems(LabelledNow) = {} /\ NotCaptured(LabelledNow) = {} THEN Exit0 ELSE Fail
  /\ UNCHANGED <<captureVars, runs, backups, clock, reports, kept, commands, faults>>
----------------------------------------------------------------------------
(* The tuning session: capture_tuning's main.                              *)

TuningCalls ==
  /\ \/ In("tuning", "start") /\ CallThen("scenario", "label")
     \/ In("tuning", "label") /\ CallThen("label", "backup")
  /\ UNCHANGED <<captureVars, fileVars, commands, faults>>

MoveAside(name) ==
  /\ backups' = BackedUp(name)
  /\ file' = [file EXCEPT ![name] = IF name = "tuning" THEN NoFile ELSE NoManifest]
  /\ UNCHANGED <<captureVars, runs, clock, reports, kept, commands, faults>>

BackUpTuning_CsvOnly ==
  In("tuning", "backup") /\ MoveAside("tuning") /\ GoTo("copy")

BackUpTuning ==
  \/ In("tuning", "backup") /\ MoveAside("tuning") /\ GoTo("backup_manifest")
  \/ In("tuning", "backup_manifest") /\ MoveAside("tuning_manifest") /\ GoTo("copy")

CopyTuning ==
  /\ \/ /\ In("tuning", "copy")
        /\ file' = [file EXCEPT !["tuning"] = file["labeled"]]
        /\ GoTo("copy_manifest")
        /\ UNCHANGED kept
     \/ /\ In("tuning", "copy_manifest")
        /\ file' = [file EXCEPT !["tuning_manifest"] = file["manifest"]]
        /\ kept' = kept \cup {file["tuning"], file'["tuning_manifest"]}
        /\ Exit0
  /\ UNCHANGED <<captureVars, runs, backups, clock, reports, commands, faults>>

----------------------------------------------------------------------------
(* Scoring: evaluate's main, and multi_run's main and score_run.           *)

Disjoint(f, g) == Range(f.rows) \cap Range(g.rows) = {}
check_separate_sessions_OnlyTrain(train, tune, test) == Disjoint(train, tune) /\ Disjoint(train, test)

\* Two sessions that share a captured request are refused.
check_separate_sessions(train, tune, test) ==
  /\ Disjoint(train, tune)
  /\ Disjoint(train, test)
  /\ Disjoint(tune, test)

\* Without requests to train on, with nothing to predict, or with a tuning session
\* that lacks attacks or benign requests, the detectors raise.
Trainable(train, tune, test) ==
  /\ train.rows # <<>>
  /\ test.rows # <<>>
  /\ \E r \in Scored(tune) : r[2] = "hmi"
  /\ \E r \in Scored(tune) : r[2] \in Attacks

Report(script, test) ==
  [by |-> script, train |-> file["baseline"], tune |-> file["tuning"], test |-> test]
Scorable(test) ==
  /\ check_separate_sessions(file["baseline"], file["tuning"], test)
  /\ Trainable(file["baseline"], file["tuning"], test)

Evaluate ==
  /\ In("evaluate", "start")
  /\ IF /\ \A n \in {"baseline", "labeled", "tuning"} : Exists(file[n])
        /\ Scorable(file["labeled"])
     THEN reports' = reports \cup {Report("evaluate", file["labeled"])} /\ Exit0
     ELSE Fail /\ UNCHANGED reports
  /\ UNCHANGED <<captureVars, file, runs, backups, clock, kept, commands, faults>>

Multi(place) == In("multi_run", place) \/ In("reuse", place)

\* The training session must be there; a tuning session is captured if none is,
\* and must have scored requests (contamination_from).
MultiStart ==
  /\ \/ /\ Multi("start")
        /\ IF ~Exists(file["baseline"]) THEN Fail
           ELSE IF Exists(file["tuning"]) THEN GoTo("tuned")
           ELSE CallThen("tuning", "tuned")
     \/ /\ Multi("tuned")
        /\ IF Scored(file["tuning"]) = {} THEN Fail ELSE GoTo("loop")
  /\ UNCHANGED <<captureVars, fileVars, commands, faults>>

\* capture_run: a scenario, its labels, and a copy of them.
MultiCapture ==
  /\ \/ In("multi_run", "loop") /\ Top.i <= RUNS /\ CallThen("scenario", "label")
     \/ In("multi_run", "label") /\ CallThen("label", "copy")
     \/ In("multi_run", "loop") /\ Top.i > RUNS /\ GoTo("score")
     \/ In("reuse", "loop") /\ GoTo("score")
  /\ UNCHANGED <<captureVars, fileVars, commands, faults>>

CopyRun ==
  /\ In("multi_run", "copy")
  /\ runs' = [runs EXCEPT ![Top.i] = file["labeled"]]
  /\ stack' = [stack EXCEPT ![Len(stack)].at = "loop", ![Len(stack)].i = @ + 1]
  /\ UNCHANGED <<captureVars, file, backups, clock, reports, kept, commands, faults>>

\* Every run file is scored; one that may not be ends the whole.
Saved == {runs[i] : i \in {k \in 1..RUNS : Exists(runs[k])}}
MultiScore ==
  /\ Multi("score")
  /\ IF Saved # {} /\ \A test \in Saved : Scorable(test) /\ label_problems(test) = {}
     THEN reports' = reports \cup {Report(Top.script, test) : test \in Saved} /\ Exit0
     ELSE Fail /\ UNCHANGED reports
  /\ UNCHANGED <<captureVars, file, runs, backups, clock, kept, commands, faults>>

----------------------------------------------------------------------------
(* Interruption and death of the scripts.                                  *)

\* Ctrl-C reaches every script and child; only capturing has something to undo.
Interrupt ==
  /\ stack # <<>>
  /\ ~Stopping
  /\ Fault
  /\ live' \in SUBSET live
  /\ IF Top.script \in {"scenario", "baseline"} /\ Top.at \notin {"start", "launch"}
     THEN GoTo("stop_failed") ELSE Fail
  /\ UNCHANGED <<port_file, memory, session, fileVars, commands>>

\* The scripts are killed: the children stay, and a file that is being written is
\* cut off.  A second Ctrl-C while a script stops its children does the same, and
\* so does a calling script that ends a called one a moment after Ctrl-C.
CutOff(f) == {[f EXCEPT !.rows = SubSeq(@, 1, n)] : n \in 0..Len(f.rows)}
WrittenInPart ==
  \/ /\ In("label", "start") /\ Exists(file["capture"]) /\ Exists(file["manifest"])
     /\ \E f \in CutOff(LabelledNow) : file' = [file EXCEPT !["labeled"] = f]
     /\ UNCHANGED runs
  \/ /\ In("tuning", "copy")
     /\ \E f \in CutOff(file["labeled"]) : file' = [file EXCEPT !["tuning"] = f]
     /\ UNCHANGED runs
  \/ /\ In("multi_run", "copy")
     /\ \E f \in CutOff(file["labeled"]) : runs' = [runs EXCEPT ![Top.i] = f]
     /\ UNCHANGED file
Kill ==
  /\ stack # <<>>
  /\ Fault
  /\ stack' = <<>>
  /\ WrittenInPart \/ UNCHANGED <<file, runs>>
  /\ UNCHANGED <<captureVars, backups, clock, reports, kept, commands>>

----------------------------------------------------------------------------
Init ==
  /\ stack = <<>>
  /\ live = {}
  /\ port_file = "none"
  /\ memory = Noted("capture")
  /\ session = 0
  /\ file = [n \in Names \cup Manifests |-> IF n \in Names THEN NoFile ELSE NoManifest]
  /\ runs = [i \in 1..RUNS |-> NoFile]
  /\ backups = <<>>
  /\ clock = 0
  /\ reports = {}
  /\ kept = {}
  /\ commands = 0
  /\ faults = 0

Capture ==
  \/ StartBaseline \/ LaunchPlc \/ LaunchTap \/ LaunchHmi \/ NotUp
  \/ ReadPort \/ ReadEmptyPort \/ NoPort \/ BaselineOver
  \/ \E a \in Attacks : RunAttack(a) \/ AttackFails(a)
  \/ WriteManifest \/ StopChild \/ Stopped
Children ==
  \/ TapOpens \/ HmiCreatesPortFile \/ HmiWritesPort \/ HmiPolls
  \/ \E c \in live : ChildDies(c)
Pipeline ==
  \/ LabelMissing \/ Label
  \/ TuningCalls \/ BackUpTuning \/ CopyTuning
  \/ Evaluate \/ MultiStart \/ MultiCapture \/ CopyRun \/ MultiScore

Next ==
  \/ \E c \in Commands : Type(c)
  \/ StopStrays
  \/ Capture
  \/ Children
  \/ Pipeline
  \/ Interrupt
  \/ Kill

Spec == Init /\ [][Next]_vars

----------------------------------------------------------------------------
(* Properties.                                                             *)

\* The tests of a multi-run and its tuning session hold the rows of one session,
\* labelled with that session's manifest, and no attack packet of a test is
\* missing: the labeler stops the pipeline "instead of scoring a run whose unmatched
\* attacks quietly dropped out of the count" (label_dataset.py:27-32,
\* multi_run.py:123-130).  Captures, manifests and labels of sessions that failed
\* lie around all the time.
OneSession(f) == f.truth.of = f.of /\ \A r \in Range(f.rows) : r[1] = f.of
MultiRunScoresTrueSessions ==
  \A r \in reports :
    /\ r.by \in {"multi_run", "reuse"} => OneSession(r.test) /\ OneSession(r.tune)
    /\ r.by = "multi_run" => NotCaptured(r.test) = {}

\* Nothing is ever scored against itself: the sessions of a report are three,
\* "never mixed", though labeled.csv is copied to the tuning file and left in
\* its place (evaluate.py:19-27, 83-99; capture_tuning.py:16-19).
ThreeSessions ==
  \A r \in reports :
    r.train.of # r.tune.of /\ r.train.of # r.test.of /\ r.tune.of # r.test.of

\* A training or tuning session that was finished is still there, in its place or
\* among the backups: "never overwritten" (capture_baseline.py:15-17).
FinishedSessionsSurvive ==
  \A f \in kept : f \in {file[n] : n \in DOMAIN file} \cup Range(backups)

\* The manifest next to the tuning session is its own, whenever the capture of a
\* new one stopped (capture_tuning.py:39-42).
TuningManifestBelongs ==
  Exists(file["tuning"]) /\ Exists(file["tuning_manifest"])
    => file["tuning"].of = file["tuning_manifest"].of

\* When the user gets the prompt back, all children have stopped, however the
\* command ended, unless it was killed: "all processes stopped"
\* (run_scenario.py:240-251).
NothingLeftRunning == [][stack # <<>> /\ stack' = <<>> /\ ~Kill => live' = {}]_vars
=============================================================================
