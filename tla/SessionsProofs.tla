--------------------------- MODULE SessionsProofs ---------------------------
(* What is scored, what survives and what is left running, for any number of *)
(* commands, sessions, runs and faults.                                      *)
EXTENDS Sessions, TLAPS

----------------------------------------------------------------------------
(* The invariant.                                                          *)

Clients == Attacks \cup {"hmi"}
Places == {"start", "launch", "plc", "tap", "port", "attack", "stop", "stop_failed",
           "label", "backup", "backup_manifest", "copy", "copy_manifest",
           "tuned", "loop", "score"}
FrameType == [script : Commands, at : Places, i : Nat \ {0}]
ManifestType == [of : Nat, hmi : BOOLEAN, logged : SUBSET Attacks]
RowType == Nat \X Clients
FileType == [of : Nat, rows : Seq(RowType), truth : ManifestType]
MemoryType == [out : {"capture", "baseline"}, hmi : BOOLEAN,
               tried : SUBSET Attacks, logged : SUBSET Attacks]

TypeInv ==
  /\ stack \in Seq(FrameType)
  /\ live \in SUBSET {"plc", "tap", "hmi"}
  /\ memory \in MemoryType
  /\ session \in Nat /\ clock \in Nat
  /\ DOMAIN file = Names \cup Manifests
  /\ \A n \in Names : file[n] \in FileType
  /\ \A n \in Manifests : file[n] \in ManifestType
  /\ runs \in [1..RUNS -> FileType]

\* Which script runs which, and where it goes on then.
Calls(caller, script) ==
  \/ /\ caller.script \in {"tuning", "multi_run"} /\ caller.at = "label"
     /\ script = "scenario"
  \/ /\ \/ caller.script = "tuning" /\ caller.at = "backup"
        \/ caller.script = "multi_run" /\ caller.at = "copy"
     /\ script = "label"
  \/ /\ caller.script \in {"multi_run", "reuse"} /\ caller.at = "tuned"
     /\ script = "tuning"

\* A capturing script that has children to stop.
Busy == /\ stack # <<>>
        /\ Top.script \in {"scenario", "baseline"}
        /\ Top.at \notin {"start", "launch"}
StackInv ==
  /\ \A j \in 1..Len(stack)-1 : Calls(stack[j], stack[j+1].script)
  /\ stack # <<>> /\ ~Busy => live = {}

\* Two files of one session have one first request; and while a session is
\* captured no other file is of it.
Data == {file[n] : n \in Names} \cup {runs[i] : i \in 1..RUNS}
FilesInv ==
  /\ \A f \in Data : f.of <= session /\ \A r \in Range(f.rows) : r[1] = f.of
  /\ \A f, g \in Data :
       f.of = g.of /\ f.rows # <<>> /\ g.rows # <<>> => f.rows[1] = g.rows[1]
  /\ \A n \in Manifests : file[n].of <= session
  /\ live # {} => /\ 0 < session
                  /\ \A n \in Names \ {Out} : file[n].of < session
                  /\ \A i \in 1..RUNS : runs[i].of < session

CaptureInv ==
  /\ Busy => /\ 0 < session
             /\ Out = IF Top.script = "scenario" THEN "capture" ELSE "baseline"
             /\ Top.at \in {"port", "attack", "stop"} => file[Out].of = session
  /\ In("scenario", "stop") => file["manifest"].of = session
  /\ In("baseline", "launch") => file["baseline"].of = 0
  /\ live # {} /\ Out = "baseline" => file["baseline"].of \in {0, session}

\* The capture and the manifest are the last session's, and so are the labels.
Fresh == 0 < session /\ file["capture"].of = session /\ file["manifest"].of = session
Labelled == /\ 0 < session /\ file["manifest"].of = session
            /\ file["labeled"].of = session /\ file["labeled"].truth.of = session
            /\ NotCaptured(file["labeled"]) = {}
ToLabel == In("tuning", "label") \/ In("multi_run", "label")
ToCopy == \/ In("tuning", "backup") \/ In("tuning", "backup_manifest")
          \/ In("tuning", "copy") \/ In("multi_run", "copy")
PipelineInv ==
  /\ ToLabel => Fresh
  /\ stack # <<>> /\ Top.script = "label" /\ Len(stack) > 1 => Fresh
  /\ ToCopy => Labelled
  /\ In("tuning", "copy_manifest") =>
       0 < session /\ file["manifest"].of = session /\ file["tuning"].of = session
  /\ file["tuning"].truth.of = file["tuning"].of
  /\ \A i \in 1..RUNS : runs[i].truth.of = runs[i].of

\* Runs of this command that were copied are whole.
RunsInv ==
  /\ \A j \in 1..Len(stack) : stack[j].script = "multi_run" =>
       \A k \in 1..RUNS : k < stack[j].i => NotCaptured(runs[k]) = {}
  /\ In("multi_run", "score") => Top.i > RUNS

\* What was moved aside is not there.
AsideInv ==
  /\ In("tuning", "backup_manifest") \/ In("tuning", "copy") => file["tuning"].of = 0
  /\ In("tuning", "copy") \/ In("tuning", "copy_manifest") => file["tuning_manifest"].of = 0
  /\ TuningManifestBelongs

\* A script that may move a file aside finds this second's name for it free.
Used(name) == <<name, clock>> \in DOMAIN backups
Tunes(s, places) == \/ s.script \in {"multi_run", "reuse"} /\ s.at = "start"
                    \/ s.script = "tuning" /\ s.at \in places
Free(s) ==
  /\ s.script = "baseline" /\ s.at = "start" => ~Used("baseline")
  /\ Tunes(s, {"start", "label", "backup"}) => ~Used("tuning")
  /\ Tunes(s, {"start", "label", "backup", "backup_manifest"}) => ~Used("tuning_manifest")
StampsInv ==
  /\ \A n \in Names \cup Manifests, t \in Nat : <<n, t>> \in DOMAIN backups => t <= clock
  /\ \A j \in 1..Len(stack) : Free(stack[j])

Keeping == {"baseline", "tuning", "tuning_manifest"}
KeptInv ==
  /\ \A f \in kept : /\ f.of \in Nat /\ 0 < f.of /\ f.of <= session
                     /\ f \in {file[n] : n \in Keeping} \cup Range(backups)
                     /\ live # {} /\ Out = "baseline" => f.of < session

ReportsInv == MultiRunScoresTrueSessions /\ ThreeSessions

FInv == /\ TypeInv /\ StackInv /\ FilesInv /\ CaptureInv /\ PipelineInv
        /\ RunsInv /\ AsideInv /\ StampsInv /\ KeptInv
SInv == FInv /\ ReportsInv

----------------------------------------------------------------------------
(* Steps of the stack.                                                     *)

LEMMA TopFrame ==
  ASSUME TypeInv, stack # <<>>
  PROVE  /\ Len(stack) \in Nat \ {0} /\ Len(stack) \in 1..Len(stack)
         /\ Top = stack[Len(stack)] /\ Top \in FrameType
         /\ Top.script \in Commands /\ Top.at \in Places /\ Top.i \in Nat \ {0}
<1>1. stack \in Seq(FrameType) /\ Len(stack) \in Nat /\ Len(stack) # 0
  BY DEF TypeInv
<1>2. Len(stack) \in 1..Len(stack)
  BY <1>1
<1>3. Top \in FrameType
  BY <1>1, <1>2 DEF Top
<1> QED BY <1>1, <1>2, <1>3 DEF Top, FrameType

\* The frames but for the top, and what script each runs, stay as they are.
Beneath == \A j \in 1..Len(stack) : j # Len(stack) => stack'[j] = stack[j]

LEMMA GoToStack ==
  ASSUME TypeInv, stack # <<>>, NEW place \in Places, GoTo(place)
  PROVE  /\ stack' \in Seq(FrameType) /\ Len(stack') = Len(stack) /\ stack' # <<>>
         /\ Top' = [Top EXCEPT !.at = place]
         /\ Top'.script = Top.script /\ Top'.at = place /\ Top'.i = Top.i
         /\ stack'[Len(stack)] = Top' /\ Beneath
<1>1. stack \in Seq(FrameType) /\ Len(stack) \in 1..Len(stack) /\ Top = stack[Len(stack)]
      /\ Top \in FrameType
  BY TopFrame DEF TypeInv
<1>2. [Top EXCEPT !.at = place] \in FrameType
  BY <1>1 DEF FrameType
<1>3. stack' = [stack EXCEPT ![Len(stack)] = [Top EXCEPT !.at = place]]
  BY <1>1 DEF GoTo
<1>4. /\ stack' \in Seq(FrameType) /\ Len(stack') = Len(stack)
      /\ stack'[Len(stack)] = [Top EXCEPT !.at = place] /\ Beneath
  BY <1>1, <1>2, <1>3 DEF Beneath
<1>5. Top' = stack'[Len(stack)] /\ stack' # <<>>
  BY <1>1, <1>4 DEF Top
<1>6. /\ [Top EXCEPT !.at = place].script = Top.script
      /\ [Top EXCEPT !.at = place].at = place
      /\ [Top EXCEPT !.at = place].i = Top.i
  BY <1>1 DEF FrameType
<1> QED BY <1>4, <1>5, <1>6

LEMMA CallStack ==
  ASSUME TypeInv, stack # <<>>, NEW place \in Places, NEW script \in Commands,
         CallThen(script, place)
  PROVE  /\ stack' \in Seq(FrameType) /\ Len(stack') = Len(stack) + 1 /\ stack' # <<>>
         /\ Top' = stack'[Len(stack) + 1]
         /\ Top'.script = script /\ Top'.at = "start" /\ Top'.i = 1
         /\ stack'[Len(stack)].script = Top.script /\ stack'[Len(stack)].at = place
         /\ stack'[Len(stack)].i = Top.i /\ Beneath
<1>1. stack \in Seq(FrameType) /\ Len(stack) \in 1..Len(stack) /\ Top = stack[Len(stack)]
      /\ Top \in FrameType /\ Len(stack) \in Nat
  BY TopFrame DEF TypeInv
<1>2. [Top EXCEPT !.at = place] \in FrameType
  BY <1>1 DEF FrameType
<1>3. Frame(script) \in FrameType
  BY DEF Frame, FrameType, Places
<1> DEFINE s == [stack EXCEPT ![Len(stack)] = [Top EXCEPT !.at = place]]
<1>4. stack' = Append(s, Frame(script))
  BY <1>1 DEF CallThen
<1>5. s \in Seq(FrameType) /\ Len(s) = Len(stack) /\ s[Len(stack)] = [Top EXCEPT !.at = place]
      /\ \A j \in 1..Len(stack) : j # Len(stack) => s[j] = stack[j]
  BY <1>1, <1>2
<1> HIDE DEF s
<1>6. /\ stack' \in Seq(FrameType) /\ Len(stack') = Len(stack) + 1
      /\ stack'[Len(stack) + 1] = Frame(script)
      /\ \A j \in 1..Len(stack) : stack'[j] = s[j]
  BY <1>1, <1>3, <1>4, <1>5
<1>7. Top' = Frame(script) /\ stack' # <<>>
  BY <1>1, <1>6 DEF Top
<1>8. /\ [Top EXCEPT !.at = place].script = Top.script
      /\ [Top EXCEPT !.at = place].at = place
      /\ [Top EXCEPT !.at = place].i = Top.i
  BY <1>1 DEF FrameType
<1>9. Frame(script).script = script /\ Frame(script).at = "start" /\ Frame(script).i = 1
  BY DEF Frame
<1>10. stack'[Len(stack)] = [Top EXCEPT !.at = place]
  BY <1>1, <1>5, <1>6
<1>11. Beneath
  BY <1>5, <1>6 DEF Beneath
<1> QED BY <1>6, <1>7, <1>8, <1>9, <1>10, <1>11

LEMMA ExitStack ==
  ASSUME TypeInv, stack # <<>>, Exit0
  PROVE  /\ stack' \in Seq(FrameType) /\ Len(stack') = Len(stack) - 1
         /\ \A j \in 1..Len(stack') : stack'[j] = stack[j]
         /\ Len(stack) = 1 => stack' = <<>>
         /\ Len(stack) > 1 => stack' # <<>> /\ Top' = stack[Len(stack) - 1]
<1>1. stack \in Seq(FrameType) /\ Len(stack) \in Nat \ {0}
  BY TopFrame DEF TypeInv
<1>2. stack' = [j \in 1..Len(stack)-1 |-> stack[j]]
  BY <1>1 DEF Exit0, Front
<1>3. /\ stack' \in Seq(FrameType) /\ Len(stack') = Len(stack) - 1
      /\ \A j \in 1..Len(stack') : stack'[j] = stack[j]
  BY <1>1, <1>2
<1>4. Len(stack) = 1 => stack' = <<>>
  BY <1>1, <1>2, <1>3
<1>5. Len(stack) > 1 => stack' # <<>> /\ Top' = stack[Len(stack) - 1]
  BY <1>1, <1>3 DEF Top
<1> QED BY <1>3, <1>4, <1>5

----------------------------------------------------------------------------
(* Kinds of steps.                                                         *)

\* All scripts have ended, or had before.
LEMMA Ends ==
  ASSUME FInv, stack' = <<>>, live' \in SUBSET live,
         UNCHANGED <<memory, session, file, runs, backups, clock>>,
         kept' = kept \/ KeptInv'
  PROVE  FInv'
<1>1. TypeInv'
  BY DEF FInv, TypeInv
<1>2. StackInv'
  BY DEF StackInv
<1>3. FilesInv'
  BY DEF FInv, FilesInv, Data, Out
<1>4. CaptureInv'
  BY DEF FInv, CaptureInv, In, Busy, Out
<1>5. PipelineInv'
  BY DEF FInv, PipelineInv, ToLabel, ToCopy, In, NotCaptured
<1>6. RunsInv'
  BY DEF RunsInv, In
<1>7. AsideInv'
  BY DEF FInv, AsideInv, In, TuningManifestBelongs
<1>8. StampsInv'
  BY DEF FInv, StampsInv, Free, Used, Tunes
<1>9. KeptInv'
  BY DEF FInv, KeptInv, Out
<1> QED BY <1>1, <1>2, <1>3, <1>4, <1>5, <1>6, <1>7, <1>8, <1>9 DEF FInv

\* They have, and left a file behind.
LEMMA EndsIdle ==
  ASSUME stack' = <<>>, live' = {}, TypeInv', FilesInv',
         file'["tuning"].truth.of = file'["tuning"].of,
         \A i \in 1..RUNS : runs'[i].truth.of = runs'[i].of,
         TuningManifestBelongs', KeptInv', FInv, UNCHANGED <<backups, clock>>
  PROVE  FInv'
<1>1. StackInv' /\ RunsInv' /\ StampsInv'
  BY DEF StackInv, RunsInv, StampsInv, In, FInv
<1>2. CaptureInv' /\ PipelineInv' /\ AsideInv'
  BY DEF CaptureInv, PipelineInv, ToLabel, ToCopy, AsideInv, In, Busy
<1> QED BY <1>1, <1>2 DEF FInv

\* Something happens to the children, or to what a script notes.
LEMMA Beside ==
  ASSUME FInv, stack' = stack, live' \in SUBSET {"plc", "tap", "hmi"}, live' # {} => live # {},
         memory' \in MemoryType, memory'.out = memory.out,
         UNCHANGED <<session, file, runs, backups, clock, kept>>
  PROVE  FInv'
<1>0. Top' = Top /\ Out' = Out /\ Data' = Data
  BY DEF Top, Out, Data
<1>1. TypeInv'
  BY DEF FInv, TypeInv
<1>2. StackInv'
  BY <1>0 DEF FInv, StackInv, Busy
<1>3. FilesInv'
  BY <1>0 DEF FInv, FilesInv
<1>4. CaptureInv'
  BY <1>0 DEF FInv, CaptureInv, In, Busy
<1>5. PipelineInv'
  BY <1>0 DEF FInv, PipelineInv, ToLabel, ToCopy, In, Fresh, Labelled, NotCaptured
<1>6. RunsInv'
  BY <1>0 DEF FInv, RunsInv, In, NotCaptured
<1>7. AsideInv'
  BY <1>0 DEF FInv, AsideInv, In, TuningManifestBelongs
<1>8. StampsInv'
  BY DEF FInv, StampsInv, Free, Used, Tunes
<1>9. KeptInv'
  BY <1>0 DEF FInv, KeptInv
<1> QED BY <1>1, <1>2, <1>3, <1>4, <1>5, <1>6, <1>7, <1>8, <1>9 DEF FInv

\* The frames of the stack but for where the top one is.
LEMMA SameCalls ==
  ASSUME FInv, stack # <<>>, NEW place \in Places, GoTo(place)
  PROVE  /\ \A j \in 1..Len(stack')-1 : Calls(stack'[j], stack'[j+1].script)
         /\ \A j \in 1..Len(stack) : stack'[j].script = stack[j].script /\ stack'[j].i = stack[j].i
<1>1. /\ Len(stack') = Len(stack) /\ Top'.script = Top.script /\ Top'.i = Top.i
      /\ stack'[Len(stack)] = Top' /\ Beneath
  BY GoToStack DEF FInv
<1>2. Top = stack[Len(stack)] /\ Len(stack) \in Nat
  BY TopFrame DEF FInv
<1>3. \A j \in 1..Len(stack) : stack'[j].script = stack[j].script /\ stack'[j].i = stack[j].i
  BY <1>1, <1>2 DEF Beneath
<1>4. ASSUME NEW j \in 1..Len(stack)-1 PROVE Calls(stack'[j], stack'[j+1].script)
  <2>1. j \in 1..Len(stack) /\ j # Len(stack) /\ j+1 \in 1..Len(stack)
    BY <1>2
  <2>2. stack'[j] = stack[j]
    BY <2>1 , <1>1 DEF Beneath
  <2>3. stack'[j+1].script = stack[j+1].script
    BY <1>3, <2>1
  <2>4. Calls(stack[j], stack[j+1].script)
    BY DEF FInv, StackInv
  <2> QED BY <2>2, <2>3, <2>4
<1> QED BY <1>1, <1>3, <1>4

\* A capturing script goes on.
LEMMA Within ==
  ASSUME FInv, Busy, live' \in SUBSET {"plc", "tap", "hmi"}, live' # {} => live # {},
         memory' \in MemoryType, memory'.out = memory.out,
         UNCHANGED <<session, file, runs, backups, clock, kept>>,
         NEW place \in Places \ {"start", "launch"}, GoTo(place),
         place \in {"port", "attack", "stop"} => file[Out].of = session,
         place = "stop" => Top.script # "scenario"
  PROVE  FInv'
<1>0. Out' = Out /\ Data' = Data
  BY DEF Out, Data
<1>a. /\ stack' \in Seq(FrameType) /\ Len(stack') = Len(stack) /\ stack' # <<>>
      /\ Top'.script = Top.script /\ Top'.at = place /\ Top'.i = Top.i
      /\ stack'[Len(stack)] = Top' /\ Beneath
  BY GoToStack DEF FInv, Busy
<1>b. Top = stack[Len(stack)] /\ Len(stack) \in Nat
  BY TopFrame DEF FInv, Busy
<1>c. Top.script \in {"scenario", "baseline"} /\ Busy' /\ stack # <<>>
  BY <1>a DEF Busy
<1>1. TypeInv'
  BY <1>a DEF FInv, TypeInv
<1>2. StackInv'
  BY <1>c, SameCalls DEF StackInv
<1>3. FilesInv'
  BY <1>0 DEF FInv, FilesInv
<1>4. CaptureInv'
  BY <1>0, <1>a, <1>c DEF FInv, CaptureInv, In
<1>5. PipelineInv'
  BY <1>0, <1>a, <1>c DEF FInv, PipelineInv, ToLabel, ToCopy, In, NotCaptured
<1>6. RunsInv'
  <2>1. \A j \in 1..Len(stack) : stack'[j].script = stack[j].script /\ stack'[j].i = stack[j].i
    BY <1>c, SameCalls
  <2> QED BY <1>a, <1>c, <2>1 DEF FInv, RunsInv, In, NotCaptured
<1>7. AsideInv'
  BY <1>0, <1>a, <1>c DEF FInv, AsideInv, In, TuningManifestBelongs
<1>8. StampsInv'
  <2>0. \A s : Free(s)' = Free(s)
    BY DEF Free, Used, Tunes
  <2>1. Free(Top')
    BY <1>a, <1>c DEF Free, Tunes
  <2>2. \A j \in 1..Len(stack) : Free(stack'[j])
    BY <1>a, <2>1 DEF FInv, StampsInv, Beneath
  <2> QED BY <1>a, <2>0, <2>2 DEF FInv, StampsInv
<1>9. KeptInv'
  BY <1>0 DEF FInv, KeptInv
<1> QED BY <1>1, <1>2, <1>3, <1>4, <1>5, <1>6, <1>7, <1>8, <1>9 DEF FInv

\* The tap writes to its file.
LEMMA Writes ==
  ASSUME FInv, live # {}, NEW v \in FileType, v.of = session,
         \A r \in Range(v.rows) : r[1] = session,
         file' = [file EXCEPT ![Out] = v],
         memory' \in MemoryType, memory'.out = memory.out,
         UNCHANGED <<stack, live, session, runs, backups, clock, kept>>
  PROVE  FInv'
<1>0. /\ Out' = Out /\ Top' = Top /\ Out \in {"capture", "baseline"} /\ Out \in Names
      /\ DOMAIN file = Names \cup Manifests
      /\ session \in Nat /\ 0 < session
  BY DEF Out, Top, FInv, TypeInv, MemoryType, Names, FilesInv
<1>1. /\ DOMAIN file' = DOMAIN file /\ file'[Out] = v
      /\ \A n \in Names \cup Manifests : n # Out => file'[n] = file[n]
  BY <1>0
<1>2. Out \notin Manifests /\ Out # "tuning" /\ Out # "labeled"
  BY <1>0 DEF Manifests
<1>3. stack # <<>> => Busy
  BY DEF FInv, StackInv
<1>4. TypeInv'
  BY <1>0, <1>1, <1>2 DEF FInv, TypeInv
<1>5. StackInv'
  BY <1>0 DEF FInv, StackInv, Busy
<1>6. FilesInv'
  <2> DEFINE Others == {file[n] : n \in Names \ {Out}} \cup {runs[i] : i \in 1..RUNS}
  <2>1. \A f \in Data' : f = v \/ f \in Others
    BY <1>0, <1>1 DEF Data
  <2>2. Others \subseteq Data /\ Data \subseteq FileType
    BY DEF Data, FInv, TypeInv
  <2>3. \A f \in Others : f.of < session
    BY DEF FInv, FilesInv
  <2> HIDE DEF Others
  <2>4. \A f \in Data' : f.of <= session' /\ \A r \in Range(f.rows) : r[1] = f.of
    BY <1>0, <2>1, <2>2 DEF FInv, FilesInv
  <2>5. \A f \in Others : f.of \in Nat
    BY <2>2 DEF FileType
  <2>6. \A f, g \in Data' :
          f.of = g.of /\ f.rows # <<>> /\ g.rows # <<>> => f.rows[1] = g.rows[1]
    <3> SUFFICES ASSUME NEW f \in Data', NEW g \in Data',
                        f.of = g.of, f.rows # <<>>, g.rows # <<>>
                 PROVE  f.rows[1] = g.rows[1]
      OBVIOUS
    <3>1. CASE f = v /\ g = v
      BY <3>1
    <3>2. CASE f \in Others /\ g \in Others
      BY <2>2, <3>2 DEF FInv, FilesInv
    <3>3. CASE f = v /\ g \in Others
      BY <1>0, <2>3, <2>5, <3>3
    <3>4. CASE f \in Others /\ g = v
      BY <1>0, <2>3, <2>5, <3>4
    <3> QED BY <2>1, <3>1, <3>2, <3>3, <3>4
  <2>7. \A n \in Manifests : file'[n].of <= session
    BY <1>1, <1>2 DEF FInv, FilesInv
  <2>8. /\ 0 < session /\ \A n \in Names \ {Out} : file'[n].of < session
        /\ \A i \in 1..RUNS : runs[i].of < session
    BY <1>0, <1>1 DEF FInv, FilesInv
  <2> QED BY <1>0, <2>4, <2>6, <2>7, <2>8 DEF FilesInv
<1>7. CaptureInv'
  BY <1>0, <1>1, <1>2, <1>3 DEF FInv, CaptureInv, In, Busy, Manifests
<1>8. PipelineInv'
  <2>1. file'["tuning"] = file["tuning"] /\ file'["labeled"] = file["labeled"]
        /\ file'["manifest"] = file["manifest"]
    BY <1>1, <1>2 DEF Names, Manifests
  <2> QED BY <1>0, <1>3, <2>1 DEF FInv, PipelineInv, ToLabel, ToCopy, In, Busy
<1>9. RunsInv'
  BY <1>0 DEF FInv, RunsInv, In, NotCaptured
<1>10. AsideInv'
  <2>1. file'["tuning"] = file["tuning"] /\ file'["tuning_manifest"] = file["tuning_manifest"]
    BY <1>1, <1>2 DEF Names, Manifests
  <2> QED BY <1>0, <2>1 DEF FInv, AsideInv, In, TuningManifestBelongs, Exists
<1>11. StampsInv'
  BY DEF FInv, StampsInv, Free, Used, Tunes
<1>12. KeptInv'
  <2> SUFFICES ASSUME NEW f \in kept
               PROVE  /\ f.of \in Nat /\ 0 < f.of /\ f.of <= session
                      /\ f \in {file'[n] : n \in Keeping} \cup Range(backups)
                      /\ live # {} /\ Out = "baseline" => f.of < session
    BY <1>0 DEF KeptInv
  <2>1. /\ f.of \in Nat /\ 0 < f.of /\ f.of <= session
        /\ f \in {file[n] : n \in Keeping} \cup Range(backups)
        /\ live # {} /\ Out = "baseline" => f.of < session
    BY DEF FInv, KeptInv
  <2>2. f # file[Out] \/ Out = "capture"
    BY <1>0, <2>1 DEF FInv, CaptureInv
  <2>3. \A n \in Keeping : file[n] = f => file'[n] = f
    BY <1>1, <2>2 DEF Keeping, Names, Manifests
  <2> QED BY <2>1, <2>3
<1> QED BY <1>4, <1>5, <1>6, <1>7, <1>8, <1>9, <1>10, <1>11, <1>12 DEF FInv

LEMMA OneOrTwo ==
  ASSUME NEW n \in Nat, n >= 1
  PROVE  /\ ~(n > 1) => n = 1
         /\ n > 1 /\ ~(n > 2) => n = 2 /\ n - 1 = 1
OBVIOUS

\* How deep the stack is, and who called the top script.
LEMMA Callers ==
  ASSUME FInv, stack # <<>>
  PROVE  /\ Top.script \in {"baseline", "evaluate", "multi_run", "reuse"} => Len(stack) = 1
         /\ Len(stack) > 1 =>
              /\ Len(stack) - 1 \in 1..Len(stack)
              /\ Calls(stack[Len(stack) - 1], Top.script)
         /\ Top.script = "tuning" /\ Len(stack) > 1 =>
              /\ Len(stack) = 2
              /\ stack[1].script \in {"multi_run", "reuse"} /\ stack[1].at = "tuned"
<1>0. Len(stack) \in Nat /\ Len(stack) >= 1
  BY TopFrame DEF FInv
<1>1. Top = stack[Len(stack)] /\ Len(stack) \in Nat
  BY TopFrame DEF FInv
<1>2. Len(stack) > 1 => /\ Len(stack) - 1 \in 1..Len(stack)
                       /\ Calls(stack[Len(stack) - 1], Top.script)
  <2> SUFFICES ASSUME Len(stack) > 1
               PROVE  Len(stack) - 1 \in 1..Len(stack) /\ Calls(stack[Len(stack) - 1], Top.script)
    OBVIOUS
  <2>1. PICK j \in 1..Len(stack)-1 : j = Len(stack) - 1 /\ j + 1 = Len(stack)
    BY <1>1
  <2>2. Calls(stack[j], stack[j+1].script)
    BY DEF FInv, StackInv
  <2> QED BY <1>1, <2>1, <2>2
<1>3. Top.script \in {"baseline", "evaluate", "multi_run", "reuse"} => Len(stack) = 1
  <2>1. Top.script \in {"baseline", "evaluate", "multi_run", "reuse"} => ~(Len(stack) > 1)
    BY <1>2, Zenon DEF Calls
  <2>2. ~(Len(stack) > 1) => Len(stack) = 1
    BY <1>0, OneOrTwo
  <2> QED BY <2>1, <2>2
<1>4. Len(stack) > 2 => Calls(stack[Len(stack) - 2], stack[Len(stack) - 1].script)
  <2> SUFFICES ASSUME Len(stack) > 2
               PROVE  Calls(stack[Len(stack) - 2], stack[Len(stack) - 1].script)
    OBVIOUS
  <2>0. Len(stack) - 2 \in 1..Len(stack)-1 /\ (Len(stack) - 2) + 1 = Len(stack) - 1
    BY <1>1
  <2>1. PICK j \in 1..Len(stack)-1 : j = Len(stack) - 2 /\ j + 1 = Len(stack) - 1
    BY <2>0, Zenon
  <2>2. Calls(stack[j], stack[j+1].script)
    BY DEF FInv, StackInv
  <2> QED BY <2>1, <2>2
<1>5. ASSUME Top.script = "tuning", Len(stack) > 1
      PROVE  Len(stack) = 2 /\ stack[1].script \in {"multi_run", "reuse"} /\ stack[1].at = "tuned"
  <2>1. /\ stack[Len(stack) - 1].script \in {"multi_run", "reuse"}
        /\ stack[Len(stack) - 1].at = "tuned"
    BY <1>2, <1>5 DEF Calls
  <2>2. ~(Len(stack) > 2)
    BY <1>4, <2>1 DEF Calls
  <2>3. Len(stack) = 2 /\ Len(stack) - 1 = 1
    <3>1. Len(stack) > 1 /\ ~(Len(stack) > 2) => Len(stack) = 2 /\ Len(stack) - 1 = 1
      BY <1>0, OneOrTwo
    <3> QED BY <1>5, <2>2, <3>1
  <2> QED BY <2>1, <2>3
<1> QED BY <1>2, <1>3, <1>5

\* A script calls another.
LEMMA Calling ==
  ASSUME FInv, stack # <<>>, NEW script \in Commands, NEW place \in Places,
         CallThen(script, place),
         \/ /\ Top.script = "tuning"
            /\ \/ Top.at = "start" /\ script = "scenario" /\ place = "label"
               \/ Top.at = "label" /\ script = "label" /\ place = "backup"
         \/ /\ Top.script \in {"multi_run", "reuse"}
            /\ Top.at = "start" /\ script = "tuning" /\ place = "tuned"
         \/ /\ Top.script = "multi_run"
            /\ \/ Top.at = "loop" /\ script = "scenario" /\ place = "label"
               \/ Top.at = "label" /\ script = "label" /\ place = "copy",
         UNCHANGED <<live, memory, session, file, runs, backups, clock, kept>>
  PROVE  FInv'
<1>0. Out' = Out /\ Data' = Data
  BY DEF Out, Data
<1>a. /\ stack' \in Seq(FrameType) /\ Len(stack') = Len(stack) + 1 /\ stack' # <<>>
      /\ Top' = stack'[Len(stack) + 1]
      /\ Top'.script = script /\ Top'.at = "start" /\ Top'.i = 1
      /\ stack'[Len(stack)].script = Top.script /\ stack'[Len(stack)].at = place
      /\ stack'[Len(stack)].i = Top.i /\ Beneath
  BY CallStack DEF FInv
<1>b. Top = stack[Len(stack)] /\ Len(stack) \in Nat
  BY TopFrame DEF FInv
<1>c. ~Busy /\ ~Busy' /\ live = {}
  BY <1>a DEF Busy, FInv, StackInv
<1>1. TypeInv'
  BY <1>a DEF FInv, TypeInv
<1>2. StackInv'
  <2>1. ASSUME NEW j \in 1..Len(stack')-1 PROVE Calls(stack'[j], stack'[j+1].script)
    <3>1. CASE j = Len(stack)
      BY <1>a, <3>1 DEF Calls
    <3>2. CASE j # Len(stack)
      <4>1. j \in 1..Len(stack)-1 /\ j \in 1..Len(stack) /\ j + 1 \in 1..Len(stack)
        BY <1>a, <1>b, <2>1, <3>2
      <4>2. stack'[j] = stack[j]
        BY <3>2, <4>1, <1>a DEF Beneath
      <4>3. stack'[j+1].script = stack[j+1].script
        BY <4>1, <1>a, <1>b DEF Beneath
      <4>4. Calls(stack[j], stack[j+1].script)
        BY <4>1 DEF FInv, StackInv
      <4> QED BY <4>2, <4>3, <4>4
    <3> QED BY <3>1, <3>2
  <2> QED BY <1>c, <2>1 DEF StackInv
<1>3. FilesInv'
  BY <1>0 DEF FInv, FilesInv
<1>4. CaptureInv'
  BY <1>0, <1>a, <1>c DEF FInv, CaptureInv, In
<1>5. PipelineInv'
  <2>1. script = "label" => Fresh
    BY DEF FInv, PipelineInv, ToLabel, ToCopy, In
  <2> QED BY <1>a, <2>1 DEF FInv, PipelineInv, ToLabel, ToCopy, In, Fresh
<1>6. RunsInv'
  <2>1. ASSUME NEW j \in 1..Len(stack'), stack'[j].script = "multi_run"
        PROVE  j \in 1..Len(stack) /\ stack'[j].script = stack[j].script /\ stack'[j].i = stack[j].i
    <3>1. j # Len(stack) + 1
      BY <1>a, <2>1
    <3> QED BY <1>a, <1>b, <2>1, <3>1 DEF Beneath
  <2> QED BY <1>a, <2>1 DEF FInv, RunsInv, In, NotCaptured
<1>7. AsideInv'
  BY <1>0, <1>a DEF FInv, AsideInv, In, TuningManifestBelongs
<1>8. StampsInv'
  <2>0. \A s : Free(s)' = Free(s)
    BY DEF Free, Used, Tunes
  <2>1. Free(Top)
    <3>1. Len(stack) \in 1..Len(stack)
      BY TopFrame DEF FInv
    <3> QED BY <1>b, <3>1 DEF FInv, StampsInv
  <2>2. Free(stack'[Len(stack) + 1]) /\ Free(stack'[Len(stack)])
    <3>1. \/ (Top.script \in {"multi_run", "reuse"} /\ Top.at = "start") /\ script = "tuning"
          \/ script \in {"scenario", "label"}
      BY DEF Tunes
    <3>2. \/ Top.script = "tuning" /\ Top.at \in {"start", "label"} /\ place \in {"label", "backup"}
          \/ Top.script \in {"multi_run", "reuse"} /\ place \in {"tuned", "label", "copy"}
      OBVIOUS
    <3> DEFINE caller == stack'[Len(stack)]
               called == stack'[Len(stack) + 1]
    <3>4. caller.script = Top.script /\ caller.at = place
      BY <1>a
    <3>30. called.script = script /\ called.at = "start"
      BY <1>a
    <3> HIDE DEF caller, called
    <3>31. (~Used("tuning") /\ ~Used("tuning_manifest")) \/ script \in {"scenario", "label"}
      BY <2>1, <3>1 DEF Free, Tunes
    <3>3. Free(called)
      BY <3>30, <3>31, <3>1 DEF Free, Tunes
    <3>5. Free(caller)
      BY <2>1, <3>2, <3>4 DEF Free, Tunes
    <3> QED BY <3>3, <3>5 DEF caller, called
  <2>3. \A j \in 1..Len(stack) : j # Len(stack) => Free(stack'[j])
    BY <1>a DEF FInv, StampsInv, Beneath
  <2>4. \A j \in 1..Len(stack') : Free(stack'[j])
    BY <1>a, <1>b, <2>2, <2>3
  <2>5. \A n \in Names \cup Manifests, t \in Nat : <<n, t>> \in DOMAIN backups => t <= clock
    BY DEF FInv, StampsInv, Free, Used, Tunes
  <2> QED BY <2>0, <2>4, <2>5 DEF StampsInv
<1>9. KeptInv'
  BY <1>0 DEF FInv, KeptInv
<1> QED BY <1>1, <1>2, <1>3, <1>4, <1>5, <1>6, <1>7, <1>8, <1>9 DEF FInv

\* multi_run goes on by itself.
LEMMA Proceeds ==
  ASSUME FInv, stack # <<>>, Top.script \in {"multi_run", "reuse"},
         NEW place \in {"tuned", "loop", "score"}, GoTo(place),
         place = "score" /\ Top.script = "multi_run" => Top.i > RUNS,
         UNCHANGED <<live, memory, session, file, runs, backups, clock, kept>>
  PROVE  FInv'
<1>0. Out' = Out /\ Data' = Data /\ place \in Places
  BY DEF Out, Data, Places
<1>a. /\ stack' \in Seq(FrameType) /\ Len(stack') = Len(stack) /\ stack' # <<>>
      /\ Top'.script = Top.script /\ Top'.at = place /\ Top'.i = Top.i
      /\ stack'[Len(stack)] = Top' /\ Beneath
  BY <1>0, GoToStack DEF FInv
<1>b. Top = stack[Len(stack)] /\ Len(stack) \in Nat
  BY TopFrame DEF FInv
<1>c. ~Busy /\ ~Busy' /\ live = {}
  BY <1>a DEF Busy, FInv, StackInv
<1>1. TypeInv'
  BY <1>a DEF FInv, TypeInv
<1>2. StackInv'
  BY <1>0, <1>c, SameCalls DEF StackInv
<1>3. FilesInv'
  BY <1>0 DEF FInv, FilesInv
<1>4. CaptureInv'
  BY <1>0, <1>a, <1>c DEF FInv, CaptureInv, In
<1>5. PipelineInv'
  BY <1>0, <1>a DEF FInv, PipelineInv, ToLabel, ToCopy, In
<1>6. RunsInv'
  <2>1. \A j \in 1..Len(stack) : stack'[j].script = stack[j].script /\ stack'[j].i = stack[j].i
    BY <1>0, SameCalls
  <2> QED BY <1>a, <2>1 DEF FInv, RunsInv, In, NotCaptured
<1>7. AsideInv'
  BY <1>0, <1>a DEF FInv, AsideInv, In, TuningManifestBelongs
<1>8. StampsInv'
  <2>0. \A s : Free(s)' = Free(s)
    BY DEF Free, Used, Tunes
  <2>1. Free(Top')
    BY <1>a DEF Free, Tunes
  <2>2. \A j \in 1..Len(stack) : Free(stack'[j])
    BY <1>a, <2>1 DEF FInv, StampsInv, Beneath
  <2> QED BY <1>a, <2>0, <2>2 DEF FInv, StampsInv
<1>9. KeptInv'
  BY <1>0 DEF FInv, KeptInv
<1> QED BY <1>1, <1>2, <1>3, <1>4, <1>5, <1>6, <1>7, <1>8, <1>9 DEF FInv

----------------------------------------------------------------------------
(* Steps that change files while no child runs.                            *)

\* A data file is replaced by one that agrees with the others on its first row.
LEMMA OneMore ==
  ASSUME FInv, live' = {}, session' = session,
         NEW v, v.of <= session, \A r \in Range(v.rows) : r[1] = v.of,
         \A g \in Data : g.of = v.of /\ g.rows # <<>> /\ v.rows # <<>> => v.rows[1] = g.rows[1],
         Data' \subseteq Data \cup {v},
         \A n \in Manifests : file'[n].of <= session
  PROVE  FilesInv'
<1>1. \A f \in Data' : f.of <= session' /\ \A r \in Range(f.rows) : r[1] = f.of
  BY DEF FInv, FilesInv
<1>2. ASSUME NEW f \in Data', NEW g \in Data',
             f.of = g.of, f.rows # <<>>, g.rows # <<>>
      PROVE  f.rows[1] = g.rows[1]
  <2>1. CASE f \in Data /\ g \in Data
    BY <1>2, <2>1 DEF FInv, FilesInv
  <2>2. CASE f = v
    BY <1>2, <2>2
  <2>3. CASE g = v
    BY <1>2, <2>3
  <2> QED BY <2>1, <2>2, <2>3
<1> QED BY <1>1, <1>2 DEF FilesInv

\* What a copy that is cut off holds.
LEMMA CutShort ==
  ASSUME NEW g \in FileType, NEW f \in CutOff(g)
  PROVE  /\ f \in FileType /\ f.of = g.of /\ f.truth = g.truth
         /\ \A r \in Range(f.rows) : r \in Range(g.rows)
         /\ f.rows # <<>> => g.rows # <<>> /\ f.rows[1] = g.rows[1]
<1>1. PICK n \in 0..Len(g.rows) : f = [g EXCEPT !.rows = SubSeq(g.rows, 1, n)]
  BY DEF CutOff
<1>2. g.rows \in Seq(RowType) /\ Len(g.rows) \in Nat /\ n \in Nat /\ n <= Len(g.rows)
  BY DEF FileType
<1>3. /\ SubSeq(g.rows, 1, n) \in Seq(RowType) /\ Len(SubSeq(g.rows, 1, n)) = n
      /\ \A j \in 1..n : SubSeq(g.rows, 1, n)[j] = g.rows[j]
  BY <1>2
<1>4. f \in FileType /\ f.of = g.of /\ f.truth = g.truth /\ f.rows = SubSeq(g.rows, 1, n)
  BY <1>1, <1>3 DEF FileType
<1>5. \A r \in Range(f.rows) : r \in Range(g.rows)
  BY <1>2, <1>3, <1>4 DEF Range
<1>6. f.rows # <<>> => g.rows # <<>> /\ f.rows[1] = g.rows[1]
  BY <1>2, <1>3, <1>4
<1> QED BY <1>4, <1>5, <1>6

LEMMA NoFileType ==
  /\ NoFile \in FileType /\ NoManifest \in ManifestType
  /\ NoFile.of = 0 /\ NoFile.truth.of = 0 /\ NoManifest.of = 0
  /\ \A r \in Range(NoFile.rows) : FALSE
  /\ NoFile.rows = <<>>
  BY DEF NoFile, NoManifest, FileType, ManifestType, Range

\* A file is moved to the backups.
LEMMA Moved ==
  ASSUME FInv, live = {}, NEW name \in Keeping, ~Used(name), backups' = BackedUp(name),
         file' = [file EXCEPT ![name] = IF name \in Names THEN NoFile ELSE NoManifest],
         UNCHANGED <<live, memory, session, runs, clock, kept>>
  PROVE  /\ DOMAIN file' = Names \cup Manifests
         /\ \A n \in Names : file'[n] \in FileType
         /\ \A n \in Manifests : file'[n] \in ManifestType
         /\ file'[name].of = 0
         /\ \A n \in Names \cup Manifests : n # name => file'[n] = file[n]
         /\ FilesInv' /\ KeptInv'
         /\ \A k \in DOMAIN backups' : k \in DOMAIN backups \/ k = <<name, clock>>
<1>1. /\ name \in Names \cup Manifests /\ DOMAIN file = Names \cup Manifests
      /\ \A n \in Names : file[n] \in FileType /\ n \notin Manifests
      /\ \A n \in Manifests : file[n] \in ManifestType /\ n \notin Names
      /\ session \in Nat
  BY DEF FInv, TypeInv, Keeping, Names, Manifests
<1>2. /\ DOMAIN file' = Names \cup Manifests
      /\ \A n \in Names \cup Manifests : n # name => file'[n] = file[n]
      /\ name \in Names => file'[name] = NoFile
      /\ name \notin Names => file'[name] = NoManifest
  BY <1>1
<1>3. /\ \A n \in Names : file'[n] \in FileType
      /\ \A n \in Manifests : file'[n] \in ManifestType
      /\ file'[name].of = 0
  BY <1>1, <1>2, NoFileType
<1>4. FilesInv'
  <2>1. Data' \subseteq Data \cup {NoFile}
    BY <1>2 DEF Data
  <2>2. \A n \in Manifests : file'[n].of <= session
    BY <1>1, <1>2, NoFileType DEF FInv, FilesInv
  <2>3. /\ NoFile.of <= session /\ \A r \in Range(NoFile.rows) : r[1] = NoFile.of
        /\ NoFile.rows = <<>>
    BY <1>1, NoFileType
  <2> QED BY <2>1, <2>2, <2>3, OneMore
<1>5. KeptInv'
  <2> SUFFICES ASSUME NEW f \in kept
               PROVE  f \in {file'[n] : n \in Keeping} \cup Range(backups')
    BY DEF FInv, KeptInv
  <2>1. 0 < f.of /\ f \in {file[n] : n \in Keeping} \cup Range(backups)
    BY DEF FInv, KeptInv
  <2>2. CASE f = file[name]
    <3>1. Exists(file[name])
      BY <2>1, <2>2 DEF Exists
    <3>2. /\ <<name, clock>> \in DOMAIN backups' /\ backups'[<<name, clock>>] = f
      BY <2>2, <3>1 DEF BackedUp
    <3> QED BY <3>2 DEF Range
  <2>3. CASE f # file[name] /\ f \in {file[n] : n \in Keeping}
    BY <1>2, <2>3 DEF Keeping, Names, Manifests
  <2>4. CASE f \in Range(backups)
    <3>1. PICK k \in DOMAIN backups : f = backups[k]
      BY <2>4 DEF Range
    <3>2. k # <<name, clock>>
      BY DEF Used
    <3>3. k \in DOMAIN backups' /\ backups'[k] = f
      BY <3>1, <3>2 DEF BackedUp
    <3> QED BY <3>3 DEF Range
  <2> QED BY <2>1, <2>2, <2>3, <2>4
<1>6. \A k \in DOMAIN backups' : k \in DOMAIN backups \/ k = <<name, clock>>
  BY DEF BackedUp
<1> QED BY <1>2, <1>3, <1>4, <1>5, <1>6

\* The sorts of steps that move a file aside and go on.
LEMMA MovedAside ==
  ASSUME FInv, stack # <<>>, NEW name \in Keeping, NEW place \in Places,
         \/ name = "baseline" /\ In("baseline", "start") /\ place = "launch"
         \/ name = "tuning" /\ In("tuning", "backup") /\ place = "backup_manifest"
         \/ name = "tuning_manifest" /\ In("tuning", "backup_manifest") /\ place = "copy",
         GoTo(place), backups' = BackedUp(name),
         file' = [file EXCEPT ![name] = IF name \in Names THEN NoFile ELSE NoManifest],
         UNCHANGED <<live, memory, session, runs, clock, kept>>
  PROVE  FInv'
<1>a. /\ stack' \in Seq(FrameType) /\ Len(stack') = Len(stack) /\ stack' # <<>>
      /\ Top'.script = Top.script /\ Top'.at = place /\ Top'.i = Top.i
      /\ stack'[Len(stack)] = Top' /\ Beneath
  BY GoToStack DEF FInv
<1>b. Top = stack[Len(stack)] /\ Len(stack) \in Nat /\ Len(stack) \in 1..Len(stack)
  BY TopFrame DEF FInv
<1>c. ~Busy /\ ~Busy' /\ live = {}
  BY <1>a DEF Busy, FInv, StackInv, In
<1>d. ~Used(name)
  <2>1. Free(Top)
    BY <1>b DEF FInv, StampsInv
  <2> QED BY <2>1 DEF Free, Tunes, In
<1>e. /\ DOMAIN file' = Names \cup Manifests
      /\ \A n \in Names : file'[n] \in FileType
      /\ \A n \in Manifests : file'[n] \in ManifestType
      /\ file'[name].of = 0
      /\ \A n \in Names \cup Manifests : n # name => file'[n] = file[n]
      /\ FilesInv' /\ KeptInv'
      /\ \A k \in DOMAIN backups' : k \in DOMAIN backups \/ k = <<name, clock>>
  BY <1>c, <1>d, Moved
<1>f. Out' = Out
  BY DEF Out
<1>1. TypeInv'
  BY <1>a, <1>e DEF FInv, TypeInv
<1>2. StackInv'
  BY <1>c, SameCalls DEF StackInv
<1>4. CaptureInv'
  BY <1>a, <1>c, <1>e DEF CaptureInv, In
<1>5. PipelineInv'
  <2>1. name # "tuning" => file'["tuning"] = file["tuning"]
    BY <1>e DEF Names
  <2>2. name = "tuning" => file'["tuning"].truth.of = 0
    BY NoFileType DEF Names, FInv, TypeInv
  <2>3. file'["tuning"].truth.of = file'["tuning"].of
    BY <1>e, <2>1, <2>2 DEF FInv, PipelineInv
  <2>4. file'["manifest"] = file["manifest"] /\ file'["labeled"] = file["labeled"]
    BY <1>e DEF Names, Manifests, Keeping
  <2>5. In("tuning", "backup") \/ In("tuning", "backup_manifest") => Labelled
    BY DEF FInv, PipelineInv, ToCopy
  <2>6. Labelled => Labelled'
    BY <2>4 DEF Labelled, NotCaptured
  <2>7. (\A i \in 1..RUNS : runs[i].truth.of = runs[i].of)'
    BY DEF FInv, PipelineInv
  <2>8. Top.script \in {"baseline", "tuning"}
        /\ (Top.script = "baseline" => place = "launch")
        /\ (Top.script = "tuning" => place \in {"backup_manifest", "copy"} /\ Labelled')
    BY <2>5, <2>6 DEF In
  <2> QED BY <1>a, <2>3, <2>7, <2>8 DEF PipelineInv, ToCopy, ToLabel, In
<1>6. RunsInv'
  <2>1. \A j \in 1..Len(stack) : stack'[j].script = stack[j].script /\ stack'[j].i = stack[j].i
    BY SameCalls
  <2>2. place # "score"
    OBVIOUS
  <2> QED BY <1>a, <2>1, <2>2 DEF FInv, RunsInv, In, NotCaptured
<1>7. AsideInv'
  <2>1. name # "tuning" => file'["tuning"] = file["tuning"]
    BY <1>e DEF Names
  <2>2. name # "tuning_manifest" => file'["tuning_manifest"] = file["tuning_manifest"]
    BY <1>e DEF Manifests
  <2>3. TuningManifestBelongs'
    BY <1>e, <2>1, <2>2 DEF FInv, AsideInv, TuningManifestBelongs, Exists
  <2>4. In("tuning", "backup_manifest") => file["tuning"].of = 0
    BY DEF FInv, AsideInv
  <2> QED BY <1>a, <1>e, <2>1, <2>3, <2>4 DEF AsideInv, In
<1>8. StampsInv'
  <2>1. \A n \in Names \cup Manifests : n # name => (Used(n)' => Used(n))
    BY <1>e DEF Used
  <2>2. \A n \in Names \cup Manifests, t \in Nat : <<n, t>> \in DOMAIN backups' => t <= clock
    <3> SUFFICES ASSUME NEW n \in Names \cup Manifests, NEW t \in Nat, <<n, t>> \in DOMAIN backups'
                 PROVE  t <= clock
      OBVIOUS
    <3>1. <<n, t>> \in DOMAIN backups \/ t = clock
      BY <1>e
    <3> QED BY <3>1 DEF FInv, StampsInv, TypeInv
  <2>3. Free(Top)
    BY <1>b DEF FInv, StampsInv
  <2>4. Free(Top)'
    BY <1>a, <2>1, <2>3 DEF Free, Tunes, In, Names, Manifests
  <2>5. ASSUME NEW j \in 1..Len(stack), j # Len(stack)
        PROVE  Free(stack[j])'
    <3>0. Len(stack) # 1 /\ Len(stack) > 1
      BY <1>b, <2>5
    <3>1. Top.script = "tuning"
      BY <3>0, Callers DEF In
    <3>2. Len(stack) = 2 /\ stack[1].script \in {"multi_run", "reuse"} /\ stack[1].at = "tuned"
      BY <3>0, <3>1, Callers
    <3>3. stack[j].script \in {"multi_run", "reuse"} /\ stack[j].at = "tuned"
      BY <2>5, <3>2
    <3>4. stack'[j] = stack[j]
      BY <1>a, <2>5 DEF Beneath
    <3> QED BY <3>3, <3>4 DEF Free, Tunes
  <2>6. \A j \in 1..Len(stack) : Free(stack[j])'
    BY <1>a, <1>b, <2>4, <2>5
  <2> QED BY <1>a, <2>2, <2>6 DEF StampsInv
<1> QED BY <1>1, <1>2, <1>e, <1>4, <1>5, <1>6, <1>7, <1>8 DEF FInv

\* A script ends well, and its caller goes on.
LEMMA Pops ==
  ASSUME FInv, stack # <<>>, Exit0, Len(stack) > 1, live' = {}, UNCHANGED <<backups, clock, runs>>
  PROVE  /\ stack' \in Seq(FrameType) /\ stack' # <<>>
         /\ Calls(Top', Top.script) /\ ~Busy'
         /\ StackInv' /\ StampsInv' /\ RunsInv'
<1>a. /\ stack' \in Seq(FrameType) /\ Len(stack') = Len(stack) - 1 /\ stack' # <<>>
      /\ \A j \in 1..Len(stack') : stack'[j] = stack[j]
      /\ Top' = stack[Len(stack) - 1]
  BY ExitStack DEF FInv
<1>b. Len(stack) \in Nat /\ Len(stack) - 1 \in 1..Len(stack)
      /\ Calls(stack[Len(stack) - 1], Top.script)
  BY TopFrame, Callers DEF FInv
<1>c. Calls(Top', Top.script)
  BY <1>a, <1>b
<1>d. Top'.script \in {"tuning", "multi_run", "reuse"} /\ Top'.at # "score"
  BY <1>c DEF Calls
<1>e. ~Busy'
  BY <1>d DEF Busy
<1>1. StackInv'
  <2>1. ASSUME NEW j \in 1..Len(stack')-1 PROVE Calls(stack'[j], stack'[j+1].script)
    <3>1. j \in 1..Len(stack)-1 /\ j \in 1..Len(stack') /\ j + 1 \in 1..Len(stack')
      BY <1>a, <1>b
    <3>2. stack'[j] = stack[j] /\ stack'[j+1] = stack[j+1]
      BY <1>a, <3>1
    <3>3. Calls(stack[j], stack[j+1].script)
      BY <3>1 DEF FInv, StackInv
    <3> QED BY <3>2, <3>3
  <2> QED BY <2>1 DEF StackInv
<1>2. StampsInv'
  <2>0. \A s : Free(s)' = Free(s)
    BY DEF Free, Used, Tunes
  <2>1. \A j \in 1..Len(stack') : Free(stack'[j])
    BY <1>a, <1>b DEF FInv, StampsInv
  <2> QED BY <2>0, <2>1 DEF FInv, StampsInv
<1>3. RunsInv'
  BY <1>a, <1>b, <1>d DEF FInv, RunsInv, In, NotCaptured
<1> QED BY <1>a, <1>c, <1>e, <1>1, <1>2, <1>3

----------------------------------------------------------------------------
(* The actions.                                                            *)

LEMMA LaunchPlcStep == ASSUME FInv, LaunchPlc PROVE FInv'
<1>0. /\ stack # <<>> /\ Top.script \in {"scenario", "baseline"} /\ Top.at \in {"start", "launch"}
      /\ Top.script = "baseline" => In("baseline", "launch")
      /\ session' = session + 1 /\ live' = {"plc"} /\ GoTo("plc")
      /\ memory' = Noted(IF Top.script = "scenario" THEN "capture" ELSE "baseline")
      /\ UNCHANGED <<file, runs, backups, clock, kept>>
  BY DEF LaunchPlc, Capturing, In, fileVars
<1>a. /\ stack' \in Seq(FrameType) /\ Len(stack') = Len(stack) /\ stack' # <<>>
      /\ Top'.script = Top.script /\ Top'.at = "plc" /\ Top'.i = Top.i
      /\ stack'[Len(stack)] = Top' /\ Beneath
  BY <1>0, GoToStack DEF FInv, Places
<1>b. Top = stack[Len(stack)] /\ Len(stack) \in Nat /\ session \in Nat
  BY <1>0, TopFrame DEF FInv, TypeInv
<1>c. live = {} /\ Busy'
  BY <1>0, <1>a DEF Busy, FInv, StackInv
<1>d. /\ Out' = IF Top.script = "scenario" THEN "capture" ELSE "baseline"
      /\ memory' \in MemoryType /\ Data' = Data
  BY <1>0 DEF Out, Noted, MemoryType, Data
<1>1. TypeInv'
  BY <1>0, <1>a, <1>b, <1>d DEF FInv, TypeInv
<1>2. StackInv'
  BY <1>0, <1>c, SameCalls DEF StackInv, Places
<1>3. FilesInv'
  <2>1. /\ \A n \in Names : file[n] \in Data
        /\ \A i \in 1..RUNS : runs[i] \in Data
        /\ \A f \in Data : f.of \in Nat
    BY DEF Data, FInv, TypeInv, FileType
  <2>2. \A f \in Data : f.of < session + 1 /\ f.of <= session + 1
    BY <1>b, <2>1 DEF FInv, FilesInv
  <2>3. \A n \in Manifests : file[n].of <= session + 1
    BY <1>b DEF FInv, FilesInv, TypeInv, ManifestType
  <2>4. 0 < session + 1
    BY <1>b
  <2> QED BY <1>0, <1>d, <2>1, <2>2, <2>3, <2>4 DEF FInv, FilesInv
<1>4. CaptureInv'
  <2>1. Top.script = "baseline" => file["baseline"].of = 0
    BY <1>0 DEF FInv, CaptureInv
  <2> QED BY <1>0, <1>a, <1>b, <1>d, <2>1 DEF CaptureInv, In
<1>5. PipelineInv'
  BY <1>0, <1>a DEF FInv, PipelineInv, ToLabel, ToCopy, In
<1>6. RunsInv'
  <2>1. \A j \in 1..Len(stack) : stack'[j].script = stack[j].script /\ stack'[j].i = stack[j].i
    BY <1>0, SameCalls DEF Places
  <2> QED BY <1>0, <1>a, <2>1 DEF FInv, RunsInv, In, NotCaptured
<1>7. AsideInv'
  BY <1>0, <1>a DEF FInv, AsideInv, In, TuningManifestBelongs
<1>8. StampsInv'
  <2>0. \A s : Free(s)' = Free(s)
    BY <1>0 DEF Free, Used, Tunes
  <2>1. Free(Top')
    BY <1>0, <1>a DEF Free, Tunes
  <2>2. \A j \in 1..Len(stack) : Free(stack'[j])
    BY <1>a, <2>1 DEF FInv, StampsInv, Beneath
  <2> QED BY <1>0, <1>a, <2>0, <2>2 DEF FInv, StampsInv
<1>9. KeptInv'
  <2>1. \A f \in kept : f.of <= session + 1 /\ f.of < session + 1
    <3> TAKE f \in kept
    <3>1. f.of \in Nat /\ f.of <= session
      BY DEF FInv, KeptInv
    <3> QED BY <1>b, <3>1
  <2> QED BY <1>0, <2>1 DEF FInv, KeptInv
<1> QED BY <1>1, <1>2, <1>3, <1>4, <1>5, <1>6, <1>7, <1>8, <1>9 DEF FInv

LEMMA WriteManifestStep == ASSUME FInv, WriteManifest PROVE FInv'
<1> DEFINE m == [of |-> session, hmi |-> memory.hmi, logged |-> memory.logged]
<1>0. /\ stack # <<>> /\ Top.script = "scenario" /\ Top.at = "attack" /\ GoTo("stop")
      /\ file' = [file EXCEPT !["manifest"] = m]
      /\ UNCHANGED <<live, memory, session, runs, backups, clock, kept>>
  BY DEF WriteManifest, In, captureVars
<1>a. /\ stack' \in Seq(FrameType) /\ Len(stack') = Len(stack) /\ stack' # <<>>
      /\ Top'.script = Top.script /\ Top'.at = "stop" /\ Top'.i = Top.i
      /\ stack'[Len(stack)] = Top' /\ Beneath
  BY <1>0, GoToStack DEF FInv, Places
<1>b. Top = stack[Len(stack)] /\ Len(stack) \in Nat /\ session \in Nat
  BY <1>0, TopFrame DEF FInv, TypeInv
<1>c. Busy /\ Busy'
  BY <1>0, <1>a DEF Busy
<1>d. m \in ManifestType /\ m.of = session
  BY DEF FInv, TypeInv, MemoryType, ManifestType
<1> HIDE DEF m
<1>e. /\ file'["manifest"] = m /\ DOMAIN file' = DOMAIN file
      /\ \A n \in Names : file'[n] = file[n]
      /\ file'["tuning_manifest"] = file["tuning_manifest"]
  BY <1>0 DEF FInv, TypeInv, Names, Manifests
<1>f. Data' = Data /\ Out' = Out /\ Out \in Names
  BY <1>0, <1>e DEF Data, Out, FInv, TypeInv, MemoryType, Names
<1>g. \A n \in Manifests : n = "manifest" \/ n = "tuning_manifest"
  BY DEF Manifests
<1>1. TypeInv'
  BY <1>0, <1>a, <1>d, <1>e, <1>g DEF FInv, TypeInv
<1>2. StackInv'
  BY <1>0, <1>c, SameCalls DEF StackInv, Places
<1>3. FilesInv'
  <2>1. \A n \in Manifests : file'[n].of <= session
    BY <1>b, <1>d, <1>e, <1>g DEF FInv, FilesInv
  <2> QED BY <1>0, <1>e, <1>f, <2>1 DEF FInv, FilesInv
<1>4. CaptureInv'
  BY <1>0, <1>a, <1>c, <1>d, <1>e, <1>f DEF FInv, CaptureInv, In, Names
<1>5. PipelineInv'
  BY <1>0, <1>a, <1>e DEF FInv, PipelineInv, ToLabel, ToCopy, In, Names
<1>6. RunsInv'
  <2>1. \A j \in 1..Len(stack) : stack'[j].script = stack[j].script /\ stack'[j].i = stack[j].i
    BY <1>0, SameCalls DEF Places
  <2> QED BY <1>0, <1>a, <2>1 DEF FInv, RunsInv, In, NotCaptured
<1>7. AsideInv'
  BY <1>0, <1>a, <1>e DEF FInv, AsideInv, In, TuningManifestBelongs, Names
<1>8. StampsInv'
  <2>0. \A s : Free(s)' = Free(s)
    BY <1>0 DEF Free, Used, Tunes
  <2>1. Free(Top')
    BY <1>0, <1>a DEF Free, Tunes
  <2>2. \A j \in 1..Len(stack) : Free(stack'[j])
    BY <1>a, <2>1 DEF FInv, StampsInv, Beneath
  <2> QED BY <1>0, <1>a, <2>0, <2>2 DEF FInv, StampsInv
<1>9. KeptInv'
  <2>1. \A n \in Keeping : file'[n] = file[n]
    BY <1>e DEF Keeping, Names
  <2> QED BY <1>0, <1>f, <2>1 DEF FInv, KeptInv
<1> QED BY <1>1, <1>2, <1>3, <1>4, <1>5, <1>6, <1>7, <1>8, <1>9 DEF FInv

LEMMA StoppedStep == ASSUME FInv, Stopped PROVE FInv'
<1>0. /\ stack # <<>> /\ Top.script \in {"scenario", "baseline"} /\ Top.at \in {"stop", "stop_failed"}
      /\ live = {} /\ kept' = kept \cup Finished
      /\ IF Top.at = "stop" THEN Exit0 ELSE Fail
      /\ UNCHANGED <<live, memory, session, file, runs, backups, clock>>
  BY DEF Stopped, Stopping, Capturing, captureVars
<1>b. Busy
  BY <1>0 DEF Busy
<1>1. CASE Top.at # "stop"
  <2>1. kept' = kept /\ stack' = <<>>
    BY <1>0, <1>1 DEF Finished, Fail
  <2> QED BY <1>0, <2>1, Ends
<1>2. CASE Top.at = "stop" /\ Top.script = "baseline"
  <2>1. Len(stack) = 1 /\ stack' = <<>>
    BY <1>0, <1>2, Callers, ExitStack DEF FInv
  <2>2. kept' = kept \cup {file["baseline"]}
    BY <1>0, <1>2 DEF Finished
  <2>3. 0 < session /\ file["baseline"].of = session /\ session \in Nat
    BY <1>2, <1>b DEF FInv, CaptureInv, TypeInv
  <2>4. KeptInv'
    BY <1>0, <2>2, <2>3 DEF FInv, KeptInv, Keeping
  <2> QED BY <1>0, <2>1, <2>4, Ends
<1>3. CASE Top.at = "stop" /\ Top.script = "scenario"
  <2>1. kept' = kept /\ Exit0
    BY <1>0, <1>3 DEF Finished
  <2>2. CASE ~(Len(stack) > 1)
    <3>0. Len(stack) \in Nat /\ Len(stack) >= 1
      BY <1>0, TopFrame DEF FInv
    <3>1. Len(stack) = 1
      BY <2>2, <3>0, OneOrTwo
    <3>2. stack' = <<>>
      BY <1>0, <2>1, <3>1, ExitStack DEF FInv
    <3> QED BY <1>0, <2>1, <3>2, Ends
  <2>3. CASE Len(stack) > 1
    <3>a. /\ stack' \in Seq(FrameType) /\ stack' # <<>>
          /\ Calls(Top', Top.script) /\ ~Busy'
          /\ StackInv' /\ StampsInv' /\ RunsInv'
      BY <1>0, <2>1, <2>3, Pops
    <3>b. Top'.script \in {"tuning", "multi_run"} /\ Top'.at = "label"
      BY <1>3, <3>a DEF Calls
    <3>c. Fresh /\ Fresh'
      BY <1>0, <1>3, <1>b DEF FInv, CaptureInv, Fresh, In
    <3>d. Data' = Data
      BY <1>0 DEF Data
    <3>1. TypeInv'
      BY <1>0, <3>a DEF FInv, TypeInv
    <3>2. FilesInv'
      BY <1>0, <3>d DEF FInv, FilesInv
    <3>3. CaptureInv'
      BY <1>0, <3>a, <3>b DEF CaptureInv, In
    <3>4. PipelineInv'
      BY <1>0, <3>b, <3>c DEF FInv, PipelineInv, ToLabel, ToCopy, In
    <3>5. AsideInv'
      BY <1>0, <3>b DEF FInv, AsideInv, In, TuningManifestBelongs
    <3>6. KeptInv'
      BY <1>0, <2>1 DEF FInv, KeptInv, Out
    <3> QED BY <3>a, <3>1, <3>2, <3>3, <3>4, <3>5, <3>6 DEF FInv
  <2> QED BY <2>2, <2>3
<1> QED BY <1>0, <1>1, <1>2, <1>3

LEMMA LabelStep == ASSUME FInv, Label PROVE FInv'
<1> DEFINE v == LabelledNow
<1>0. /\ In("label", "start") /\ stack # <<>> /\ Top.script = "label" /\ Top.at = "start"
      /\ Exists(file["capture"]) /\ Exists(file["manifest"])
      /\ file' = [file EXCEPT !["labeled"] = v]
      /\ \/ Exit0 /\ NotCaptured(v) = {}
         \/ Fail
      /\ UNCHANGED <<live, memory, session, runs, backups, clock, kept>>
  BY DEF Label, In, captureVars
<1>c. live = {} /\ ~Busy
  BY <1>0 DEF Busy, FInv, StackInv
<1>d. /\ file["capture"] \in FileType /\ file["manifest"] \in ManifestType /\ session \in Nat
      /\ DOMAIN file = Names \cup Manifests
  BY DEF FInv, TypeInv, Names, Manifests
<1>e. /\ v \in FileType /\ v.of = file["capture"].of /\ v.rows = file["capture"].rows
      /\ v.truth = file["manifest"]
  BY <1>d DEF LabelledNow, FileType
<1> HIDE DEF v
<1>f. /\ DOMAIN file' = DOMAIN file /\ file'["labeled"] = v
      /\ \A n \in Names \cup Manifests : n # "labeled" => file'[n] = file[n]
      /\ file'["tuning"] = file["tuning"] /\ file'["manifest"] = file["manifest"]
      /\ file'["capture"] = file["capture"]
      /\ file'["tuning_manifest"] = file["tuning_manifest"]
  BY <1>0, <1>d DEF Names, Manifests
<1>g. FilesInv'
  <2>1. file["capture"] \in Data
    BY DEF Data, Names
  <2>2. Data' \subseteq Data \cup {v}
    BY <1>0, <1>f DEF Data
  <2>3. v.of <= session /\ \A r \in Range(v.rows) : r[1] = v.of
    BY <1>e, <2>1 DEF FInv, FilesInv
  <2>4. \A g \in Data : g.of = v.of /\ g.rows # <<>> /\ v.rows # <<>> => v.rows[1] = g.rows[1]
    BY <1>e, <2>1 DEF FInv, FilesInv
  <2>5. \A n \in Manifests : file'[n].of <= session
    BY <1>f DEF FInv, FilesInv, Names, Manifests
  <2> QED BY <1>0, <1>c, <2>2, <2>3, <2>4, <2>5, OneMore
<1>h. TuningManifestBelongs' /\ KeptInv'
  <2>1. \A n \in Keeping : file'[n] = file[n]
    BY <1>f DEF Keeping, Names, Manifests
  <2> QED BY <1>0, <1>c, <1>f, <2>1 DEF FInv, AsideInv, TuningManifestBelongs, KeptInv, Out
<1>i. /\ \A n \in Names : file'[n] \in FileType
      /\ \A n \in Manifests : file'[n] \in ManifestType
  BY <1>e, <1>f DEF FInv, TypeInv, Names, Manifests
<1>j. /\ file'["tuning"].truth.of = file'["tuning"].of
      /\ \A i \in 1..RUNS : runs'[i].truth.of = runs'[i].of
  BY <1>0, <1>f DEF FInv, PipelineInv
<1>1. CASE stack' = <<>>
  <2>1. TypeInv'
    BY <1>0, <1>1, <1>f, <1>i DEF FInv, TypeInv
  <2> QED BY <1>0, <1>1, <1>c, <1>g, <1>h, <1>j, <2>1, EndsIdle
<1>2. CASE stack' # <<>>
  <2>1. Exit0 /\ NotCaptured(v) = {}
    BY <1>0, <1>2 DEF Fail
  <2>2. Len(stack) > 1
    <3>1. Len(stack) \in Nat /\ Len(stack) >= 1
      BY <1>0, TopFrame DEF FInv
    <3>2. Len(stack) # 1
      BY <1>0, <1>2, <2>1, ExitStack DEF FInv
    <3> QED BY <3>1, <3>2, OneOrTwo
  <2>a. /\ stack' \in Seq(FrameType) /\ stack' # <<>>
        /\ Calls(Top', Top.script) /\ ~Busy'
        /\ StackInv' /\ StampsInv' /\ RunsInv'
    BY <1>0, <1>c, <2>1, <2>2, Pops
  <2>b. \/ Top'.script = "tuning" /\ Top'.at = "backup"
        \/ Top'.script = "multi_run" /\ Top'.at = "copy"
    BY <1>0, <2>a DEF Calls
  <2>c. Fresh
    BY <1>0, <2>2 DEF FInv, PipelineInv
  <2>d. Labelled'
    BY <1>0, <1>e, <1>f, <2>1, <2>c DEF Fresh, Labelled, NotCaptured
  <2>1a. TypeInv'
    BY <1>0, <1>f, <1>i, <2>a DEF FInv, TypeInv
  <2>3. CaptureInv'
    BY <1>0, <1>c, <2>a, <2>b DEF CaptureInv, In
  <2>4. PipelineInv'
    BY <1>j, <2>b, <2>d DEF PipelineInv, ToLabel, ToCopy, In
  <2>5. AsideInv'
    BY <1>h, <2>b DEF AsideInv, In
  <2> QED BY <1>g, <1>h, <2>a, <2>1a, <2>3, <2>4, <2>5 DEF FInv
<1> QED BY <1>1, <1>2

\* What tuning copies, and how much of it.
LEMMA TuningCopied ==
  ASSUME FInv, In("tuning", "copy"), NEW v \in FileType,
         v.of = file["labeled"].of, v.truth = file["labeled"].truth,
         \A r \in Range(v.rows) : r \in Range(file["labeled"].rows),
         v.rows # <<>> => file["labeled"].rows # <<>> /\ v.rows[1] = file["labeled"].rows[1],
         file' = [file EXCEPT !["tuning"] = v],
         UNCHANGED <<live, memory, session, runs, backups, clock, kept>>
  PROVE  /\ live = {} /\ DOMAIN file' = Names \cup Manifests
         /\ \A n \in Names : file'[n] \in FileType
         /\ \A n \in Manifests : file'[n] \in ManifestType
         /\ file'["tuning"].truth.of = file'["tuning"].of
         /\ file'["tuning"].of = session /\ file'["manifest"].of = session /\ 0 < session
         /\ file'["tuning_manifest"].of = 0 /\ TuningManifestBelongs'
         /\ FilesInv' /\ KeptInv'
<1>0. /\ DOMAIN file = Names \cup Manifests /\ session \in Nat /\ stack # <<>>
      /\ Top.script = "tuning" /\ Top.at = "copy"
  BY DEF FInv, TypeInv, In
<1>1. live = {}
  BY <1>0 DEF FInv, StackInv, Busy
<1>2. Labelled /\ file["tuning"].of = 0 /\ file["tuning_manifest"].of = 0
  BY DEF FInv, PipelineInv, ToCopy, AsideInv
<1>3. /\ DOMAIN file' = DOMAIN file /\ file'["tuning"] = v
      /\ \A n \in Names \cup Manifests : n # "tuning" => file'[n] = file[n]
      /\ file'["manifest"] = file["manifest"]
      /\ file'["tuning_manifest"] = file["tuning_manifest"]
  BY <1>0 DEF Names, Manifests
<1>4. /\ \A n \in Names : file'[n] \in FileType
      /\ \A n \in Manifests : file'[n] \in ManifestType
  BY <1>3 DEF FInv, TypeInv, Names, Manifests
<1>5. v.of = session /\ v.truth.of = session /\ 0 < session /\ file["manifest"].of = session
  BY <1>2 DEF Labelled
<1>6. TuningManifestBelongs'
  BY <1>2, <1>3 DEF TuningManifestBelongs, Exists
<1>7. FilesInv'
  <2>1. file["labeled"] \in Data
    BY DEF Data, Names
  <2>2. Data' \subseteq Data \cup {v}
    BY <1>3 DEF Data
  <2>3. v.of <= session /\ \A r \in Range(v.rows) : r[1] = v.of
    BY <2>1 DEF FInv, FilesInv
  <2>4. \A g \in Data : g.of = v.of /\ g.rows # <<>> /\ v.rows # <<>> => v.rows[1] = g.rows[1]
    BY <2>1 DEF FInv, FilesInv
  <2>5. \A n \in Manifests : file'[n].of <= session
    BY <1>3 DEF FInv, FilesInv, Names, Manifests
  <2> QED BY <1>1, <2>2, <2>3, <2>4, <2>5, OneMore
<1>8. KeptInv'
  <2> SUFFICES ASSUME NEW f \in kept
               PROVE  f \in {file'[n] : n \in Keeping} \cup Range(backups)
    BY <1>1 DEF FInv, KeptInv
  <2>1. 0 < f.of /\ f \in {file[n] : n \in Keeping} \cup Range(backups)
    BY DEF FInv, KeptInv
  <2>2. f # file["tuning"]
    BY <1>2, <2>1
  <2> QED BY <1>3, <2>1, <2>2 DEF Keeping, Names, Manifests
<1> QED BY <1>0, <1>1, <1>2, <1>3, <1>4, <1>5, <1>6, <1>7, <1>8

LEMMA CopyTuningStep ==
  ASSUME FInv, In("tuning", "copy"), file' = [file EXCEPT !["tuning"] = file["labeled"]],
         GoTo("copy_manifest"),
         UNCHANGED <<live, memory, session, runs, backups, clock, kept>>
  PROVE  FInv'
<1>0. stack # <<>> /\ Top.script = "tuning" /\ Top.at = "copy" /\ file["labeled"] \in FileType
  BY DEF In, FInv, TypeInv, Names
<1>a. /\ stack' \in Seq(FrameType) /\ Len(stack') = Len(stack) /\ stack' # <<>>
      /\ Top'.script = Top.script /\ Top'.at = "copy_manifest" /\ Top'.i = Top.i
      /\ stack'[Len(stack)] = Top' /\ Beneath
  BY <1>0, GoToStack DEF FInv, Places
<1>b. Top = stack[Len(stack)] /\ Len(stack) \in Nat
  BY <1>0, TopFrame DEF FInv
<1>c. /\ live = {} /\ DOMAIN file' = Names \cup Manifests
      /\ \A n \in Names : file'[n] \in FileType
      /\ \A n \in Manifests : file'[n] \in ManifestType
      /\ file'["tuning"].truth.of = file'["tuning"].of
      /\ file'["tuning"].of = session /\ file'["manifest"].of = session /\ 0 < session
      /\ file'["tuning_manifest"].of = 0 /\ TuningManifestBelongs'
      /\ FilesInv' /\ KeptInv'
  BY <1>0, TuningCopied
<1>d. ~Busy'
  BY <1>0, <1>a DEF Busy
<1>1. TypeInv'
  BY <1>a, <1>c DEF FInv, TypeInv
<1>2. StackInv'
  BY <1>0, <1>c, SameCalls DEF StackInv, Places
<1>4. CaptureInv'
  BY <1>0, <1>a, <1>c, <1>d DEF CaptureInv, In
<1>5. PipelineInv'
  BY <1>0, <1>a, <1>c DEF FInv, PipelineInv, ToLabel, ToCopy, In
<1>6. RunsInv'
  <2>1. \A j \in 1..Len(stack) : stack'[j].script = stack[j].script /\ stack'[j].i = stack[j].i
    BY <1>0, SameCalls DEF Places
  <2> QED BY <1>a, <2>1 DEF FInv, RunsInv, In, NotCaptured
<1>7. AsideInv'
  BY <1>a, <1>c DEF AsideInv, In
<1>8. StampsInv'
  <2>0. \A s : Free(s)' = Free(s)
    BY DEF Free, Used, Tunes
  <2>1. Free(Top')
    BY <1>0, <1>a DEF Free, Tunes
  <2>2. \A j \in 1..Len(stack) : Free(stack'[j])
    BY <1>a, <2>1 DEF FInv, StampsInv, Beneath
  <2> QED BY <1>a, <2>0, <2>2 DEF FInv, StampsInv
<1> QED BY <1>1, <1>2, <1>c, <1>4, <1>5, <1>6, <1>7, <1>8 DEF FInv

LEMMA CopyManifestStep ==
  ASSUME FInv, In("tuning", "copy_manifest"),
         file' = [file EXCEPT !["tuning_manifest"] = file["manifest"]],
         kept' = kept \cup {file["tuning"], file'["tuning_manifest"]}, Exit0,
         UNCHANGED <<live, memory, session, runs, backups, clock>>
  PROVE  FInv'
<1>0. /\ DOMAIN file = Names \cup Manifests /\ session \in Nat /\ stack # <<>>
      /\ Top.script = "tuning" /\ Top.at = "copy_manifest"
      /\ file["manifest"] \in ManifestType
  BY DEF FInv, TypeInv, In, Manifests
<1>1. live = {} /\ live' = {}
  BY <1>0 DEF FInv, StackInv, Busy
<1>2. /\ 0 < session /\ file["manifest"].of = session /\ file["tuning"].of = session
      /\ file["tuning_manifest"].of = 0
  BY DEF FInv, PipelineInv, AsideInv
<1>3. /\ DOMAIN file' = DOMAIN file /\ file'["tuning_manifest"] = file["manifest"]
      /\ \A n \in Names \cup Manifests : n # "tuning_manifest" => file'[n] = file[n]
      /\ \A n \in Names : file'[n] = file[n]
      /\ file'["manifest"] = file["manifest"]
      /\ file'["tuning"] = file["tuning"]
  BY <1>0 DEF Names, Manifests
<1>4. /\ \A n \in Names : file'[n] \in FileType
      /\ \A n \in Manifests : file'[n] \in ManifestType
  BY <1>0, <1>3 DEF FInv, TypeInv, Names, Manifests
<1>5. TuningManifestBelongs'
  BY <1>2, <1>3 DEF TuningManifestBelongs
<1>6. FilesInv'
  <2>1. Data' = Data
    BY <1>3 DEF Data
  <2>2. \A n \in Manifests : file'[n].of <= session
    BY <1>2, <1>3 DEF FInv, FilesInv, Names, Manifests
  <2> QED BY <1>1, <2>1, <2>2 DEF FInv, FilesInv
<1>7. KeptInv'
  <2>1. ASSUME NEW f \in kept
        PROVE  f \in {file'[n] : n \in Keeping} \cup Range(backups)
    <3>1. 0 < f.of /\ f \in {file[n] : n \in Keeping} \cup Range(backups)
      BY DEF FInv, KeptInv
    <3>2. f # file["tuning_manifest"]
      BY <1>2, <3>1
    <3> QED BY <1>3, <3>1, <3>2 DEF Keeping, Names, Manifests
  <2>2. ASSUME NEW f \in {file["tuning"], file'["tuning_manifest"]}
        PROVE  f \in {file'[n] : n \in Keeping} /\ f.of = session
    BY <1>2, <1>3 DEF Keeping
  <2> QED BY <1>0, <1>1, <1>2, <2>1, <2>2 DEF FInv, KeptInv
<1>8. CASE stack' = <<>>
  <2>1. TypeInv'
    BY <1>0, <1>1, <1>3, <1>4, <1>8 DEF FInv, TypeInv
  <2> QED BY <1>1, <1>3, <1>5, <1>6, <1>7, <1>8, <2>1, EndsIdle DEF FInv, PipelineInv
<1>9. CASE stack' # <<>>
  <2>2. Len(stack) > 1
    <3>1. Len(stack) \in Nat /\ Len(stack) >= 1
      BY <1>0, TopFrame DEF FInv
    <3>2. Len(stack) # 1
      BY <1>0, <1>9, ExitStack DEF FInv
    <3> QED BY <3>1, <3>2, OneOrTwo
  <2>a. /\ stack' \in Seq(FrameType) /\ stack' # <<>>
        /\ Calls(Top', Top.script) /\ ~Busy'
        /\ StackInv' /\ StampsInv' /\ RunsInv'
    BY <1>0, <1>1, <2>2, Pops
  <2>b. Top'.script \in {"multi_run", "reuse"} /\ Top'.at = "tuned"
    BY <1>0, <2>a DEF Calls
  <2>1. TypeInv'
    BY <1>0, <1>3, <1>4, <2>a DEF FInv, TypeInv
  <2>3. CaptureInv'
    BY <1>1, <2>a, <2>b DEF CaptureInv, In
  <2>4. PipelineInv'
    BY <1>3, <2>b DEF FInv, PipelineInv, ToLabel, ToCopy, In
  <2>5. AsideInv'
    BY <1>5, <2>b DEF AsideInv, In
  <2> QED BY <1>6, <1>7, <2>a, <2>1, <2>3, <2>4, <2>5 DEF FInv
<1> QED BY <1>8, <1>9

\* What is copied to a run's file, and how much of it.
LEMMA RunCopied ==
  ASSUME FInv, In("multi_run", "copy"), NEW v \in FileType,
         v.of = file["labeled"].of, v.truth = file["labeled"].truth,
         \A r \in Range(v.rows) : r \in Range(file["labeled"].rows),
         v.rows # <<>> => file["labeled"].rows # <<>> /\ v.rows[1] = file["labeled"].rows[1],
         runs' = [runs EXCEPT ![Top.i] = v],
         UNCHANGED <<live, memory, session, file, backups, clock, kept>>
  PROVE  /\ live = {} /\ runs' \in [1..RUNS -> FileType]
         /\ \A i \in 1..RUNS : runs'[i].truth.of = runs'[i].of
         /\ \A i \in 1..RUNS : runs'[i] = IF i = Top.i THEN v ELSE runs[i]
         /\ FilesInv' /\ KeptInv'
<1>0. /\ runs \in [1..RUNS -> FileType] /\ session \in Nat /\ stack # <<>>
      /\ Top.script = "multi_run" /\ Top.at = "copy"
  BY DEF FInv, TypeInv, In
<1>1. live = {}
  BY <1>0 DEF FInv, StackInv, Busy
<1>2. Labelled
  BY DEF FInv, PipelineInv, ToCopy
<1>3. /\ runs' \in [1..RUNS -> FileType]
      /\ \A i \in 1..RUNS : runs'[i] = IF i = Top.i THEN v ELSE runs[i]
  BY <1>0
<1>4. v.truth.of = v.of
  BY <1>2 DEF Labelled
<1>5. \A i \in 1..RUNS : runs'[i].truth.of = runs'[i].of
  BY <1>3, <1>4 DEF FInv, PipelineInv
<1>6. FilesInv'
  <2>1. file["labeled"] \in Data
    BY DEF Data, Names
  <2>2. Data' \subseteq Data \cup {v}
    BY <1>3 DEF Data
  <2>3. v.of <= session /\ \A r \in Range(v.rows) : r[1] = v.of
    BY <2>1 DEF FInv, FilesInv
  <2>4. \A g \in Data : g.of = v.of /\ g.rows # <<>> /\ v.rows # <<>> => v.rows[1] = g.rows[1]
    BY <2>1 DEF FInv, FilesInv
  <2>5. \A n \in Manifests : file'[n].of <= session
    BY DEF FInv, FilesInv
  <2> QED BY <1>1, <2>2, <2>3, <2>4, <2>5, OneMore
<1>7. KeptInv'
  BY DEF FInv, KeptInv, Out
<1> QED BY <1>1, <1>3, <1>5, <1>6, <1>7

LEMMA Replaced ==
  ASSUME NEW S, NEW s \in Seq(S), Len(s) = 1, NEW v \in S
  PROVE  /\ [s EXCEPT ![1] = v] \in Seq(S) /\ Len([s EXCEPT ![1] = v]) = Len(s)
         /\ [s EXCEPT ![1] = v][1] = v
<1>1. 1 \in 1..Len(s)
  OBVIOUS
<1> QED BY <1>1

LEMMA CopyRunStep == ASSUME FInv, CopyRun PROVE FInv'
<1> DEFINE frame == [script |-> "multi_run", at |-> "loop", i |-> Top.i + 1]
<1>0. /\ stack # <<>> /\ In("multi_run", "copy") /\ Top.script = "multi_run" /\ Top.at = "copy"
      /\ runs' = [runs EXCEPT ![Top.i] = file["labeled"]]
      /\ stack' = [stack EXCEPT ![Len(stack)].at = "loop", ![Len(stack)].i = @ + 1]
      /\ UNCHANGED <<live, memory, session, file, backups, clock, kept>>
  BY DEF CopyRun, In, captureVars
<1>1. Len(stack) = 1 /\ stack \in Seq(FrameType) /\ Top = stack[1] /\ Top \in FrameType
      /\ Top.i \in Nat \ {0}
  BY <1>0, Callers, TopFrame DEF FInv, TypeInv
<1>2. stack' \in Seq(FrameType) /\ Len(stack') = 1 /\ stack'[1] = frame /\ stack' # <<>>
  <2> DEFINE moved == [stack[1] EXCEPT !.at = "loop"]
             next == [moved EXCEPT !.i = moved.i + 1]
  <2>1. moved \in FrameType /\ moved.i = Top.i /\ moved.script = "multi_run" /\ moved.at = "loop"
    BY <1>0, <1>1 DEF FrameType, Places
  <2> HIDE DEF moved
  <2>2. next \in FrameType /\ next = frame
    BY <1>1, <2>1 DEF FrameType
  <2>3. stack' = [[stack EXCEPT ![1] = moved] EXCEPT ![1] = next]
    BY <1>0, <1>1 DEF moved
  <2> HIDE DEF next, frame
  <2> DEFINE s == [stack EXCEPT ![1] = moved]
  <2>4. s \in Seq(FrameType) /\ Len(s) = Len(stack)
    BY <1>1, <2>1, Replaced
  <2>5. s \in Seq(FrameType) /\ Len(s) = 1 /\ 1 \in 1..Len(s)
    BY <1>1, <2>4
  <2> HIDE DEF s
  <2>6. stack' \in Seq(FrameType) /\ Len(stack') = Len(s) /\ stack'[1] = next
    <3>1. stack' = [s EXCEPT ![1] = next]
      BY <2>3 DEF s
    <3> QED BY <2>2, <2>5, <3>1, Replaced
  <2> QED BY <2>2, <2>5, <2>6
<1>3. Top' = frame /\ Top'.script = "multi_run" /\ Top'.at = "loop" /\ Top'.i = Top.i + 1
  BY <1>2 DEF Top
<1>4. /\ live = {} /\ runs' \in [1..RUNS -> FileType]
      /\ \A i \in 1..RUNS : runs'[i].truth.of = runs'[i].of
      /\ \A i \in 1..RUNS : runs'[i] = IF i = Top.i THEN file["labeled"] ELSE runs[i]
      /\ FilesInv' /\ KeptInv'
  BY <1>0, RunCopied DEF FInv, TypeInv, Names
<1>5. TypeInv' /\ ~Busy'
  BY <1>0, <1>2, <1>3, <1>4 DEF FInv, TypeInv, Busy
<1>6. StackInv'
  BY <1>0, <1>2, <1>4 DEF StackInv
<1>7. CaptureInv'
  BY <1>0, <1>3, <1>4, <1>5 DEF CaptureInv, In
<1>8. PipelineInv'
  BY <1>0, <1>3, <1>4 DEF FInv, PipelineInv, ToLabel, ToCopy, In
<1>9. RunsInv'
  <2>1. NotCaptured(file["labeled"]) = {}
    BY <1>0 DEF FInv, PipelineInv, ToCopy, Labelled
  <2>2. \A k \in 1..RUNS : k < Top.i => NotCaptured(runs[k]) = {}
    <3>1. 1 \in 1..Len(stack) /\ stack[1].script = "multi_run" /\ stack[1].i = Top.i
      BY <1>0, <1>1
    <3> QED BY <3>1 DEF FInv, RunsInv
  <2>3. ASSUME NEW k \in 1..RUNS, k < Top.i + 1 PROVE NotCaptured(runs'[k]) = {}
    <3>1. k < Top.i \/ k = Top.i
      BY <1>1, <2>3
    <3> QED BY <1>4, <2>1, <2>2, <3>1
  <2>4. \A j \in 1..Len(stack') : stack'[j].i = Top.i + 1
    BY <1>2
  <2>5. \A k \in 1..RUNS : NotCaptured(runs'[k]) = NotCaptured(runs[k])'
    BY DEF NotCaptured
  <2> QED BY <1>3, <2>3, <2>4, <2>5 DEF RunsInv, In
<1>10. AsideInv'
  BY <1>0, <1>3 DEF FInv, AsideInv, In, TuningManifestBelongs
<1>11. StampsInv'
  BY <1>0, <1>2 DEF FInv, StampsInv, Free, Tunes
<1> QED BY <1>4, <1>5, <1>6, <1>7, <1>8, <1>9, <1>10, <1>11 DEF FInv

\* The tap writes a row.
LEMMA CapturedStep ==
  ASSUME FInv, live # {}, file[Out].of = session, NEW client \in Clients, Captured(client),
         memory' \in MemoryType, memory'.out = memory.out,
         UNCHANGED <<stack, live, session, runs, backups, clock, kept>>
  PROVE  FInv'
<1> DEFINE row == <<session, client>>
           v == [file[Out] EXCEPT !.rows = Append(file[Out].rows, row)]
<1>1. /\ Out \in Names /\ file[Out] \in FileType /\ file[Out] \in Data /\ session \in Nat
      /\ file[Out].rows \in Seq(RowType) /\ DOMAIN file = Names \cup Manifests
  BY DEF FInv, TypeInv, MemoryType, Names, Data, Out, FileType
<1>2. file' = [file EXCEPT ![Out] = v]
  BY <1>1 DEF Captured, FileType
<1>3. row \in RowType /\ row[1] = session
  BY <1>1 DEF RowType
<1>4. \A r \in Range(Append(file[Out].rows, row)) : r = row \/ r \in Range(file[Out].rows)
  BY <1>1 DEF Range
<1> HIDE DEF row
<1>5. /\ Append(file[Out].rows, row) \in Seq(RowType)
      /\ v.rows = Append(file[Out].rows, row) /\ v \in FileType /\ v.of = session
  BY <1>1, <1>3 DEF FileType
<1>6. \A r \in Range(v.rows) : r[1] = session
  BY <1>1, <1>3, <1>4, <1>5 DEF FInv, FilesInv
<1> HIDE DEF v
<1> QED BY <1>2, <1>5, <1>6, Writes

LEMMA KillStep == ASSUME FInv, Kill PROVE FInv'
<1>0. /\ stack # <<>> /\ stack' = <<>>
      /\ WrittenInPart \/ UNCHANGED <<file, runs>>
      /\ UNCHANGED <<live, memory, session, backups, clock, kept>>
  BY DEF Kill, captureVars
<1>1. CASE UNCHANGED <<file, runs>>
  BY <1>0, <1>1, Ends
<1>t. /\ file["labeled"] \in FileType /\ file["capture"] \in FileType
      /\ file["manifest"] \in ManifestType /\ DOMAIN file = Names \cup Manifests
      /\ \A n \in Names : file[n] \in FileType
      /\ \A n \in Manifests : file[n] \in ManifestType /\ n \notin Names
      /\ session \in Nat /\ runs \in [1..RUNS -> FileType] /\ memory \in MemoryType
  BY DEF FInv, TypeInv, Names, Manifests
<1>2. ASSUME In("label", "start"), NEW f \in CutOff(LabelledNow),
             file' = [file EXCEPT !["labeled"] = f], UNCHANGED runs
      PROVE  FInv'
  <2>0. live = {}
    BY <1>2 DEF In, Busy, FInv, StackInv
  <2>1. /\ LabelledNow \in FileType /\ LabelledNow.of = file["capture"].of
        /\ LabelledNow.rows = file["capture"].rows
    BY <1>t DEF LabelledNow, FileType
  <2>2. /\ f \in FileType /\ f.of = file["capture"].of
        /\ \A r \in Range(f.rows) : r \in Range(file["capture"].rows)
        /\ f.rows # <<>> => file["capture"].rows # <<>> /\ f.rows[1] = file["capture"].rows[1]
    BY <1>2, <2>1, CutShort
  <2>3. /\ DOMAIN file' = DOMAIN file /\ file'["labeled"] = f
        /\ \A n \in Names \cup Manifests : n # "labeled" => file'[n] = file[n]
        /\ file'["tuning"] = file["tuning"]
        /\ file'["tuning_manifest"] = file["tuning_manifest"]
    BY <1>2, <1>t DEF Names, Manifests
  <2>4. FilesInv'
    <3>1. file["capture"] \in Data
      BY DEF Data, Names
    <3>2. Data' \subseteq Data \cup {f}
      BY <1>2, <2>3 DEF Data
    <3>3. f.of <= session /\ \A r \in Range(f.rows) : r[1] = f.of
      BY <2>2, <3>1 DEF FInv, FilesInv
    <3>4. \A g \in Data : g.of = f.of /\ g.rows # <<>> /\ f.rows # <<>> => f.rows[1] = g.rows[1]
      BY <2>2, <3>1 DEF FInv, FilesInv
    <3>5. \A n \in Manifests : file'[n].of <= session
      BY <2>3 DEF FInv, FilesInv, Names, Manifests
    <3> QED BY <1>0, <2>0, <3>2, <3>3, <3>4, <3>5, OneMore
  <2>5. TuningManifestBelongs' /\ KeptInv'
    <3>1. \A n \in Keeping : file'[n] = file[n]
      BY <2>3 DEF Keeping, Names, Manifests
    <3> QED BY <1>0, <2>0, <2>3, <3>1
        DEF FInv, AsideInv, TuningManifestBelongs, KeptInv, Out
  <2>6. TypeInv'
    <3>1. /\ \A n \in Names : file'[n] \in FileType
          /\ \A n \in Manifests : file'[n] \in ManifestType
      BY <1>t, <2>2, <2>3 DEF Names, Manifests
    <3> QED BY <1>0, <1>2, <1>t, <2>0, <2>3, <3>1 DEF FInv, TypeInv
  <2> QED BY <1>0, <1>2, <2>0, <2>3, <2>4, <2>5, <2>6, EndsIdle DEF FInv, PipelineInv
<1>3. ASSUME In("tuning", "copy"), NEW f \in CutOff(file["labeled"]),
             file' = [file EXCEPT !["tuning"] = f], UNCHANGED runs
      PROVE  FInv'
  <2>1. /\ f \in FileType /\ f.of = file["labeled"].of /\ f.truth = file["labeled"].truth
        /\ \A r \in Range(f.rows) : r \in Range(file["labeled"].rows)
        /\ f.rows # <<>> => file["labeled"].rows # <<>> /\ f.rows[1] = file["labeled"].rows[1]
    BY <1>t, <1>3, CutShort
  <2>2. /\ live = {} /\ DOMAIN file' = Names \cup Manifests
        /\ \A n \in Names : file'[n] \in FileType
        /\ \A n \in Manifests : file'[n] \in ManifestType
        /\ file'["tuning"].truth.of = file'["tuning"].of
        /\ TuningManifestBelongs' /\ FilesInv' /\ KeptInv'
    BY <1>0, <1>3, <2>1, TuningCopied
  <2>3. TypeInv'
    BY <1>0, <1>3, <1>t, <2>2 DEF FInv, TypeInv
  <2> QED BY <1>0, <1>3, <2>2, <2>3, EndsIdle DEF FInv, PipelineInv
<1>4. ASSUME In("multi_run", "copy"), NEW f \in CutOff(file["labeled"]),
             runs' = [runs EXCEPT ![Top.i] = f], UNCHANGED file
      PROVE  FInv'
  <2>1. /\ f \in FileType /\ f.of = file["labeled"].of /\ f.truth = file["labeled"].truth
        /\ \A r \in Range(f.rows) : r \in Range(file["labeled"].rows)
        /\ f.rows # <<>> => file["labeled"].rows # <<>> /\ f.rows[1] = file["labeled"].rows[1]
    BY <1>t, <1>4, CutShort
  <2>2. /\ live = {} /\ runs' \in [1..RUNS -> FileType]
        /\ \A i \in 1..RUNS : runs'[i].truth.of = runs'[i].of
        /\ FilesInv' /\ KeptInv'
    BY <1>0, <1>4, <2>1, RunCopied
  <2>3. TypeInv'
    BY <1>0, <1>4, <1>t, <2>2 DEF FInv, TypeInv
  <2>4. TuningManifestBelongs'
    BY <1>4 DEF FInv, AsideInv, TuningManifestBelongs
  <2> QED BY <1>0, <1>4, <2>2, <2>3, <2>4, EndsIdle DEF FInv, PipelineInv
<1> QED BY <1>0, <1>1, <1>2, <1>3, <1>4 DEF WrittenInPart

LEMMA TypeStep == ASSUME FInv, NEW c \in Commands, Type(c) PROVE FInv'
<1>0. /\ stack' = <<Frame(c)>> /\ live = {} /\ clock' = clock + 1
      /\ UNCHANGED <<live, memory, session, file, runs, backups, kept>>
  BY DEF Type, captureVars
<1>1. Frame(c) \in FrameType /\ Frame(c).at = "start" /\ Frame(c).i = 1 /\ Frame(c).script = c
  BY DEF Frame, FrameType, Places
<1>2. /\ stack' \in Seq(FrameType) /\ Len(stack') = 1 /\ stack' # <<>>
      /\ stack'[1] = Frame(c) /\ Top' = Frame(c)
  BY <1>0, <1>1 DEF Top
<1>3. ~Busy' /\ Data' = Data
  BY <1>0, <1>1, <1>2 DEF Busy, Data
<1>a. TypeInv' /\ StackInv' /\ FilesInv'
  BY <1>0, <1>2, <1>3 DEF FInv, TypeInv, StackInv, FilesInv
<1>b. CaptureInv' /\ AsideInv' /\ PipelineInv'
  BY <1>0, <1>1, <1>2, <1>3
  DEF FInv, CaptureInv, AsideInv, PipelineInv, ToLabel, ToCopy, In, TuningManifestBelongs
<1>c. RunsInv'
  BY <1>0, <1>1, <1>2 DEF RunsInv, In
<1>d. StampsInv'
  <2>1. \A n \in Names \cup Manifests, t \in Nat :
          <<n, t>> \in DOMAIN backups => t <= clock + 1 /\ t # clock + 1
    BY DEF FInv, StampsInv, TypeInv
  <2>2. clock + 1 \in Nat
    BY DEF FInv, TypeInv
  <2>3. \A n \in Names \cup Manifests : ~Used(n)'
    BY <1>0, <2>1, <2>2 DEF Used
  <2>4. \A j \in 1..Len(stack') : Free(stack[j])'
    BY <2>3 DEF Free, Names, Manifests
  <2> QED BY <1>0, <2>1, <2>4 DEF StampsInv
<1>e. KeptInv'
  BY <1>0 DEF FInv, KeptInv
<1> QED BY <1>a, <1>b, <1>c, <1>d, <1>e DEF FInv

LEMMA InterruptStep == ASSUME FInv, Interrupt PROVE FInv'
<1>0. /\ stack # <<>> /\ live' \in SUBSET live
      /\ UNCHANGED <<memory, session, file, runs, backups, clock, kept>>
      /\ IF Top.script \in {"scenario", "baseline"} /\ Top.at \notin {"start", "launch"}
         THEN GoTo("stop_failed") ELSE Fail
  BY DEF Interrupt, fileVars
<1>1. CASE Busy
  <2>1. GoTo("stop_failed") /\ "stop_failed" \in Places \ {"start", "launch"}
    BY <1>0, <1>1 DEF Busy, Places
  <2> QED BY <1>0, <1>1, <2>1, Within DEF FInv, TypeInv
<1>2. CASE ~Busy
  BY <1>0, <1>2, Ends DEF Busy, Fail
<1> QED BY <1>1, <1>2

\* The steps of a session between its start and its end.
LEMMA CaptureStep == ASSUME FInv, Capture PROVE FInv'
<1>t. memory \in MemoryType /\ live \in SUBSET {"plc", "tap", "hmi"} /\ session \in Nat
  BY DEF FInv, TypeInv
<1>1. CASE StartBaseline
  <2>1. /\ stack # <<>> /\ In("baseline", "start") /\ backups' = BackedUp("baseline")
        /\ file' = [file EXCEPT !["baseline"] = NoFile] /\ GoTo("launch")
        /\ UNCHANGED <<live, memory, session, runs, clock, kept>>
    BY <1>1 DEF StartBaseline, In, captureVars
  <2>2. "baseline" \in Keeping /\ "baseline" \in Names /\ "launch" \in Places
    BY DEF Keeping, Names, Places
  <2> QED BY <2>1, <2>2, MovedAside
<1>2. CASE LaunchPlc
  BY <1>2, LaunchPlcStep
<1>3. CASE LaunchTap
  <2>1. /\ Busy /\ live' = live \cup {"tap"} /\ live # {} /\ GoTo("tap")
        /\ UNCHANGED <<memory, session, file, runs, backups, clock, kept>>
    BY <1>3 DEF LaunchTap, Capturing, Busy, fileVars
  <2>2. "tap" \in Places \ {"start", "launch"}
    BY DEF Places
  <2> QED BY <1>t, <2>1, <2>2, Within
<1>4. CASE LaunchHmi
  <2>1. /\ Busy /\ live' = live \cup {"hmi"} /\ live # {} /\ GoTo("port")
        /\ file[Out].of = session
        /\ UNCHANGED <<memory, session, file, runs, backups, clock, kept>>
    BY <1>4 DEF LaunchHmi, Capturing, Busy, fileVars, TapUp
  <2>2. "port" \in Places \ {"start", "launch"}
    BY DEF Places
  <2> QED BY <1>t, <2>1, <2>2, Within
<1>5. CASE NotUp \/ ReadEmptyPort
  <2>1. /\ Busy /\ GoTo("stop_failed")
        /\ UNCHANGED <<live, memory, session, file, runs, backups, clock, kept>>
    BY <1>5 DEF NotUp, ReadEmptyPort, Capturing, Busy, fileVars, captureVars
  <2>2. "stop_failed" \in Places \ {"start", "launch"}
    BY DEF Places
  <2> QED BY <1>t, <2>1, <2>2, Within
<1>6. CASE ReadPort \/ NoPort
  <2>1. /\ Capturing("port") /\ GoTo("attack")
        /\ memory' = memory \/ memory' = [memory EXCEPT !.hmi = TRUE]
        /\ UNCHANGED <<live, session, file, runs, backups, clock, kept>>
    BY <1>6 DEF ReadPort, NoPort, fileVars, captureVars
  <2>2. memory' \in MemoryType /\ memory'.out = memory.out
    BY <1>t, <2>1 DEF MemoryType
  <2>3. Busy /\ file[Out].of = session
    BY <2>1 DEF Capturing, Busy, FInv, CaptureInv
  <2>4. "attack" \in Places \ {"start", "launch"}
    BY DEF Places
  <2> QED BY <1>t, <2>1, <2>2, <2>3, <2>4, Within
<1>7. CASE BaselineOver
  <2>1. /\ Capturing("port") /\ Out = "baseline" /\ GoTo("stop")
        /\ UNCHANGED <<live, memory, session, file, runs, backups, clock, kept>>
    BY <1>7 DEF BaselineOver, fileVars, captureVars
  <2>2. Busy /\ file[Out].of = session /\ Top.script # "scenario"
    BY <2>1 DEF Capturing, Busy, FInv, CaptureInv
  <2>3. "stop" \in Places \ {"start", "launch"}
    BY DEF Places
  <2> QED BY <1>t, <2>1, <2>2, <2>3, Within
<1>8. ASSUME NEW a \in Attacks, RunAttack(a) PROVE FInv'
  <2>1. /\ In("scenario", "attack") /\ live # {} /\ Captured(a) /\ Tried(a, {a})
        /\ UNCHANGED <<stack, live, session, runs, backups, clock, kept>>
    BY <1>8 DEF RunAttack, NextAttack
  <2>2. file[Out].of = session
    BY <2>1 DEF In, Busy, FInv, CaptureInv
  <2>3. memory' \in MemoryType /\ memory'.out = memory.out
    BY <1>t, <2>1 DEF Tried, MemoryType
  <2> QED BY <2>1, <2>2, <2>3, CapturedStep DEF Clients
<1>9. ASSUME NEW a \in Attacks, AttackFails(a) PROVE FInv'
  <2>1. /\ Tried(a, {}) \/ Tried(a, {a})
        /\ UNCHANGED <<stack, live, session, file, runs, backups, clock, kept>>
    BY <1>9 DEF AttackFails, fileVars
  <2>2. ASSUME NEW log \in SUBSET Attacks, Tried(a, log)
        PROVE  memory' \in MemoryType /\ memory'.out = memory.out
    <3>1. memory.tried \cup {a} \in SUBSET Attacks /\ memory.logged \cup log \in SUBSET Attacks
      BY <1>t DEF MemoryType
    <3>2. memory' = [memory EXCEPT !.tried = memory.tried \cup {a},
                                   !.logged = memory.logged \cup log]
      BY <1>t, <2>2 DEF Tried, MemoryType
    <3> QED BY <1>t, <3>1, <3>2 DEF MemoryType
  <2>3. memory' \in MemoryType /\ memory'.out = memory.out
    BY <2>1, <2>2
  <2> QED BY <1>t, <2>1, <2>3, Beside
<1>10. CASE WriteManifest
  BY <1>10, WriteManifestStep
<1>11. CASE StopChild
  <2>1. /\ live' \in SUBSET live
        /\ UNCHANGED <<stack, memory, session, file, runs, backups, clock, kept>>
    BY <1>11 DEF StopChild, fileVars
  <2> QED BY <1>t, <2>1, Beside
<1>12. CASE Stopped
  BY <1>12, StoppedStep
<1> QED BY <1>1, <1>2, <1>3, <1>4, <1>5, <1>6, <1>7, <1>8, <1>9, <1>10, <1>11, <1>12 DEF Capture

LEMMA ChildrenStep == ASSUME FInv, Children PROVE FInv'
<1>t. memory \in MemoryType /\ live \in SUBSET {"plc", "tap", "hmi"} /\ session \in Nat
  BY DEF FInv, TypeInv
<1>1. CASE TapOpens
  <2> DEFINE v == [NoFile EXCEPT !.of = session]
  <2>1. /\ live # {} /\ file' = [file EXCEPT ![Out] = v]
        /\ UNCHANGED <<stack, live, memory, session, runs, backups, clock, kept>>
    BY <1>1 DEF TapOpens, captureVars
  <2>0. v = [of |-> session, rows |-> <<>>, truth |-> NoManifest]
    BY DEF NoFile
  <2>2. v \in FileType /\ v.of = session /\ Range(v.rows) = {}
    BY <1>t, <2>0, NoFileType DEF FileType, Range
  <2> HIDE DEF v
  <2> QED BY <1>t, <2>1, <2>2, Writes
<1>2. CASE HmiCreatesPortFile \/ HmiWritesPort
  <2>1. UNCHANGED <<stack, live, memory, session, file, runs, backups, clock, kept>>
    BY <1>2 DEF HmiCreatesPortFile, HmiWritesPort, fileVars
  <2> QED BY <1>t, <2>1, Beside
<1>3. CASE HmiPolls
  <2>1. /\ live # {} /\ file[Out].of = session /\ Captured("hmi")
        /\ UNCHANGED <<stack, live, memory, session, runs, backups, clock, kept>>
    BY <1>3 DEF HmiPolls, TapUp, captureVars
  <2> QED BY <1>t, <2>1, CapturedStep DEF Clients
<1>4. ASSUME NEW c \in live, ChildDies(c) PROVE FInv'
  <2>1. /\ live' \in SUBSET live
        /\ UNCHANGED <<stack, memory, session, file, runs, backups, clock, kept>>
    BY <1>4 DEF ChildDies, fileVars
  <2> QED BY <1>t, <2>1, Beside
<1> QED BY <1>1, <1>2, <1>3, <1>4 DEF Children

\* A command of one script ends.
LEMMA AloneEnds ==
  ASSUME FInv, stack # <<>>, Top.script \in {"baseline", "evaluate", "multi_run", "reuse"}, Exit0
  PROVE  stack' = <<>>
BY Callers, ExitStack DEF FInv

\* Labelling, tuning, scoring, and what runs them.
LEMMA PipelineStep == ASSUME FInv, Pipeline PROVE FInv'
<1>1. CASE LabelMissing
  <2>1. stack' = <<>> /\ UNCHANGED <<live, memory, session, file, runs, backups, clock, kept>>
    BY <1>1 DEF LabelMissing, Fail, captureVars, fileVars
  <2> QED BY <2>1, Ends
<1>2. CASE Label
  BY <1>2, LabelStep
<1>3. CASE TuningCalls
  <2>1. UNCHANGED <<live, memory, session, file, runs, backups, clock, kept>>
    BY <1>3 DEF TuningCalls, captureVars, fileVars
  <2>2. CASE In("tuning", "start") /\ CallThen("scenario", "label")
    <3>1. stack # <<>> /\ Top.script = "tuning" /\ Top.at = "start"
      BY <2>2 DEF In
    <3>2. "scenario" \in Commands /\ "label" \in Places
      BY DEF Commands, Places
    <3> QED BY <2>1, <2>2, <3>1, <3>2, Calling
  <2>3. CASE In("tuning", "label") /\ CallThen("label", "backup")
    <3>1. stack # <<>> /\ Top.script = "tuning" /\ Top.at = "label"
      BY <2>3 DEF In
    <3>2. "label" \in Commands /\ "backup" \in Places
      BY DEF Commands, Places
    <3> QED BY <2>1, <2>3, <3>1, <3>2, Calling
  <2> QED BY <1>3, <2>2, <2>3 DEF TuningCalls
<1>4. CASE BackUpTuning
  <2>1. CASE In("tuning", "backup") /\ MoveAside("tuning") /\ GoTo("backup_manifest")
    <3>1. "tuning" \in Keeping /\ "backup_manifest" \in Places /\ "tuning" \in Names
      BY DEF Keeping, Places, Names
    <3>2. /\ stack # <<>> /\ backups' = BackedUp("tuning")
          /\ file' = [file EXCEPT !["tuning"] = IF "tuning" \in Names THEN NoFile ELSE NoManifest]
          /\ UNCHANGED <<live, memory, session, runs, clock, kept>>
      BY <2>1, <3>1 DEF MoveAside, In, captureVars
    <3> QED BY <2>1, <3>1, <3>2, MovedAside
  <2>2. CASE In("tuning", "backup_manifest") /\ MoveAside("tuning_manifest") /\ GoTo("copy")
    <3>1. "tuning_manifest" \in Keeping /\ "copy" \in Places /\ "tuning_manifest" \notin Names
      BY DEF Keeping, Places, Names
    <3>2. /\ stack # <<>> /\ backups' = BackedUp("tuning_manifest")
          /\ file' = [file EXCEPT !["tuning_manifest"] =
                        IF "tuning_manifest" \in Names THEN NoFile ELSE NoManifest]
          /\ UNCHANGED <<live, memory, session, runs, clock, kept>>
      BY <2>2, <3>1 DEF MoveAside, In, captureVars
    <3> QED BY <2>2, <3>1, <3>2, MovedAside
  <2> QED BY <1>4, <2>1, <2>2 DEF BackUpTuning
<1>5. CASE CopyTuning
  BY <1>5, CopyTuningStep, CopyManifestStep DEF CopyTuning, captureVars
<1>6. CASE Evaluate
  <2>1. /\ stack # <<>> /\ Top.script = "evaluate"
        /\ Exit0 \/ Fail
        /\ UNCHANGED <<live, memory, session, file, runs, backups, clock, kept>>
    BY <1>6 DEF Evaluate, In, captureVars
  <2> QED BY <2>1, AloneEnds, Ends DEF Fail
<1>7. CASE MultiStart
  <2>1. UNCHANGED <<live, memory, session, file, runs, backups, clock, kept>>
    BY <1>7 DEF MultiStart, captureVars, fileVars
  <2>2. /\ stack # <<>> /\ Top.script \in {"multi_run", "reuse"} /\ Top.at \in {"start", "tuned"}
        /\ \/ Fail
           \/ GoTo("tuned")
           \/ Top.at = "start" /\ CallThen("tuning", "tuned")
           \/ GoTo("loop")
    BY <1>7 DEF MultiStart, Multi, In
  <2>3. CASE Fail
    BY <2>1, <2>3, Ends DEF Fail
  <2>4. CASE GoTo("tuned") \/ GoTo("loop")
    BY <2>1, <2>2, <2>4, Proceeds
  <2>5. CASE Top.at = "start" /\ CallThen("tuning", "tuned")
    <3>1. "tuning" \in Commands /\ "tuned" \in Places
      BY DEF Commands, Places
    <3> QED BY <2>1, <2>2, <2>5, <3>1, Calling
  <2> QED BY <2>2, <2>3, <2>4, <2>5
<1>8. CASE MultiCapture
  <2>1. UNCHANGED <<live, memory, session, file, runs, backups, clock, kept>>
    BY <1>8 DEF MultiCapture, captureVars, fileVars
  <2>2. CASE In("multi_run", "loop") /\ CallThen("scenario", "label")
    <3>1. stack # <<>> /\ Top.script = "multi_run" /\ Top.at = "loop"
      BY <2>2 DEF In
    <3>2. "scenario" \in Commands /\ "label" \in Places
      BY DEF Commands, Places
    <3> QED BY <2>1, <2>2, <3>1, <3>2, Calling
  <2>3. CASE In("multi_run", "label") /\ CallThen("label", "copy")
    <3>1. stack # <<>> /\ Top.script = "multi_run" /\ Top.at = "label"
      BY <2>3 DEF In
    <3>2. "label" \in Commands /\ "copy" \in Places
      BY DEF Commands, Places
    <3> QED BY <2>1, <2>3, <3>1, <3>2, Calling
  <2>4. CASE /\ \/ In("multi_run", "loop") /\ Top.i > RUNS
                \/ In("reuse", "loop")
             /\ GoTo("score")
    <3>1. /\ stack # <<>> /\ Top.script \in {"multi_run", "reuse"}
          /\ Top.script = "multi_run" => Top.i > RUNS
      BY <2>4 DEF In
    <3> QED BY <2>1, <2>4, <3>1, Proceeds
  <2> QED BY <1>8, <2>2, <2>3, <2>4 DEF MultiCapture
<1>9. CASE CopyRun
  BY <1>9, CopyRunStep
<1>10. CASE MultiScore
  <2>1. /\ stack # <<>> /\ Top.script \in {"multi_run", "reuse"}
        /\ Exit0 \/ Fail
        /\ UNCHANGED <<live, memory, session, file, runs, backups, clock, kept>>
    BY <1>10 DEF MultiScore, Multi, In, captureVars
  <2> QED BY <2>1, AloneEnds, Ends DEF Fail
<1> QED BY <1>1, <1>2, <1>3, <1>4, <1>5, <1>6, <1>7, <1>8, <1>9, <1>10 DEF Pipeline

LEMMA FilesStep == FInv /\ [Next]_vars => FInv'
<1> SUFFICES ASSUME FInv, [Next]_vars PROVE FInv'
  OBVIOUS
<1>1. CASE StopStrays
  <2>1. /\ stack' = <<>> /\ live' \in SUBSET live
        /\ UNCHANGED <<memory, session, file, runs, backups, clock, kept>>
    BY <1>1 DEF StopStrays, fileVars
  <2> QED BY <2>1, Ends
<1>2. CASE UNCHANGED vars
  <2>1. UNCHANGED <<stack, live, memory, session, file, runs, backups, clock, kept>>
    BY <1>2 DEF vars, captureVars, fileVars
  <2>2. memory \in MemoryType /\ live \in SUBSET {"plc", "tap", "hmi"}
    BY DEF FInv, TypeInv
  <2> QED BY <2>1, <2>2, Beside
<1> QED BY <1>1, <1>2, TypeStep, CaptureStep, ChildrenStep, PipelineStep, InterruptStep, KillStep
    DEF Next

LEMMA FilesInit == Init => FInv
<1> SUFFICES ASSUME Init PROVE FInv
  OBVIOUS
<1>1. /\ DOMAIN file = Names \cup Manifests
      /\ \A n \in Names : file[n] = NoFile /\ n \notin Manifests
      /\ \A n \in Manifests : file[n] = NoManifest
      /\ \A i \in 1..RUNS : runs[i] = NoFile
      /\ runs = [i \in 1..RUNS |-> NoFile]
      /\ stack = <<>> /\ live = {} /\ session = 0 /\ clock = 0 /\ kept = {} /\ backups = <<>>
      /\ memory = Noted("capture")
  BY DEF Init, Names, Manifests
<1>2. TypeInv
  BY <1>1, NoFileType DEF TypeInv, MemoryType, Noted
<1>3. FilesInv
  <2>1. \A f \in Data : f = NoFile
    BY <1>1 DEF Data
  <2> QED BY <1>1, <2>1, NoFileType DEF FilesInv
<1>4. StackInv /\ CaptureInv /\ RunsInv /\ StampsInv /\ KeptInv
  BY <1>1 DEF StackInv, CaptureInv, RunsInv, StampsInv, KeptInv, In, Busy
<1>5. PipelineInv /\ AsideInv
  BY <1>1, NoFileType
  DEF PipelineInv, AsideInv, ToLabel, ToCopy, In, TuningManifestBelongs, Exists, Names, Manifests
<1> QED BY <1>2, <1>3, <1>4, <1>5 DEF FInv

----------------------------------------------------------------------------
(* What is scored.                                                         *)

\* Sessions that share no request, and all have one, are three sessions.
LEMMA ScorableAreThree ==
  ASSUME FInv, NEW test \in Data, Scorable(test)
  PROVE  /\ file["baseline"].of # file["tuning"].of
         /\ file["baseline"].of # test.of /\ file["tuning"].of # test.of
<1> DEFINE train == file["baseline"]
           tune == file["tuning"]
<1>1. /\ train \in Data /\ tune \in Data
      /\ train.rows \in Seq(RowType) /\ tune.rows \in Seq(RowType) /\ test.rows \in Seq(RowType)
  BY DEF Data, Names, FInv, TypeInv, FileType
<1>2. Range(tune.rows) # {}
  BY DEF Scorable, Trainable, Scored
<1>3. train.rows # <<>> /\ tune.rows # <<>> /\ test.rows # <<>>
  <2>1. tune.rows # <<>>
    BY <1>2 DEF Range
  <2> QED BY <2>1 DEF Scorable, Trainable
<1>4. /\ Disjoint(train, tune) /\ Disjoint(train, test) /\ Disjoint(tune, test)
  BY DEF Scorable, check_separate_sessions
<1>5. train.rows[1] \in Range(train.rows) /\ tune.rows[1] \in Range(tune.rows)
      /\ test.rows[1] \in Range(test.rows)
  BY <1>1, <1>3 DEF Range
<1>6. /\ train.rows[1] # tune.rows[1] /\ train.rows[1] # test.rows[1]
      /\ tune.rows[1] # test.rows[1]
  BY <1>4, <1>5 DEF Disjoint
<1> HIDE DEF train, tune
<1>7. train.of # tune.of /\ train.of # test.of /\ tune.of # test.of
  BY <1>1, <1>3, <1>6 DEF FInv, FilesInv
<1> QED BY <1>7 DEF train, tune

LEMMA ScoredTrulyStep ==
  ASSUME FInv, ReportsInv, NEW script \in {"multi_run", "reuse"}, Top.script = script,
         Multi("score"), NEW test \in Saved, Scorable(test)
  PROVE  /\ OneSession(test) /\ OneSession(file["tuning"])
         /\ script = "multi_run" => NotCaptured(test) = {}
         /\ file["baseline"].of # file["tuning"].of
         /\ file["baseline"].of # test.of /\ file["tuning"].of # test.of
<1>1. PICK k \in 1..RUNS : test = runs[k]
  BY DEF Saved
<1>2. test \in Data /\ file["tuning"] \in Data
  BY <1>1 DEF Data, Names
<1>3. OneSession(test) /\ OneSession(file["tuning"])
  BY <1>1, <1>2 DEF FInv, FilesInv, PipelineInv, OneSession
<1>4. script = "multi_run" => NotCaptured(test) = {}
  <2> SUFFICES ASSUME script = "multi_run" PROVE NotCaptured(test) = {}
    OBVIOUS
  <2>1. stack # <<>> /\ In("multi_run", "score")
    BY DEF Multi, In
  <2>2. Len(stack) \in 1..Len(stack) /\ Top = stack[Len(stack)] /\ Top.i \in Nat
    BY <2>1, TopFrame DEF FInv
  <2>3. Top.i > RUNS
    BY <2>1 DEF FInv, RunsInv
  <2>4. k < Top.i
    BY <2>2, <2>3, RUNSAssumption
  <2> QED BY <1>1, <2>2, <2>4 DEF FInv, RunsInv
<1> QED BY <1>2, <1>3, <1>4, ScorableAreThree

LEMMA ReportsStep == FInv /\ ReportsInv /\ [Next]_vars => ReportsInv'
<1> SUFFICES ASSUME FInv, ReportsInv, [Next]_vars PROVE ReportsInv'
  OBVIOUS
<1>1. CASE reports' = reports
  BY <1>1 DEF ReportsInv, MultiRunScoresTrueSessions, ThreeSessions, OneSession, NotCaptured
<1>2. CASE Evaluate
  <2>1. \A r \in reports' : r \in reports \/ /\ r = Report("evaluate", file["labeled"])
                                             /\ Scorable(file["labeled"])
    BY <1>2 DEF Evaluate
  <2>2. file["labeled"] \in Data
    BY DEF Data, Names
  <2>3. /\ Report("evaluate", file["labeled"]).by = "evaluate"
        /\ Report("evaluate", file["labeled"]).train = file["baseline"]
        /\ Report("evaluate", file["labeled"]).tune = file["tuning"]
        /\ Report("evaluate", file["labeled"]).test = file["labeled"]
    BY DEF Report
  <2>4. MultiRunScoresTrueSessions'
    BY <2>1, <2>3 DEF ReportsInv, MultiRunScoresTrueSessions, OneSession, NotCaptured
  <2>5. ThreeSessions'
    BY <2>1, <2>2, <2>3, ScorableAreThree DEF ReportsInv, ThreeSessions
  <2> QED BY <2>4, <2>5 DEF ReportsInv
<1>3. CASE MultiScore
  <2>1. \A r \in reports' : r \in reports \/ \E test \in Saved : /\ r = Report(Top.script, test)
                                                                /\ Scorable(test)
    BY <1>3 DEF MultiScore
  <2>2. Multi("score") /\ Top.script \in {"multi_run", "reuse"}
    BY <1>3 DEF MultiScore, Multi, In
  <2>3. ASSUME NEW r \in reports', r \notin reports
        PROVE  /\ r.by \in {"multi_run", "reuse"} => OneSession(r.test) /\ OneSession(r.tune)
               /\ r.by = "multi_run" => NotCaptured(r.test) = {}
               /\ r.train.of # r.tune.of /\ r.train.of # r.test.of /\ r.tune.of # r.test.of
    <3>1. PICK test \in Saved : r = Report(Top.script, test) /\ Scorable(test)
      BY <2>1, <2>3
    <3>2. r.by = Top.script /\ r.train = file["baseline"] /\ r.tune = file["tuning"] /\ r.test = test
      BY <3>1 DEF Report
    <3>3. /\ OneSession(test) /\ OneSession(file["tuning"])
          /\ Top.script = "multi_run" => NotCaptured(test) = {}
          /\ file["baseline"].of # file["tuning"].of
          /\ file["baseline"].of # test.of /\ file["tuning"].of # test.of
      BY <2>2, <3>1, ScoredTrulyStep
    <3> QED BY <3>2, <3>3
  <2>4. MultiRunScoresTrueSessions'
    BY <2>3 DEF ReportsInv, MultiRunScoresTrueSessions, OneSession, NotCaptured
  <2>5. ThreeSessions'
    BY <2>3 DEF ReportsInv, ThreeSessions
  <2> QED BY <2>4, <2>5 DEF ReportsInv
<1>4. [Next]_vars => reports' = reports \/ Evaluate \/ MultiScore
  <2>1. \A c \in Commands : Type(c) => reports' = reports
    BY DEF Type
  <2>2. StopStrays \/ Interrupt \/ Kill \/ UNCHANGED vars => reports' = reports
    BY DEF StopStrays, Interrupt, Kill, vars, fileVars
  <2>3. Capture => reports' = reports
    BY DEF Capture, StartBaseline, LaunchPlc, LaunchTap, LaunchHmi, NotUp, ReadPort,
           ReadEmptyPort, NoPort, BaselineOver, RunAttack, AttackFails, WriteManifest,
           StopChild, Stopped, fileVars
  <2>4. Children => reports' = reports
    BY DEF Children, TapOpens, HmiCreatesPortFile, HmiWritesPort, HmiPolls, ChildDies, fileVars
  <2>5. Pipeline => reports' = reports \/ Evaluate \/ MultiScore
    BY DEF Pipeline, LabelMissing, Label, TuningCalls, BackUpTuning, MoveAside, CopyTuning,
           MultiStart, MultiCapture, CopyRun, fileVars
  <2> QED BY <2>1, <2>2, <2>3, <2>4, <2>5 DEF Next
<1> QED BY <1>1, <1>2, <1>3, <1>4

----------------------------------------------------------------------------
(* What is left running.                                                   *)

LEMMA PromptStep ==
  ASSUME FInv, Next, stack # <<>>, stack' = <<>>, ~Kill
  PROVE  live' = {}
<1>1. CASE ~Busy
  <2>1. live = {}
    BY <1>1 DEF FInv, StackInv
  <2>2. ASSUME NEW place \in Places PROVE ~GoTo(place)
    BY GoToStack DEF FInv
  <2>3. ~LaunchPlc
    BY <2>2 DEF LaunchPlc, Places
  <2>4. ~LaunchTap /\ ~LaunchHmi
    BY <2>2 DEF LaunchTap, LaunchHmi, Places
  <2>5. Capture => live' = {}
    BY <2>1, <2>3, <2>4
    DEF Capture, StartBaseline, NotUp, ReadPort,
        ReadEmptyPort, NoPort, BaselineOver, RunAttack, AttackFails, WriteManifest,
        StopChild, Stopped, captureVars
  <2>6. Children => live' = {}
    BY <2>1 DEF Children, TapOpens, HmiCreatesPortFile, HmiWritesPort, HmiPolls, ChildDies,
                captureVars
  <2>7. Pipeline => live' = {}
    BY <2>1 DEF Pipeline, LabelMissing, Label, TuningCalls, BackUpTuning, MoveAside, CopyTuning,
                Evaluate, MultiStart, MultiCapture, CopyRun, MultiScore, captureVars
  <2>8. Interrupt => live' = {}
    BY <2>1 DEF Interrupt
  <2>9. ~StopStrays /\ \A c \in Commands : ~Type(c)
    BY DEF StopStrays, Type
  <2> QED BY <2>5, <2>6, <2>7, <2>8, <2>9 DEF Next
<1>2. CASE Busy
  <2>1. ASSUME NEW place \in Places PROVE ~GoTo(place)
    BY GoToStack DEF FInv
  <2>2. Top.script \in {"scenario", "baseline"} /\ Top.at \notin {"start", "launch"}
    BY <1>2 DEF Busy
  <2>3. Capture => Stopped
    BY <2>1 DEF Capture, StartBaseline, LaunchPlc, LaunchTap, LaunchHmi, NotUp, ReadPort,
                ReadEmptyPort, NoPort, BaselineOver, RunAttack, AttackFails, WriteManifest,
                StopChild, Places
  <2>4. ~Children
    BY DEF Children, TapOpens, HmiCreatesPortFile, HmiWritesPort, HmiPolls, ChildDies
  <2>5. ~Pipeline
    BY <2>2 DEF Pipeline, LabelMissing, Label, TuningCalls, BackUpTuning, CopyTuning,
                Evaluate, MultiStart, MultiCapture, CopyRun, MultiScore, Multi, In
  <2>6. ~Interrupt
    BY <2>1, <2>2 DEF Interrupt, Places
  <2>7. ~StopStrays /\ \A c \in Commands : ~Type(c)
    BY DEF StopStrays, Type
  <2>8. Stopped => live' = {}
    BY DEF Stopped, captureVars
  <2> QED BY <2>3, <2>4, <2>5, <2>6, <2>7, <2>8 DEF Next
<1> QED BY <1>1, <1>2

----------------------------------------------------------------------------
(* The results.                                                            *)

LEMMA Invariant == Spec => []SInv
<1>1. Init => SInv
  <2>1. Init => ReportsInv
    BY DEF Init, ReportsInv, MultiRunScoresTrueSessions, ThreeSessions
  <2> QED BY <2>1, FilesInit DEF SInv
<1>2. SInv /\ [Next]_vars => SInv'
  BY FilesStep, ReportsStep DEF SInv
<1> QED BY <1>1, <1>2, PTL DEF Spec

\* What a multi-run scores is whole and is of one session, whatever failed before.
THEOREM TrueSessions == Spec => []MultiRunScoresTrueSessions
<1>1. SInv => MultiRunScoresTrueSessions
  BY DEF SInv, ReportsInv
<1> QED BY <1>1, Invariant, PTL

\* The sessions of every report are three: two files of one session that are not
\* empty share their first request, which the check of the rows finds.
THEOREM SeparateSessions == Spec => []ThreeSessions
<1>1. SInv => ThreeSessions
  BY DEF SInv, ReportsInv
<1> QED BY <1>1, Invariant, PTL

\* A finished training or tuning session is never overwritten: every second has one
\* command, so the name a file is moved to is not taken.
THEOREM Survival == Spec => []FinishedSessionsSurvive
<1>1. SInv => FinishedSessionsSurvive
  BY DEF SInv, FInv, KeptInv, FinishedSessionsSurvive, TypeInv, Keeping, Names, Manifests
<1> QED BY <1>1, Invariant, PTL

\* The manifest next to the tuning session is its own.
THEOREM TuningManifest == Spec => []TuningManifestBelongs
<1>1. SInv => TuningManifestBelongs
  BY DEF SInv, FInv, AsideInv
<1> QED BY <1>1, Invariant, PTL

\* Whatever made a command end, but for a kill, its children are stopped by then.
THEOREM Stops == Spec => NothingLeftRunning
<1>1. SInv /\ [Next]_vars => [stack # <<>> /\ stack' = <<>> /\ ~Kill => live' = {}]_vars
  BY PromptStep DEF SInv, vars
<1> QED BY <1>1, Invariant, PTL DEF Spec, NothingLeftRunning

=============================================================================
