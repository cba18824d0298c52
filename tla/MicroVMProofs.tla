--------------------------- MODULE MicroVMProofs ----------------------------
(***************************************************************************)
(* Theorems about one run of a microVM, for any number of lines and any    *)
(* sizes of pipes and wire: its state keeps its shape, the drive put into  *)
(* the bucket is final, a good run has stopped its machine, and the        *)
(* details of an execution show the whole of its log.                      *)
(***************************************************************************)
EXTENDS Details, FoldLemmas, TLAPS

RunnerTypeOK ==
    /\ runner \in RunnerStages
    /\ outcome \in {"none", "ok", "error", "userError"}
    /\ files \subseteq Drives
    /\ jail \in BOOLEAN
    /\ guard \in {"off", "waiting", "stop", "gone"}
    /\ stopping \in {"no", "wait", "free", "done"}
    /\ saved \in BOOLEAN

\* The lines a job announces itself, and the lines of its child, are bounded:
\* that is why every message fits into Messages.
LinesInv ==
    /\ written["stdout"] + written["stderr"] <= Lines
    /\ written["system"] <= 2
    /\ agent = "listen" => written["system"] = 0
    /\ agent \in {"start", "scan", "wait"} => written["system"] = 1

\* tmp drives are prepared for executions alone.
TmpInv == runner = "tmp" => kind = "exec"

\* What is written has been received.
HeldInv == receiver = "write" => held \in Messages

ShapeInv == TypeOK /\ LinesInv /\ TmpInv /\ HeldInv

-----------------------------------------------------------------------------
\* The messages of the agent are messages.
LEMMA LinesAreMessages ==
    ASSUME NEW ch \in Channels, NEW n \in 1..(Lines + 2)
    PROVE  Line(ch, n) \in Messages
BY DEF Line, Messages

LEMMA DonesAreMessages ==
    ASSUME NEW code \in ExitCodes
    PROVE  DoneMessage(code) \in Messages
BY DEF Messages

LEMMA TailIsShorter ==
    ASSUME NEW S, NEW s \in Seq(S), s # <<>>
    PROVE  Tail(s) \in Seq(S) /\ Len(Tail(s)) + 1 = Len(s)
OBVIOUS

LEMMA HeadIsMember ==
    ASSUME NEW S, NEW s \in Seq(S), s # <<>>
    PROVE  Head(s) \in S
OBVIOUS

\* A send keeps the wire within its size.
LEMMA SendKeepsLink ==
    ASSUME LinkTypeOK, NEW m \in Messages, AgentSends(m)
    PROVE  LinkTypeOK' /\ kind' = kind
<1> USE LinkAssumption
<1>1. CASE conn = "open" /\ Len(wire) < WireSize /\ wire' = Append(wire, m)
  <2>1. wire' \in Seq(Messages) /\ Len(wire') = Len(wire) + 1
    BY <1>1 DEF LinkTypeOK
  <2>2. Len(wire') <= WireSize
    BY <1>1, <2>1 DEF LinkTypeOK
  <2> QED BY <2>1, <2>2 DEF LinkTypeOK, AgentSends
<1>2. CASE conn = "closed" /\ UNCHANGED wire
  BY <1>2 DEF LinkTypeOK, AgentSends
<1> QED BY <1>1, <1>2 DEF AgentSends

\* What is left of the wire when the machine goes is a part of it.
LEMMA PowerOffKeepsLink ==
    ASSUME LinkTypeOK, AgentTypeOK, PoweredOff
    PROVE  LinkTypeOK' /\ AgentTypeOK' /\ kind' = kind /\ agent' = "off"
<1> USE LinkAssumption, AgentAssumption
<1>1. PICK n \in 0..Len(wire) : wire' = SubSeq(wire, 1, n)
  BY DEF PoweredOff
<1>2. wire' \in Seq(Messages) /\ Len(wire') = n
  BY <1>1 DEF LinkTypeOK
<1>3. Len(wire') <= WireSize
  BY <1>1, <1>2 DEF LinkTypeOK
<1>4. LinkTypeOK'
  BY <1>2, <1>3 DEF LinkTypeOK, PoweredOff
<1>5. pipe' \in [Output -> Seq(0..Lines)] /\ \A ch \in Output : Len(pipe'[ch]) <= PipeSize
  <2>1. <<>> \in Seq(0..Lines) /\ Len(<<>>) = 0
    OBVIOUS
  <2> QED BY <2>1 DEF PoweredOff
<1>6. AgentTypeOK'
  BY <1>5 DEF PoweredOff, AgentTypeOK, AgentStages
<1> QED BY <1>4, <1>6 DEF PoweredOff

\* EmitSystem, with the bound its caller has on the lines so far.
LEMMA EmitKeeps ==
    ASSUME LinkTypeOK, AgentTypeOK, LinesInv, written["system"] <= 1, EmitSystem
    PROVE  /\ LinkTypeOK' /\ kind' = kind
           /\ written' \in [Channels -> 0..(Lines + 2)]
           /\ written'["system"] = written["system"] + 1
           /\ written'["stdout"] = written["stdout"]
           /\ written'["stderr"] = written["stderr"]
<1> USE LinkAssumption
<1>1. written["system"] \in Nat /\ written["system"] + 1 \in 1..(Lines + 2)
  BY DEF AgentTypeOK, Channels
<1>2. "system" \in Channels
  BY DEF Channels
<1>3. Line("system", written["system"] + 1) \in Messages
  BY <1>1, <1>2, LinesAreMessages
<1>4. LinkTypeOK' /\ kind' = kind
  BY <1>3, SendKeepsLink DEF EmitSystem
<1>5. written' = [written EXCEPT !["system"] = @ + 1]
  BY DEF EmitSystem
<1> QED BY <1>1, <1>4, <1>5 DEF AgentTypeOK, Channels, Output

-----------------------------------------------------------------------------
\* Nothing the guest does spoils the shapes.
LEMMA AgentKeepsShape ==
    ASSUME LinkTypeOK, AgentTypeOK, LinesInv, AgentNext
    PROVE  LinkTypeOK' /\ AgentTypeOK' /\ LinesInv' /\ kind' = kind
<1> USE LinkAssumption, AgentAssumption
<1>1. CASE TakeCommand
  <2>1. written["system"] = 0 /\ EmitSystem /\ agent' = "start"
    BY <1>1 DEF TakeCommand, AgentAt, LinesInv
  <2>2. /\ LinkTypeOK' /\ kind' = kind
        /\ written' \in [Channels -> 0..(Lines + 2)] /\ written'["system"] = 1
        /\ written'["stdout"] = written["stdout"] /\ written'["stderr"] = written["stderr"]
    BY <2>1, EmitKeeps
  <2> QED BY <1>1, <2>1, <2>2 DEF TakeCommand, AgentTypeOK, AgentStages, LinesInv
<1>2. CASE NoCommand
  BY <1>2 DEF NoCommand, AgentTypeOK, AgentStages, LinesInv, linkVars, LinkTypeOK
<1>3. CASE JobFails
  BY <1>3 DEF JobFails, AgentTypeOK, AgentStages, LinesInv, linkVars, LinkTypeOK
<1>4. CASE NothingToRun
  <2>1. written["system"] = 1 /\ EmitSystem /\ agent' = "report"
    BY <1>4 DEF NothingToRun, AgentAt, LinesInv
  <2>2. /\ LinkTypeOK' /\ kind' = kind
        /\ written' \in [Channels -> 0..(Lines + 2)] /\ written'["system"] = 2
        /\ written'["stdout"] = written["stdout"] /\ written'["stderr"] = written["stderr"]
    BY <2>1, EmitKeeps
  <2> QED BY <1>4, <2>1, <2>2 DEF NothingToRun, AgentTypeOK, AgentStages, LinesInv
<1>5. CASE StartChild
  BY <1>5 DEF StartChild, AgentAt, AgentTypeOK, AgentStages, LinesInv, linkVars, LinkTypeOK
<1>6. CASE ChildExits
  BY <1>6 DEF ChildExits, AgentTypeOK, LinesInv, linkVars, LinkTypeOK
<1>7. CASE Drained
  BY <1>7 DEF Drained, AgentAt, AgentTypeOK, AgentStages, LinesInv, linkVars, LinkTypeOK
<1>8. CASE Reap
  <2>1. written["system"] = 1 /\ agent' = "cleanup"
    BY <1>8 DEF Reap, AgentAt, LinesInv
  <2>2. CASE exitCode = 0 /\ UNCHANGED <<linkVars, written>>
    BY <1>8, <2>1, <2>2 DEF Reap, AgentTypeOK, AgentStages, LinesInv, linkVars, LinkTypeOK
  <2>3. CASE EmitSystem
    <3>1. /\ LinkTypeOK' /\ kind' = kind
          /\ written' \in [Channels -> 0..(Lines + 2)] /\ written'["system"] = 2
          /\ written'["stdout"] = written["stdout"] /\ written'["stderr"] = written["stderr"]
      BY <2>1, <2>3, EmitKeeps
    <3> QED BY <1>8, <2>1, <3>1 DEF Reap, AgentTypeOK, AgentStages, LinesInv
  <2> QED BY <1>8, <2>2, <2>3 DEF Reap
<1>9. CASE CleanUp
  BY <1>9 DEF CleanUp, AgentTypeOK, AgentStages, LinesInv, linkVars, LinkTypeOK
<1>10. CASE Report
  <2>1. AgentSends(DoneMessage(exitCode))
    BY <1>10 DEF Report
  <2>2. DoneMessage(exitCode) \in Messages
    BY DonesAreMessages DEF AgentTypeOK
  <2>3. LinkTypeOK' /\ kind' = kind
    BY <2>1, <2>2, SendKeepsLink
  <2> QED BY <1>10, <2>3 DEF Report, AgentTypeOK, AgentStages, LinesInv
<1>11. CASE PowerOff
  <2>1. PoweredOff
    BY <1>11 DEF PowerOff
  <2> QED BY <2>1, PowerOffKeepsLink DEF PoweredOff, LinesInv
<1>12. ASSUME NEW ch \in Output, ChildWrites(ch)
       PROVE  LinkTypeOK' /\ AgentTypeOK' /\ LinesInv' /\ kind' = kind
  <2>1. PICK line \in {written[ch] + 1} \cup (IF LongLines THEN {Long} ELSE {}) :
           pipe' = [pipe EXCEPT ![ch] = Append(@, line)]
    BY <1>12 DEF ChildWrites
  <2>2. /\ written[ch] \in Nat /\ written["stdout"] \in Nat /\ written["stderr"] \in Nat
        /\ written["stdout"] + written["stderr"] < Lines
    BY <1>12 DEF ChildWrites, AgentTypeOK, Channels, Output
  <2>3. written[ch] + 1 <= Lines
    BY <2>2 DEF Output
  <2>4. line \in 0..Lines
    BY <2>1, <2>2, <2>3 DEF Long
  <2>5. pipe[ch] \in Seq(0..Lines) /\ Len(pipe[ch]) < PipeSize
    BY <1>12 DEF ChildWrites, AgentTypeOK
  <2>6. Append(pipe[ch], line) \in Seq(0..Lines) /\ Len(Append(pipe[ch], line)) <= PipeSize
    BY <2>4, <2>5
  <2>7. pipe' \in [Output -> Seq(0..Lines)] /\ \A c \in Output : Len(pipe'[c]) <= PipeSize
    BY <2>1, <2>6 DEF AgentTypeOK
  <2>8. written' = [written EXCEPT ![ch] = @ + 1]
    BY <1>12 DEF ChildWrites
  <2>9. written' \in [Channels -> 0..(Lines + 2)]
    BY <2>2, <2>3, <2>8 DEF AgentTypeOK, Channels
  <2>10. AgentTypeOK'
    BY <1>12, <2>7, <2>9 DEF ChildWrites, AgentTypeOK
  <2>11. LinesInv'
    BY <1>12, <2>2, <2>8 DEF ChildWrites, LinesInv, AgentTypeOK, Channels, Output
  <2> QED BY <1>12, <2>10, <2>11 DEF ChildWrites, linkVars, LinkTypeOK
<1>13. ASSUME NEW ch \in Output, ScanLine(ch)
       PROVE  LinkTypeOK' /\ AgentTypeOK' /\ LinesInv' /\ kind' = kind
  <2>1. /\ AgentSends(Line(ch, Head(pipe[ch])))
        /\ pipe' = [pipe EXCEPT ![ch] = Tail(@)]
        /\ pipe[ch] \in Seq(0..Lines) /\ Len(pipe[ch]) <= PipeSize
        /\ pipe[ch] # <<>> /\ Head(pipe[ch]) # 0
    BY <1>13 DEF ScanLine, AgentTypeOK, Long
  <2>2. Head(pipe[ch]) \in 1..(Lines + 2)
    <3>1. Head(pipe[ch]) \in 0..Lines
      BY <2>1
    <3> QED BY <2>1, <3>1
  <2>3. Line(ch, Head(pipe[ch])) \in Messages
    BY <2>2, LinesAreMessages DEF Channels
  <2>4. LinkTypeOK' /\ kind' = kind
    BY <2>1, <2>3, SendKeepsLink
  <2>5. Tail(pipe[ch]) \in Seq(0..Lines) /\ Len(Tail(pipe[ch])) <= PipeSize
    <3>1. Tail(pipe[ch]) \in Seq(0..Lines) /\ Len(Tail(pipe[ch])) + 1 = Len(pipe[ch])
      BY <2>1, TailIsShorter, Zenon
    <3>2. Len(Tail(pipe[ch])) \in Nat /\ Len(pipe[ch]) \in Nat
      BY <2>1, <3>1
    <3> QED BY <2>1, <3>1, <3>2
  <2>6. pipe' \in [Output -> Seq(0..Lines)] /\ \A c \in Output : Len(pipe'[c]) <= PipeSize
    BY <2>1, <2>5 DEF AgentTypeOK
  <2> QED BY <1>13, <2>4, <2>6 DEF ScanLine, AgentTypeOK, LinesInv
<1>14. ASSUME NEW ch \in Output, ScannerGivesUp(ch)
       PROVE  LinkTypeOK' /\ AgentTypeOK' /\ LinesInv' /\ kind' = kind
  BY <1>14 DEF ScannerGivesUp, AgentTypeOK, LinesInv, linkVars, LinkTypeOK
<1>15. ASSUME NEW ch \in Output, ScannerEnds(ch)
       PROVE  LinkTypeOK' /\ AgentTypeOK' /\ LinesInv' /\ kind' = kind
  BY <1>15 DEF ScannerEnds, AgentTypeOK, LinesInv, linkVars, LinkTypeOK
<1> QED BY <1>1, <1>2, <1>3, <1>4, <1>5, <1>6, <1>7, <1>8, <1>9, <1>10, <1>11,
           <1>12, <1>13, <1>14, <1>15 DEF AgentNext

\* Nor does anything the goroutines of Stream do.
LEMMA StreamKeepsShape ==
    ASSUME LinkTypeOK, StreamTypeOK, HeldInv, StreamNext
    PROVE  LinkTypeOK' /\ StreamTypeOK' /\ HeldInv' /\ kind' = kind
<1> USE LinkAssumption DEF HeldInv
<1>1. CASE Receive
  <2>1. wire \in Seq(Messages) /\ wire # <<>> /\ Len(wire) <= WireSize
    BY <1>1 DEF Receive, LinkTypeOK
  <2>2. Tail(wire) \in Seq(Messages) /\ Len(Tail(wire)) + 1 = Len(wire)
    BY <2>1, TailIsShorter, Zenon
  <2>3. Head(wire) \in Messages
    BY <2>1
  <2>4. Len(Tail(wire)) \in Nat /\ Len(wire) \in Nat
    BY <2>1, <2>2
  <2>5. Len(Tail(wire)) <= WireSize
    BY <2>1, <2>2, <2>4
  <2>6. wire' \in Seq(Messages) /\ Len(wire') <= WireSize
    BY <1>1, <2>2, <2>5 DEF Receive
  <2> QED BY <1>1, <2>3, <2>6 DEF Receive, LinkTypeOK, StreamTypeOK
<1>2. CASE ReceiveFails
  BY <1>2 DEF ReceiveFails, linkVars, LinkTypeOK, StreamTypeOK
<1>3. CASE WriteLine
  <2>1. log' \in Seq(Messages)
    BY <1>3 DEF WriteLine, StreamTypeOK
  <2> QED BY <1>3, <2>1 DEF WriteLine, AfterWrite, linkVars, LinkTypeOK, StreamTypeOK
<1>4. CASE WriteFails
  BY <1>4 DEF WriteFails, AfterWrite, linkVars, LinkTypeOK, StreamTypeOK
<1>5. CASE AwaitUpload
  BY <1>5 DEF AwaitUpload, linkVars, LinkTypeOK, StreamTypeOK
<1>6. CASE UploadFails
  BY <1>6 DEF UploadFails, linkVars, LinkTypeOK, StreamTypeOK
<1>7. CASE UploadEnds
  BY <1>7 DEF UploadEnds, linkVars, LinkTypeOK, StreamTypeOK
<1>8. CASE CloseReader
  BY <1>8 DEF CloseReader, linkVars, LinkTypeOK, StreamTypeOK
<1>9. CASE WatcherHangsUp
  BY <1>9 DEF WatcherHangsUp, CloseConn, LinkTypeOK, StreamTypeOK
<1>10. CASE WatcherEnds
  BY <1>10 DEF WatcherEnds, linkVars, LinkTypeOK, StreamTypeOK
<1> QED BY <1>1, <1>2, <1>3, <1>4, <1>5, <1>6, <1>7, <1>8, <1>9, <1>10
        DEF StreamNext, ReceiverStep, UploaderStep, WatcherStep

\* What the runner, Stop, the guard and the machine's process do.
HostStep ==
    RunnerStep \/ StopStep \/ GuardStep \/ Expire \/ MachineExits \/ MachineCrashes

LEMMA HostKeepsShape ==
    ASSUME ShapeInv, HostStep
    PROVE  ShapeInv'
<1> USE LinkAssumption, AgentAssumption
<1>0. /\ LinkTypeOK /\ RunnerTypeOK /\ TmpInv
      /\ AgentTypeOK /\ LinesInv /\ StreamTypeOK /\ HeldInv
  BY DEF ShapeInv, TypeOK, RunnerTypeOK
<1> DEFINE Guest == AgentTypeOK' /\ LinesInv'
           Stream == StreamTypeOK' /\ HeldInv'
           Host == LinkTypeOK' /\ RunnerTypeOK' /\ TmpInv'
<1>a. UNCHANGED agentVars => Guest
  BY <1>0 DEF agentVars, AgentTypeOK, LinesInv
<1>b. UNCHANGED streamVars => Stream
  BY <1>0 DEF streamVars, StreamTypeOK, HeldInv
<1>c. Guest /\ Stream /\ Host => ShapeInv'
  BY DEF ShapeInv, TypeOK, RunnerTypeOK
<1> HIDE DEF Guest, Stream
<1>1. CASE PrepareDrive
  <2>1. Host
    BY <1>0, <1>1 DEF PrepareDrive, Fails, AfterDrive, linkVars, LinkTypeOK, RunnerTypeOK,
       RunnerStages, Unwinding, Drives, TmpInv
  <2>2. UNCHANGED <<agentVars, streamVars>>
    BY <1>1 DEF PrepareDrive
  <2> QED BY <1>a, <1>b, <1>c, <2>1, <2>2
<1>2. CASE StartMachine
  <2>1. Host
    <3>1. jail' \in BOOLEAN
      BY <1>0, <1>2, Zenon DEF StartMachine, Fails, RunnerTypeOK, LinkTypeOK
    <3> QED BY <1>0, <1>2, <3>1 DEF StartMachine, Fails, LinkTypeOK, RunnerTypeOK,
            RunnerStages, Unwinding, Drives, TmpInv
  <2>2. UNCHANGED <<agentVars, streamVars>>
    BY <1>2 DEF StartMachine
  <2> QED BY <1>a, <1>b, <1>c, <2>1, <2>2
<1>3. CASE Connect
  <2>1. Host
    BY <1>0, <1>3 DEF Connect, Fails, LinkTypeOK, RunnerTypeOK,
       RunnerStages, Unwinding, Drives, TmpInv
  <2>2. UNCHANGED <<agentVars, streamVars>>
    BY <1>3 DEF Connect
  <2> QED BY <1>a, <1>b, <1>c, <2>1, <2>2
<1>4. CASE StreamReturns
  <2>1. Host
    BY <1>0, <1>4 DEF StreamReturns, Fails, linkVars, LinkTypeOK, RunnerTypeOK,
       RunnerStages, Unwinding, Drives, TmpInv
  <2>2. UNCHANGED <<agentVars, streamVars>>
    BY <1>4 DEF StreamReturns
  <2> QED BY <1>a, <1>b, <1>c, <2>1, <2>2
<1>5. CASE RunnerStopped
  <2>1. Host
    BY <1>0, <1>5 DEF RunnerStopped, linkVars, LinkTypeOK, RunnerTypeOK,
       RunnerStages, Unwinding, Drives, TmpInv
  <2>2. UNCHANGED <<agentVars, streamVars>>
    BY <1>5 DEF RunnerStopped
  <2> QED BY <1>a, <1>b, <1>c, <2>1, <2>2
<1>6. CASE SaveDrive
  <2>1. Host
    <3>1. saved' \in BOOLEAN
      BY <1>0, <1>6, Zenon DEF SaveDrive, Fails, linkVars, RunnerTypeOK, LinkTypeOK
    <3> QED BY <1>0, <1>6, <3>1 DEF SaveDrive, Fails, linkVars, LinkTypeOK, RunnerTypeOK,
            RunnerStages, Unwinding, Drives, TmpInv
  <2>2. UNCHANGED <<agentVars, streamVars>>
    BY <1>6 DEF SaveDrive
  <2> QED BY <1>a, <1>b, <1>c, <2>1, <2>2
<1>7. CASE HangUp
  <2>1. Host
    BY <1>0, <1>7 DEF HangUp, CloseConn, LinkTypeOK, RunnerTypeOK,
       RunnerStages, Unwinding, Drives, TmpInv
  <2>2. UNCHANGED <<agentVars, streamVars>>
    BY <1>7 DEF HangUp
  <2> QED BY <1>a, <1>b, <1>c, <2>1, <2>2
<1>8. CASE DropDrives
  <2>1. Host
    BY <1>0, <1>8 DEF DropDrives, linkVars, LinkTypeOK, RunnerTypeOK,
       RunnerStages, Unwinding, Drives, TmpInv
  <2>2. UNCHANGED <<agentVars, streamVars>>
    BY <1>8 DEF DropDrives
  <2> QED BY <1>a, <1>b, <1>c, <2>1, <2>2
<1>9. CASE CancelRun
  <2>1. Host
    BY <1>0, <1>9 DEF CancelRun, LinkTypeOK, RunnerTypeOK,
       RunnerStages, Unwinding, Drives, TmpInv
  <2>2. UNCHANGED <<agentVars, streamVars>>
    BY <1>9 DEF CancelRun
  <2> QED BY <1>a, <1>b, <1>c, <2>1, <2>2
<1>10. CASE ForgetDrives
  <2>1. Host
    <3>1. files' \subseteq Drives /\ UNCHANGED Drives
      BY <1>0, <1>10 DEF ForgetDrives, linkVars, RunnerTypeOK, Drives
    <3> QED BY <1>0, <1>10, <3>1 DEF ForgetDrives, linkVars, LinkTypeOK, RunnerTypeOK,
            RunnerStages, Unwinding, Drives, TmpInv
  <2>2. UNCHANGED <<agentVars, streamVars>>
    BY <1>10 DEF ForgetDrives
  <2> QED BY <1>a, <1>b, <1>c, <2>1, <2>2
<1>11. CASE BeginStop
  <2>1. Host
    BY <1>0, <1>11 DEF BeginStop, LinkTypeOK, RunnerTypeOK,
       RunnerStages, Unwinding, Drives, TmpInv
  <2>2. UNCHANGED <<agentVars, streamVars>>
    BY <1>11 DEF BeginStop
  <2> QED BY <1>a, <1>b, <1>c, <2>1, <2>2
<1>12. CASE StopWaits
  <2>1. Host
    BY <1>0, <1>12 DEF StopWaits, linkVars, LinkTypeOK, RunnerTypeOK,
       RunnerStages, Unwinding, Drives, TmpInv
  <2>2. UNCHANGED <<agentVars, streamVars>>
    BY <1>12 DEF StopWaits
  <2> QED BY <1>a, <1>b, <1>c, <2>1, <2>2
<1>13. CASE FreeMachine
  <2>1. Host
    <3>1. jail' \in BOOLEAN
      BY <1>0, <1>13, Zenon DEF FreeMachine, linkVars, RunnerTypeOK, LinkTypeOK
    <3> QED BY <1>0, <1>13, <3>1 DEF FreeMachine, linkVars, LinkTypeOK, RunnerTypeOK,
            RunnerStages, Unwinding, Drives, TmpInv
  <2>2. UNCHANGED <<agentVars, streamVars>>
    BY <1>13 DEF FreeMachine
  <2> QED BY <1>a, <1>b, <1>c, <2>1, <2>2
<1>14. CASE GuardWakes
  <2>1. Host
    BY <1>0, <1>14 DEF GuardWakes, linkVars, LinkTypeOK, RunnerTypeOK,
       RunnerStages, Unwinding, Drives, TmpInv
  <2>2. UNCHANGED <<agentVars, streamVars>>
    BY <1>14 DEF GuardWakes
  <2> QED BY <1>a, <1>b, <1>c, <2>1, <2>2
<1>15. CASE GuardEnds
  <2>1. Host
    BY <1>0, <1>15 DEF GuardEnds, linkVars, LinkTypeOK, RunnerTypeOK,
       RunnerStages, Unwinding, Drives, TmpInv
  <2>2. UNCHANGED <<agentVars, streamVars>>
    BY <1>15 DEF GuardEnds
  <2> QED BY <1>a, <1>b, <1>c, <2>1, <2>2
<1>16. CASE Expire
  <2>1. Host
    BY <1>0, <1>16 DEF Expire, runnerVars, LinkTypeOK, RunnerTypeOK,
       RunnerStages, Unwinding, Drives, TmpInv
  <2>2. UNCHANGED <<agentVars, streamVars>>
    BY <1>16 DEF Expire
  <2> QED BY <1>a, <1>b, <1>c, <2>1, <2>2
<1>17. CASE SendCommand
  <2>1. Host
    <3>1. command' \in BOOLEAN
      BY <1>0, <1>17, Zenon DEF SendCommand, Fails, RunnerTypeOK, LinkTypeOK
    <3> QED BY <1>0, <1>17, <3>1 DEF SendCommand, Fails, LinkTypeOK, RunnerTypeOK,
            RunnerStages, Unwinding, Drives, TmpInv
  <2>2. CASE StreamBegins
    <3>1. Stream
      BY <1>0, <2>2 DEF Stream, StreamBegins, StreamTypeOK, HeldInv
    <3> QED BY <1>17, <1>a, <1>c, <2>1, <3>1 DEF SendCommand
  <2>3. CASE UNCHANGED streamVars
    BY <1>17, <1>a, <1>b, <1>c, <2>1, <2>3 DEF SendCommand
  <2> QED BY <1>17, <2>2, <2>3 DEF SendCommand
<1>18. CASE MachineExits \/ MachineCrashes
  <2>1. PoweredOff /\ UNCHANGED <<streamVars, runnerVars>>
    BY <1>18 DEF MachineExits, MachineCrashes
  <2>2. LinkTypeOK' /\ AgentTypeOK' /\ kind' = kind /\ agent' = "off" /\ written' = written
    BY <1>0, <2>1, PowerOffKeepsLink DEF PoweredOff
  <2>3. Guest
    BY <1>0, <2>2 DEF Guest, LinesInv
  <2>4. Host
    BY <1>0, <2>1, <2>2 DEF runnerVars, RunnerTypeOK, Drives, TmpInv
  <2> QED BY <1>b, <1>c, <2>1, <2>3, <2>4
<1> QED
  BY <1>1, <1>2, <1>3, <1>4, <1>5, <1>6, <1>7, <1>8, <1>9, <1>10, <1>11, <1>12, <1>13, <1>14, <1>15, <1>16, <1>17, <1>18
     DEF HostStep, RunnerStep, StopStep, GuardStep

LEMMA ShapeStep == ShapeInv /\ [Next]_vars => ShapeInv'
<1> SUFFICES ASSUME ShapeInv, [Next]_vars
             PROVE  ShapeInv'
  OBVIOUS
<1>0. LinkTypeOK /\ AgentTypeOK /\ StreamTypeOK /\ RunnerTypeOK /\ LinesInv /\ TmpInv /\ HeldInv
  BY DEF ShapeInv, TypeOK, RunnerTypeOK
<1>1. CASE HostStep
  BY <1>1, HostKeepsShape
<1>2. CASE StreamNext /\ UNCHANGED <<agentVars, runnerVars>>
  <2>1. LinkTypeOK' /\ StreamTypeOK' /\ HeldInv' /\ kind' = kind
    BY <1>0, <1>2, StreamKeepsShape
  <2> QED BY <1>0, <1>2, <2>1 DEF ShapeInv, TypeOK, RunnerTypeOK, AgentTypeOK, agentVars, runnerVars,
          Drives, LinesInv, TmpInv
<1>3. CASE AgentNext /\ UNCHANGED <<streamVars, runnerVars>>
  <2>1. LinkTypeOK' /\ AgentTypeOK' /\ LinesInv' /\ kind' = kind
    BY <1>0, <1>3, AgentKeepsShape
  <2> QED BY <1>0, <1>3, <2>1 DEF ShapeInv, TypeOK, RunnerTypeOK, StreamTypeOK, streamVars, runnerVars,
          Drives, TmpInv, HeldInv
<1>4. CASE UNCHANGED vars
  BY <1>0, <1>4 DEF ShapeInv, TypeOK, RunnerTypeOK, LinkTypeOK, AgentTypeOK, StreamTypeOK, Drives,
     LinesInv, TmpInv, HeldInv, vars, linkVars, agentVars, streamVars, runnerVars
<1> QED BY <1>1, <1>2, <1>3, <1>4 DEF Next, HostStep

LEMMA ShapeInit == Init => ShapeInv
<1> SUFFICES ASSUME Init PROVE ShapeInv
  OBVIOUS
<1> USE LinkAssumption, AgentAssumption
<1>0. \A S : <<>> \in Seq(S) /\ Len(<<>>) = 0
  OBVIOUS
<1>1. LinkTypeOK
  <2>1. wire \in Seq(Messages) /\ Len(wire) <= WireSize
    BY <1>0 DEF Init, LinkInit
  <2>2. command \in BOOLEAN
    BY Zenon DEF Init, LinkInit
  <2> QED BY <2>1, <2>2 DEF Init, LinkInit, LinkTypeOK
<1>2. AgentTypeOK /\ LinesInv
  BY DEF Init, AgentInit, AgentTypeOK, AgentStages, LinesInv, Channels, Output, ExitCodes
<1>3. StreamTypeOK /\ HeldInv
  BY <1>0 DEF Init, StreamInit, StreamTypeOK, HeldInv
<1> QED BY <1>1, <1>2, <1>3 DEF Init, ShapeInv, TypeOK, RunnerStages, TmpInv

\* The state of a run keeps its shape; in particular neither the wire nor a
\* pipe of the child ever holds more than it can (agent/stream.go,
\* vm/vm/logs.go, vm/vm/exec.go).
THEOREM MicroVMTypeCorrect == Spec => []TypeOK
<1>1. Spec => []ShapeInv
  BY ShapeInit, ShapeStep, PTL DEF Spec
<1>2. ShapeInv => TypeOK
  BY DEF ShapeInv
<1> QED BY <1>1, <1>2, PTL

-----------------------------------------------------------------------------
(***************************************************************************)
(* A good run has stopped its machine.  Stop works once; what it has done  *)
(* by the time it returns cannot be undone, because only a run that has    *)
(* not begun to stop anything starts a machine.                            *)
(***************************************************************************)
StopInv ==
    /\ runner \in {"code", "deps", "tmp", "start"} =>
          guard = "off" /\ stopping = "no" /\ machine = "none"
    /\ stopping # "no" => machine # "running"
    /\ StopReturned => ~jail
    /\ runner = "save" \/ saved \/ outcome \in {"ok", "userError"} => StopReturned

LEMMA StopInit == Init => StopInv
BY DEF Init, LinkInit, StopInv, StopReturned

LEMMA StopStepKeepsStopInv ==
    ASSUME StopInv, StopStep \/ GuardStep
    PROVE  StopInv'
BY DEF StopInv, StopStep, BeginStop, StopWaits, FreeMachine, GuardStep, GuardWakes, GuardEnds,
       StopReturned, linkVars

\* Neither guest nor stream starts a machine or takes part in its stop.
LEMMA OthersKeepStopInv ==
    ASSUME StopInv, UNCHANGED runnerVars, machine' \in {machine, "stopped"},
           runner \in {"code", "deps", "tmp", "start"} => machine' = machine
    PROVE  StopInv'
<1>1. /\ stopping' = stopping /\ runner' = runner /\ guard' = guard
      /\ outcome' = outcome /\ saved' = saved /\ jail' = jail
  BY DEF runnerVars
<1>2. StopReturned' <=> StopReturned
  BY <1>1 DEF StopReturned
<1>3. runner' \in {"code", "deps", "tmp", "start"} =>
         guard' = "off" /\ stopping' = "no" /\ machine' = "none"
  BY <1>1 DEF StopInv
<1>4. stopping' # "no" => machine' # "running"
  BY <1>1 DEF StopInv
<1>5. (StopReturned => ~jail)'
  BY <1>1, <1>2 DEF StopInv
<1>6. (runner = "save" \/ saved \/ outcome \in {"ok", "userError"} => StopReturned)'
  BY <1>1, <1>2 DEF StopInv
<1> QED BY <1>3, <1>4, <1>5, <1>6 DEF StopInv

LEMMA AgentMachine ==
    ASSUME AgentNext
    PROVE  machine' = machine \/ (GuestRuns /\ machine' = "stopped")
<1>1. CASE TakeCommand \/ NothingToRun \/ Report
  BY <1>1 DEF TakeCommand, NothingToRun, Report, EmitSystem, AgentSends
<1>2. CASE NoCommand \/ JobFails \/ StartChild \/ ChildExits \/ Drained \/ CleanUp
  BY <1>2 DEF NoCommand, JobFails, StartChild, ChildExits, Drained, CleanUp, linkVars
<1>3. CASE Reap
  BY <1>3 DEF Reap, EmitSystem, AgentSends, linkVars
<1>4. CASE PowerOff
  BY <1>4 DEF PowerOff, AgentAt, PoweredOff
<1>5. CASE \E ch \in Output :
             ChildWrites(ch) \/ ScanLine(ch) \/ ScannerGivesUp(ch) \/ ScannerEnds(ch)
  BY <1>5 DEF ChildWrites, ScanLine, ScannerGivesUp, ScannerEnds, AgentSends, linkVars
<1> QED BY <1>1, <1>2, <1>3, <1>4, <1>5 DEF AgentNext

LEMMA StreamMachine ==
    ASSUME StreamNext
    PROVE  machine' = machine
BY DEF StreamNext, ReceiverStep, Receive, ReceiveFails, WriteLine, WriteFails, AwaitUpload,
       UploaderStep, UploadFails, UploadEnds, CloseReader, WatcherStep, WatcherHangsUp, WatcherEnds,
       linkVars

LEMMA StopStepwise == StopInv /\ [Next]_vars => StopInv'
<1> SUFFICES ASSUME StopInv, [Next]_vars
             PROVE  StopInv'
  OBVIOUS
<1>1. CASE StopStep \/ GuardStep
  BY <1>1, StopStepKeepsStopInv
<1>2. CASE PrepareDrive
  BY <1>2 DEF StopInv, PrepareDrive, AfterDrive, Fails, StopReturned, linkVars
<1>3. CASE StartMachine
  BY <1>3 DEF StopInv, StartMachine, Fails, StopReturned
<1>4. CASE Connect
  BY <1>4 DEF StopInv, Connect, Fails, StopReturned
<1>5. CASE SendCommand
  BY <1>5 DEF StopInv, SendCommand, Fails, StopReturned
<1>6. CASE StreamReturns
  BY <1>6 DEF StopInv, StreamReturns, Fails, StopReturned, linkVars
<1>7. CASE RunnerStopped
  BY <1>7 DEF StopInv, RunnerStopped, StopReturned, linkVars
<1>8. CASE SaveDrive
  BY <1>8 DEF StopInv, SaveDrive, Fails, StopReturned, linkVars
<1>9. CASE HangUp \/ DropDrives \/ CancelRun \/ ForgetDrives
  BY <1>9 DEF StopInv, HangUp, DropDrives, CancelRun, ForgetDrives, StopReturned, linkVars
<1>10. CASE Expire
  BY <1>10, OthersKeepStopInv DEF Expire
<1>11. CASE MachineExits \/ MachineCrashes
  <2>1. machine # "none" /\ machine' = "stopped" /\ UNCHANGED runnerVars
    BY <1>11 DEF MachineExits, MachineCrashes, PoweredOff
  <2> QED BY <2>1, OthersKeepStopInv DEF StopInv
<1>12. CASE StreamNext /\ UNCHANGED <<agentVars, runnerVars>>
  BY <1>12, StreamMachine, OthersKeepStopInv
<1>13. CASE AgentNext /\ UNCHANGED <<streamVars, runnerVars>>
  BY <1>13, AgentMachine, OthersKeepStopInv DEF StopInv, GuestRuns
<1>14. CASE UNCHANGED vars
  BY <1>14, OthersKeepStopInv DEF vars, linkVars
<1> QED BY <1>1, <1>2, <1>3, <1>4, <1>5, <1>6, <1>7, <1>8, <1>9, <1>10, <1>11, <1>12, <1>13,
           <1>14 DEF Next, RunnerStep

\* When a run is reported as good or its drive uploaded, its machine has been
\* told to stop and its directory is gone, whoever called Stop first
\* (vm.go:164-172, :216-230).
THEOREM GoodRunHasStopped == Spec => []GoodRunIsStopped
<1>1. Spec => []StopInv
  BY StopInit, StopStepwise, PTL DEF Spec
<1>2. StopInv => GoodRunIsStopped
  BY DEF StopInv, GoodRunIsStopped, StopReturned
<1> QED BY <1>1, <1>2, PTL

-----------------------------------------------------------------------------
(***************************************************************************)
(* The drive that is uploaded is final.  The agent reports only after it   *)
(* has cleaned up, and never works again; so a Done message, wherever it   *)
(* is on its way, tells what the exit code was and that the drive is       *)
(* synced.  The runner saves on such a message, when nobody receives any   *)
(* more, so that the message it judges by stays the one it had.            *)
(***************************************************************************)
Reported == agent \in {"linger", "off"}
IsTrue(m) == m.type = "done" => m.n = exitCode /\ disk = "synced" /\ Reported

AgentInv ==
    /\ child = "running" => agent \in {"scan", "wait"}
    /\ agent = "report" => disk = "synced"

DoneInv == IsTrue(held) /\ \A i \in 1..Len(wire) : IsTrue(wire[i])

JudgedInv ==
    /\ saved => runner \in Unwinding \cup {"returned"}
    /\ runner \in {"stop", "save"} \/ saved => receiver = "back"
    /\ runner = "save" \/ saved => held = DoneMessage(0)

FinalInv == AgentInv /\ DoneInv /\ JudgedInv

LEMMA FinalInit == Init => FinalInv
<1> SUFFICES ASSUME Init PROVE FinalInv
  OBVIOUS
<1>1. Len(<<>>) = 0
  OBVIOUS
<1> QED BY <1>1 DEF Init, LinkInit, AgentInit, StreamInit, FinalInv, AgentInv, DoneInv, IsTrue,
        NoMessage, JudgedInv

\* What an agent that has reported, or has gone, tells stays true.
TruthLasts ==
    \/ UNCHANGED <<exitCode, disk>> /\ (Reported => Reported')
    \/ ~Reported

\* What happens to the wire in a step of the guest: a part of it stays, and
\* the report that may join it is true.
WireStays ==
    \E n \in 0..Len(wire) : wire' = SubSeq(wire, 1, n)

LEMMA WirePart ==
    ASSUME LinkTypeOK, DoneInv, TruthLasts, WireStays
    PROVE  \A i \in 1..Len(wire') : (IsTrue(wire[i]))'
<1> SUFFICES ASSUME NEW i \in 1..Len(wire')
             PROVE  (IsTrue(wire[i]))'
  OBVIOUS
<1>1. PICK n \in 0..Len(wire) : wire' = SubSeq(wire, 1, n)
  BY DEF WireStays
<1>2. i \in 1..Len(wire) /\ wire'[i] = wire[i]
  BY <1>1 DEF LinkTypeOK
<1>3. IsTrue(wire[i])
  BY <1>2 DEF DoneInv
<1>4. wire[i].type = "done" => (wire[i].n = exitCode' /\ disk' = "synced" /\ Reported')
  BY <1>3 DEF IsTrue, TruthLasts
<1> QED BY <1>2, <1>4 DEF IsTrue

LEMMA WireGrows ==
    ASSUME LinkTypeOK, DoneInv, TruthLasts, NEW m \in Messages, wire' = Append(wire, m),
           m.type = "done" => (m.n = exitCode' /\ disk' = "synced" /\ Reported')
    PROVE  \A i \in 1..Len(wire') : (IsTrue(wire[i]))'
<1> SUFFICES ASSUME NEW i \in 1..Len(wire')
             PROVE  (IsTrue(wire[i]))'
  OBVIOUS
<1>0. wire \in Seq(Messages)
  BY DEF LinkTypeOK
<1>1. Len(wire') = Len(wire) + 1 /\ wire'[Len(wire) + 1] = m
      /\ \A j \in 1..Len(wire) : wire'[j] = wire[j]
  BY <1>0
<1>2. CASE i \in 1..Len(wire)
  <2>1. IsTrue(wire[i]) /\ wire'[i] = wire[i]
    BY <1>1, <1>2 DEF DoneInv
  <2>2. wire[i].type = "done" => (wire[i].n = exitCode' /\ disk' = "synced" /\ Reported')
    BY <2>1 DEF IsTrue, TruthLasts
  <2> QED BY <2>1, <2>2 DEF IsTrue
<1>3. CASE i = Len(wire) + 1
  BY <1>1, <1>3 DEF IsTrue
<1> QED BY <1>0, <1>1, <1>2, <1>3

\* A step of the guest that sends nothing or one message that is no report.
LEMMA QuietSend ==
    ASSUME LinkTypeOK, DoneInv, TruthLasts, held' = held,
           UNCHANGED wire \/ (\E m \in Messages : m.type # "done" /\ AgentSends(m))
    PROVE  DoneInv'
<1>1. (IsTrue(held))'
  BY DEF DoneInv, IsTrue, TruthLasts
<1>2. CASE UNCHANGED wire
  <2>1. WireStays
    <3>1. Len(wire) \in 0..Len(wire) /\ wire = SubSeq(wire, 1, Len(wire))
      BY DEF LinkTypeOK
    <3> QED BY <1>2, <3>1 DEF WireStays
  <2> QED BY <1>1, <2>1, WirePart DEF DoneInv
<1>3. ASSUME NEW m \in Messages, m.type # "done", AgentSends(m)
      PROVE  DoneInv'
  <2>1. CASE UNCHANGED wire
    BY <1>2, <2>1
  <2>2. CASE wire' = Append(wire, m)
    <3>1. \A i \in 1..Len(wire') : (IsTrue(wire[i]))'
      BY <1>3, <2>2, WireGrows
    <3> QED BY <1>1, <3>1 DEF DoneInv
  <2> QED BY <1>3, <2>1, <2>2 DEF AgentSends
<1> QED BY <1>2, <1>3

\* The guest: only an agent that works changes what a report is about.
LEMMA AgentKeepsFinal ==
    ASSUME LinkTypeOK, AgentTypeOK, LinesInv, AgentInv, DoneInv, held' = held, AgentNext
    PROVE  AgentInv' /\ DoneInv'
<1>0. ASSUME NEW ch \in Channels, NEW n \in 1..(Lines + 2)
      PROVE  Line(ch, n) \in Messages /\ Line(ch, n).type # "done"
  BY <1>0, LinesAreMessages DEF Line
<1>e. ASSUME EmitSystem, written["system"] <= 1
      PROVE  \E m \in Messages : m.type # "done" /\ AgentSends(m)
  <2>1. "system" \in Channels /\ written["system"] + 1 \in 1..(Lines + 2)
    BY <1>e, LinkAssumption DEF AgentTypeOK, Channels
  <2> QED BY <1>0, <1>e, <2>1 DEF EmitSystem
<1>1. CASE TakeCommand
  <2>1. AgentInv' /\ TruthLasts
    BY <1>1 DEF TakeCommand, AgentAt, AgentInv, TruthLasts, Reported
  <2>2. EmitSystem /\ written["system"] <= 1
    BY <1>1 DEF TakeCommand, AgentAt, LinesInv
  <2> QED BY <1>e, <2>1, <2>2, QuietSend
<1>2. CASE NoCommand \/ JobFails \/ StartChild \/ ChildExits \/ Drained \/ CleanUp
  <2>1. AgentInv' /\ TruthLasts
    BY <1>2 DEF NoCommand, JobFails, StartChild, ChildExits, Drained, CleanUp, AgentAt, AgentInv,
       TruthLasts, Reported
  <2>2. UNCHANGED wire
    BY <1>2 DEF NoCommand, JobFails, StartChild, ChildExits, Drained, CleanUp, linkVars
  <2> QED BY <2>1, <2>2, QuietSend
<1>3. CASE NothingToRun
  <2>1. AgentInv' /\ TruthLasts
    BY <1>3 DEF NothingToRun, AgentAt, AgentInv, TruthLasts, Reported
  <2>2. EmitSystem /\ written["system"] <= 1
    BY <1>3 DEF NothingToRun, AgentAt, LinesInv
  <2> QED BY <1>e, <2>1, <2>2, QuietSend
<1>4. CASE Reap
  <2>1. AgentInv' /\ TruthLasts
    BY <1>4 DEF Reap, AgentAt, AgentInv, TruthLasts, Reported
  <2>2. written["system"] <= 1
    BY <1>4 DEF Reap, AgentAt, LinesInv
  <2>3. UNCHANGED wire \/ EmitSystem
    BY <1>4 DEF Reap, linkVars
  <2> QED BY <1>e, <2>1, <2>2, <2>3, QuietSend
<1>5. CASE Report
  <2>1. AgentInv' /\ TruthLasts /\ UNCHANGED <<exitCode, disk>> /\ disk = "synced" /\ Reported'
    BY <1>5 DEF Report, AgentAt, AgentInv, TruthLasts, Reported
  <2>2. DoneMessage(exitCode) \in Messages
    BY DonesAreMessages DEF AgentTypeOK
  <2>3. AgentSends(DoneMessage(exitCode))
    BY <1>5 DEF Report
  <2>4. (IsTrue(held))'
    BY <2>1 DEF DoneInv, IsTrue, TruthLasts
  <2>5. CASE UNCHANGED wire
    BY <2>1, <2>5, QuietSend
  <2>6. CASE wire' = Append(wire, DoneMessage(exitCode))
    <3>1. DoneMessage(exitCode).n = exitCode' /\ disk' = "synced" /\ Reported'
      BY <2>1 DEF DoneMessage
    <3>2. \A i \in 1..Len(wire') : (IsTrue(wire[i]))'
      BY <2>1, <2>2, <2>6, <3>1, WireGrows
    <3> QED BY <2>1, <2>4, <3>2 DEF DoneInv
  <2> QED BY <2>1, <2>3, <2>5, <2>6 DEF AgentSends
<1>6. CASE PowerOff
  <2>1. PoweredOff
    BY <1>6 DEF PowerOff
  <2>2. AgentInv' /\ TruthLasts /\ WireStays
    BY <2>1 DEF PoweredOff, AgentInv, TruthLasts, WireStays, Reported
  <2>3. (IsTrue(held))'
    BY <2>2 DEF DoneInv, IsTrue, TruthLasts
  <2>4. \A i \in 1..Len(wire') : (IsTrue(wire[i]))'
    BY <2>2, WirePart
  <2> QED BY <2>2, <2>3, <2>4 DEF DoneInv
<1>7. ASSUME NEW ch \in Output, ChildWrites(ch) \/ ScannerGivesUp(ch) \/ ScannerEnds(ch)
      PROVE  AgentInv' /\ DoneInv'
  <2>1. AgentInv' /\ TruthLasts
    BY <1>7 DEF ChildWrites, ScannerGivesUp, ScannerEnds, AgentAt, AgentInv, TruthLasts, Reported
  <2>2. UNCHANGED wire
    BY <1>7 DEF ChildWrites, ScannerGivesUp, ScannerEnds, linkVars
  <2> QED BY <2>1, <2>2, QuietSend
<1>8. ASSUME NEW ch \in Output, ScanLine(ch)
      PROVE  AgentInv' /\ DoneInv'
  <2>1. AgentInv' /\ TruthLasts
    BY <1>8 DEF ScanLine, AgentAt, AgentInv, TruthLasts, Reported
  <2>2. /\ AgentSends(Line(ch, Head(pipe[ch])))
        /\ pipe[ch] \in Seq(0..Lines) /\ pipe[ch] # <<>> /\ Head(pipe[ch]) # 0
    BY <1>8 DEF ScanLine, AgentTypeOK, Long
  <2>3. Head(pipe[ch]) \in 1..(Lines + 2) /\ ch \in Channels
    <3>1. Head(pipe[ch]) \in 0..Lines
      BY <2>2, HeadIsMember, Zenon
    <3> QED BY <2>2, <3>1, LinkAssumption DEF Channels
  <2>4. \E m \in Messages : m.type # "done" /\ AgentSends(m)
    BY <1>0, <2>2, <2>3
  <2> QED BY <2>1, <2>4, QuietSend
<1> QED BY <1>1, <1>2, <1>3, <1>4, <1>5, <1>6, <1>7, <1>8 DEF AgentNext

\* A step that leaves the guest and the wire alone, or takes from the wire
\* what it then holds.
LEMMA StreamKeepsFinal ==
    ASSUME LinkTypeOK, AgentInv, DoneInv, StreamNext, UNCHANGED agentVars
    PROVE  AgentInv' /\ DoneInv'
<1>1. AgentInv' /\ \A m : (IsTrue(m) => (m.type = "done" => (m.n = exitCode /\ disk = "synced" /\ Reported)'))
  BY DEF AgentInv, IsTrue, Reported, agentVars
<1>2. CASE Receive
  <2>1. wire \in Seq(Messages) /\ wire # <<>> /\ wire' = Tail(wire) /\ held' = Head(wire)
    BY <1>2 DEF Receive, LinkTypeOK
  <2>2. held' = wire[1] /\ 1 \in 1..Len(wire)
    BY <2>1
  <2>3. (IsTrue(held))'
    BY <1>1, <2>2 DEF DoneInv, IsTrue
  <2>4. ASSUME NEW i \in 1..Len(wire')
        PROVE  (IsTrue(wire[i]))'
    <3>1. wire'[i] = wire[i + 1] /\ i + 1 \in 1..Len(wire)
      BY <2>1
    <3> QED BY <1>1, <3>1 DEF DoneInv, IsTrue
  <2> QED BY <1>1, <2>3, <2>4 DEF DoneInv
<1>3. CASE wire' = wire /\ held' = held
  BY <1>1, <1>3 DEF DoneInv, IsTrue
<1>4. Receive \/ (wire' = wire /\ held' = held)
  BY DEF StreamNext, ReceiverStep, ReceiveFails, WriteLine, WriteFails, AwaitUpload,
     UploaderStep, UploadFails, UploadEnds, CloseReader, WatcherStep, WatcherHangsUp, WatcherEnds,
     linkVars
<1> QED BY <1>2, <1>3, <1>4

\* The host: what the runner has judged by stays in its hands.
LEMMA HostKeepsFinal ==
    ASSUME LinkTypeOK, AgentTypeOK, LinesInv, FinalInv, HostStep
    PROVE  FinalInv'
<1> USE DEF FinalInv
<1>1. ASSUME UNCHANGED <<agentVars, wire, held>>
      PROVE  AgentInv' /\ DoneInv'
  BY <1>1 DEF AgentInv, DoneInv, IsTrue, Reported, agentVars
<1>2. CASE PrepareDrive
  <2>1. JudgedInv'
    BY <1>2 DEF PrepareDrive, AfterDrive, Fails, JudgedInv, streamVars, Unwinding
  <2> QED BY <1>1, <1>2, <2>1 DEF PrepareDrive, linkVars, streamVars
<1>3. CASE StartMachine
  <2>1. JudgedInv'
    BY <1>3 DEF StartMachine, Fails, JudgedInv, streamVars, Unwinding
  <2> QED BY <1>1, <1>3, <2>1 DEF StartMachine, streamVars
<1>4. CASE Connect
  <2>1. JudgedInv'
    BY <1>4 DEF Connect, Fails, JudgedInv, streamVars, Unwinding
  <2> QED BY <1>1, <1>4, <2>1 DEF Connect, streamVars
<1>5. CASE SendCommand
  <2>1. JudgedInv'
    BY <1>5 DEF SendCommand, Fails, JudgedInv, streamVars, Unwinding
  <2>2. held' = held
    BY <1>5 DEF SendCommand, StreamBegins, streamVars
  <2> QED BY <1>1, <1>5, <2>1, <2>2 DEF SendCommand
<1>6. CASE StreamReturns
  <2>1. JudgedInv'
    BY <1>6 DEF StreamReturns, Fails, JudgedInv, streamVars, Unwinding
  <2> QED BY <1>1, <1>6, <2>1 DEF StreamReturns, linkVars, streamVars
<1>7. CASE RunnerStopped
  <2>1. JudgedInv'
    BY <1>7 DEF RunnerStopped, JudgedInv, streamVars, Unwinding
  <2> QED BY <1>1, <1>7, <2>1 DEF RunnerStopped, linkVars, streamVars
<1>8. CASE SaveDrive
  <2>1. JudgedInv'
    BY <1>8 DEF SaveDrive, Fails, JudgedInv, streamVars, Unwinding
  <2> QED BY <1>1, <1>8, <2>1 DEF SaveDrive, linkVars, streamVars
<1>9. CASE HangUp \/ DropDrives \/ CancelRun \/ ForgetDrives
  <2>1. JudgedInv'
    BY <1>9 DEF HangUp, DropDrives, CancelRun, ForgetDrives, JudgedInv, streamVars, Unwinding
  <2> QED BY <1>1, <1>9, <2>1 DEF HangUp, DropDrives, CancelRun, ForgetDrives, linkVars, streamVars
<1>10. CASE StopStep \/ GuardStep \/ Expire
  <2>1. /\ UNCHANGED <<agentVars, wire>>
        /\ UNCHANGED <<runner, saved, receiver, held>>
    BY <1>10 DEF StopStep, BeginStop, StopWaits, FreeMachine, GuardStep, GuardWakes, GuardEnds,
       Expire, linkVars, streamVars, runnerVars
  <2>2. JudgedInv'
    BY <2>1 DEF JudgedInv
  <2> QED BY <1>1, <2>1, <2>2
<1>11. CASE MachineExits \/ MachineCrashes
  <2>1. PoweredOff /\ UNCHANGED <<streamVars, runnerVars>>
    BY <1>11 DEF MachineExits, MachineCrashes
  <2>2. AgentInv' /\ TruthLasts /\ WireStays
    BY <2>1 DEF PoweredOff, AgentInv, TruthLasts, WireStays, Reported
  <2>3. (IsTrue(held))'
    BY <2>1, <2>2 DEF DoneInv, IsTrue, TruthLasts, streamVars
  <2>4. \A i \in 1..Len(wire') : (IsTrue(wire[i]))'
    BY <2>2, WirePart
  <2>5. JudgedInv'
    BY <2>1 DEF JudgedInv, streamVars, runnerVars
  <2> QED BY <2>2, <2>3, <2>4, <2>5 DEF DoneInv
<1> QED BY <1>2, <1>3, <1>4, <1>5, <1>6, <1>7, <1>8, <1>9, <1>10, <1>11 DEF HostStep, RunnerStep

\* Nobody receives once the receiver is back.
LEMMA BackIsBack ==
    ASSUME JudgedInv, StreamNext, UNCHANGED runnerVars
    PROVE  JudgedInv'
<1>1. receiver = "back" => receiver' = "back" /\ held' = held
  BY DEF StreamNext, ReceiverStep, Receive, ReceiveFails, WriteLine, WriteFails, AwaitUpload,
     UploaderStep, UploadFails, UploadEnds, CloseReader, WatcherStep, WatcherHangsUp, WatcherEnds
<1> QED BY <1>1 DEF JudgedInv, runnerVars

LEMMA FinalStep == ShapeInv /\ FinalInv /\ [Next]_vars => FinalInv'
<1> SUFFICES ASSUME ShapeInv, FinalInv, [Next]_vars
             PROVE  FinalInv'
  OBVIOUS
<1>0. LinkTypeOK /\ AgentTypeOK /\ LinesInv /\ AgentInv /\ DoneInv /\ JudgedInv
  BY DEF ShapeInv, TypeOK, FinalInv
<1>1. CASE HostStep
  BY <1>0, <1>1, HostKeepsFinal
<1>2. CASE StreamNext /\ UNCHANGED <<agentVars, runnerVars>>
  BY <1>0, <1>2, StreamKeepsFinal, BackIsBack DEF FinalInv
<1>3. CASE AgentNext /\ UNCHANGED <<streamVars, runnerVars>>
  <2>1. AgentInv' /\ DoneInv'
    BY <1>0, <1>3, AgentKeepsFinal DEF streamVars
  <2>2. JudgedInv'
    BY <1>0, <1>3 DEF JudgedInv, streamVars, runnerVars
  <2> QED BY <2>1, <2>2 DEF FinalInv
<1>4. CASE UNCHANGED vars
  BY <1>0, <1>4 DEF FinalInv, AgentInv, DoneInv, JudgedInv, IsTrue, Reported, vars, linkVars,
     agentVars, streamVars, runnerVars
<1> QED BY <1>1, <1>2, <1>3, <1>4 DEF Next, HostStep

\* The drive put into the bucket is one pip has left with exit code 0,
\* unmounted and synced, whenever the limit, a crash of the machine or a wait
\* that gave up falls (prepare.go:88-96, agent/build.go:60-61).
THEOREM SavedDriveHasItsFinalState == Spec => []SavedDriveIsFinal
<1>1. Spec => [](ShapeInv /\ FinalInv)
  BY ShapeInit, ShapeStep, FinalInit, FinalStep, PTL DEF Spec
<1>2. FinalInv => SavedDriveIsFinal
  BY DEF FinalInv, DoneInv, JudgedInv, IsTrue, DoneMessage, SavedDriveIsFinal
<1> QED BY <1>1, <1>2, PTL

-----------------------------------------------------------------------------
(***************************************************************************)
(* Picked, element by element.                                             *)
(***************************************************************************)
Picks(s, S, X, g) ==
    /\ g \in [0 .. Len(s) -> Seq(X)]
    /\ g[0] = << >>
    /\ \A k \in 1 .. Len(s) : g[k] = IF s[k] \in S THEN Append(g[k - 1], s[k]) ELSE g[k - 1]
    /\ Picked(s, S) = g[Len(s)]

LEMMA PickedByElement ==
    ASSUME NEW X, NEW s \in Seq(X), NEW S
    PROVE  \E g : Picks(s, S, X, g)
<1> DEFINE N == Len(s)
           op == [p \in (1 .. N) \X Seq(X) |->
                    IF s[p[1]] \in S THEN Append(p[2], s[p[1]]) ELSE p[2]]
           Rec(h) == h = [i \in 0 .. N |->
                            IF i = 0 THEN << >>
                            ELSE IF s[i] \in S THEN Append(h[i - 1], s[i]) ELSE h[i - 1]]
           picked == CHOOSE h : Rec(h)
<1>1. N \in Nat /\ << >> \in Seq(X) /\ \A i \in 1 .. N : s[i] \in X
  OBVIOUS
<1>2. op \in [(1 .. N) \X Seq(X) -> Seq(X)]
  BY <1>1
<1>3. PICK g \in [0 .. N -> Seq(X)] : CountsOver(g, N, << >>, op)
  <2> HIDE DEF op, N
  <2> QED BY <1>1, <1>2, RecursionExists
<1>4. \A i \in 0 .. N : g[i] = IF i = 0 THEN << >>
                               ELSE IF s[i] \in S THEN Append(g[i - 1], s[i]) ELSE g[i - 1]
  <2> SUFFICES ASSUME NEW i \in 0 .. N
               PROVE  g[i] = IF i = 0 THEN << >>
                             ELSE IF s[i] \in S THEN Append(g[i - 1], s[i]) ELSE g[i - 1]
    OBVIOUS
  <2>1. g[i] = IF i = 0 THEN << >> ELSE op[<<i, g[i - 1]>>]
    BY <1>3 DEF CountsOver
  <2>2. i # 0 => i \in 1 .. N /\ g[i - 1] \in Seq(X)
    BY <1>1, <1>3
  <2> QED BY <2>1, <2>2
<1>5. Rec(g)
  BY <1>3, <1>4
<1>6. Rec(picked)
  <2> HIDE DEF Rec
  <2> QED BY <1>5
<1>7. Picked(s, S) = picked[N]
  BY Zenon DEF Picked
<1> HIDE DEF picked, op
<1>e. \A i \in 0 .. N : picked[i] = IF i = 0 THEN << >>
                                    ELSE IF s[i] \in S THEN Append(picked[i - 1], s[i])
                                         ELSE picked[i - 1]
  BY <1>6, Zenon
<1>8. picked[0] = << >> /\ << >> \in Seq(X)
  BY <1>1, <1>e
<1>9. \A k \in 1 .. N : picked[k] =
        IF s[k] \in S THEN Append(picked[k - 1], s[k]) ELSE picked[k - 1]
  <2>1. \A k \in 1 .. N : k \in 0 .. N /\ k # 0
    BY <1>1
  <2> QED BY <1>e, <2>1
<1>10. \A k \in Nat : k <= N => picked[k] \in Seq(X)
  <2> DEFINE T == {n \in Nat : n <= N => picked[n] \in Seq(X)}
  <2>1. 0 \in T
    BY <1>8
  <2>2. ASSUME NEW n \in Nat, n + 1 <= N, picked[n] \in Seq(X)
        PROVE  picked[n + 1] \in Seq(X)
    <3> HIDE DEF N
    <3>1. n + 1 \in 1 .. N /\ (n + 1) - 1 = n /\ s[n + 1] \in X
      BY <1>1, <2>2
    <3>2. picked[n + 1] = IF s[n + 1] \in S THEN Append(picked[n], s[n + 1]) ELSE picked[n]
      BY <1>9, <3>1
    <3>3. Append(picked[n], s[n + 1]) \in Seq(X)
      BY <2>2, <3>1
    <3> QED BY <2>2, <3>2, <3>3
  <2>3. \A n \in Nat : n \in T => n + 1 \in T
    BY <1>1, <2>2
  <2>4. \A n \in Nat : n \in T
    <3> HIDE DEF T
    <3> QED BY <2>1, <2>3, NatSetInduction
  <2> QED BY <2>4
<1>11. picked = [i \in 0 .. N |-> picked[i]]
  BY <1>6
<1>12. picked \in [0 .. N -> Seq(X)]
  BY <1>1, <1>10, <1>11
<1> QED BY <1>7, <1>8, <1>9, <1>12 DEF Picks

LEMMA PickedNone ==
    ASSUME NEW S
    PROVE  Picked(<< >>, S) = << >>
<1>1. << >> \in Seq({}) /\ Len(<< >>) = 0
  OBVIOUS
<1>2. PICK g : Picks(<< >>, S, {}, g)
  BY <1>1, PickedByElement
<1> QED BY <1>1, <1>2 DEF Picks

LEMMA PickedMore ==
    ASSUME NEW X, NEW s \in Seq(X), NEW x \in X, NEW S
    PROVE  /\ Picked(s, S) \in Seq(X)
           /\ Picked(Append(s, x), S) = IF x \in S THEN Append(Picked(s, S), x) ELSE Picked(s, S)
<1> DEFINE t == Append(s, x)
           n == Len(s)
<1>1. /\ t \in Seq(X) /\ n \in Nat /\ Len(t) = n + 1 /\ t[n + 1] = x
      /\ \A i \in 1 .. n : t[i] = s[i]
  OBVIOUS
<1> HIDE DEF t
<1>2. PICK g : Picks(s, S, X, g)
  BY PickedByElement
<1>3. PICK h : Picks(t, S, X, h)
  BY <1>1, PickedByElement
<1> HIDE DEF n
<1>g. /\ g \in [0 .. n -> Seq(X)] /\ g[0] = << >> /\ Picked(s, S) = g[n]
      /\ \A k \in 1 .. n : g[k] = IF s[k] \in S THEN Append(g[k - 1], s[k]) ELSE g[k - 1]
  BY <1>2 DEF Picks, n
<1>h. /\ h[0] = << >> /\ Picked(t, S) = h[n + 1]
      /\ \A k \in 1 .. n + 1 : h[k] = IF t[k] \in S THEN Append(h[k - 1], t[k]) ELSE h[k - 1]
  BY <1>1, <1>3 DEF Picks
<1>4. g[n] = h[n]
  <2> DEFINE T == {k \in Nat : k <= n => g[k] = h[k]}
  <2>1. 0 \in T
    BY <1>g, <1>h
  <2>2. ASSUME NEW k \in Nat, k + 1 <= n, g[k] = h[k]
        PROVE  g[k + 1] = h[k + 1]
    <3>1. k + 1 \in 1 .. n /\ k + 1 \in 1 .. n + 1 /\ (k + 1) - 1 = k
      BY <1>1, <2>2
    <3> QED BY <1>1, <1>g, <1>h, <2>2, <3>1
  <2>3. \A k \in Nat : k \in T => k + 1 \in T
    BY <1>1, <2>2
  <2>4. \A k \in Nat : k \in T
    <3> HIDE DEF T
    <3> QED BY <2>1, <2>3, NatSetInduction
  <2> QED BY <1>1, <2>4
<1>5. h[n + 1] = IF x \in S THEN Append(h[n], x) ELSE h[n]
  <2>1. n + 1 \in 1 .. n + 1 /\ (n + 1) - 1 = n
    BY <1>1
  <2> QED BY <1>1, <1>h, <2>1
<1>6. Picked(s, S) \in Seq(X)
  BY <1>1, <1>g
<1>7. Picked(t, S) = IF x \in S THEN Append(Picked(s, S), x) ELSE Picked(s, S)
  BY <1>g, <1>h, <1>4, <1>5
<1> QED BY <1>6, <1>7 DEF t

-----------------------------------------------------------------------------
(***************************************************************************)
(* The log of a good run is full.  What matters is the messages on their   *)
(* way to the log, wherever they are: in the hand of the receiver, or on   *)
(* the wire.  As long as nothing has failed, they are the lines the agent  *)
(* has read, in order, and the rest of the lines is in the pipes.  A Done  *)
(* is sent after all of them and nothing after it, so that a log that ends *)
(* with it has lost nothing.                                               *)
(***************************************************************************)
Flow == (IF receiver = "write" THEN Append(log, held) ELSE log) \o wire
Sent(ch) == Picked(Flow, OutputsOf(ch))
Ended == \E i \in 1..Len(Flow) : Flow[i].type = "done"
Whole(ch) == CutShort(ch) \/ Sent(ch) = AllLines(ch)
Sound == ~streamErr /\ ~uploadErr

\* Lines are sent in order; those not sent yet are in the pipe.
InStep(ch) ==
    \/ CutShort(ch)
    \/ /\ Len(Sent(ch)) + Len(pipe[ch]) = written[ch]
       /\ \A n \in 1..Len(Sent(ch)) : Sent(ch)[n] = Line(ch, n)
       /\ \A i \in 1..Len(pipe[ch]) : pipe[ch][i] \in {Long, Len(Sent(ch)) + i}

AllInStep == Sent("system") = AllLines("system") /\ \A ch \in Output : InStep(ch)

Working == conn # "closed" /\ ~Reported

DoneIsLast == \A i \in 1..Len(Flow) : Flow[i].type = "done" => i = Len(Flow) /\ Reported

FlowInv ==
    Sound =>
        /\ DoneIsLast
        /\ Ended => \A ch \in Channels : Whole(ch)
        /\ Working => AllInStep

ScanInv ==
    /\ agent \in {"listen", "start"} =>
          child = "none" /\ \A ch \in Output : scanner[ch] = "off" /\ pipe[ch] = <<>>
    /\ \A ch \in Output : scanner[ch] = "end" => pipe[ch] = <<>> /\ child # "running"
    /\ agent = "wait" => \A ch \in Output : scanner[ch] \in {"long", "end"}
    /\ agent \in {"cleanup", "report"} =>
          child # "running" /\ \A ch \in Output : scanner[ch] = "long" \/ pipe[ch] = <<>>

EarlyInv ==
    runner \in {"code", "deps", "tmp", "start", "connect", "send"} =>
        /\ receiver = "off" /\ watcher = "off" /\ uploader = "off"
        /\ runner # "send" => conn = "none"

UploadInv ==
    /\ uploader \in {"exit", "gone"} => uploadErr \/ (receiver \in {"await", "back"} /\ stored)
    /\ uploadErr \/ receiver = "back" => uploader \in {"exit", "gone"}
    /\ receiver \in {"await", "back"} /\ Sound => log # <<>> /\ log[Len(log)].type = "done"
    /\ runner \in {"stop", "save"} \/ outcome \in {"ok", "userError"} => receiver = "back" /\ Sound

FullInv == FlowInv /\ ScanInv /\ EarlyInv /\ UploadInv

LEMMA MovingOn ==
    ASSUME NEW X, NEW s \in Seq(X), NEW w \in Seq(X), w # << >>
    PROVE  Append(s, Head(w)) \o Tail(w) = s \o w
<1>1. /\ Append(s, Head(w)) \o Tail(w) \in Seq(X) /\ s \o w \in Seq(X)
      /\ Len(Append(s, Head(w)) \o Tail(w)) = Len(s \o w)
  OBVIOUS
<1>2. \A i \in 1 .. Len(s \o w) : (Append(s, Head(w)) \o Tail(w))[i] = (s \o w)[i]
  OBVIOUS
<1> QED BY <1>1, <1>2

LEMMA JoiningLater ==
    ASSUME NEW X, NEW s \in Seq(X), NEW w \in Seq(X), NEW m \in X
    PROVE  s \o Append(w, m) = Append(s \o w, m)
OBVIOUS

LEMMA PartOfFlow ==
    ASSUME NEW X, NEW s \in Seq(X), NEW w \in Seq(X), NEW n \in 0 .. Len(w)
    PROVE  /\ s \o SubSeq(w, 1, n) \in Seq(X)
           /\ Len(s \o SubSeq(w, 1, n)) = Len(s) + n
           /\ \A i \in 1 .. Len(s) + n : (s \o SubSeq(w, 1, n))[i] = (s \o w)[i]
           /\ n = Len(w) => s \o SubSeq(w, 1, n) = s \o w
OBVIOUS

\* The flow without what is on the wire.
Received == IF receiver = "write" THEN Append(log, held) ELSE log

LEMMA FlowIsSequence ==
    ASSUME StreamTypeOK, LinkTypeOK, HeldInv
    PROVE  /\ Received \in Seq(Messages) /\ wire \in Seq(Messages)
           /\ Flow = Received \o wire /\ Flow \in Seq(Messages) /\ Len(Flow) \in Nat
<1>1. log \in Seq(Messages) /\ wire \in Seq(Messages) /\ (receiver = "write" => held \in Messages)
  BY DEF StreamTypeOK, LinkTypeOK, HeldInv
<1>2. Received \in Seq(Messages)
  BY <1>1 DEF Received
<1>3. Flow = Received \o wire
  BY DEF Flow, Received
<1> QED BY <1>1, <1>2, <1>3

\* The host takes messages on without changing their order.
LEMMA StreamMovesFlow ==
    ASSUME ShapeInv, UploadInv, StreamNext, Sound'
    PROVE  Sound /\ Flow' = Flow /\ (conn' # "closed" => conn # "closed")
<1>0. StreamTypeOK /\ LinkTypeOK /\ HeldInv
  BY DEF ShapeInv, TypeOK
<1>1. wire \in Seq(Messages) /\ log \in Seq(Messages)
  BY <1>0 DEF LinkTypeOK, StreamTypeOK
<1>2. CASE Receive
  <2>1. /\ receiver = "receive" /\ receiver' = "write" /\ log' = log /\ conn' = conn
        /\ held' = Head(wire) /\ wire' = Tail(wire) /\ wire # << >>
        /\ UNCHANGED <<streamErr, uploadErr>>
    BY <1>2 DEF Receive
  <2>2. Append(log, Head(wire)) \o Tail(wire) = log \o wire
    BY <1>1, <2>1, MovingOn
  <2>3. Flow' = Append(log, Head(wire)) \o Tail(wire) /\ Flow = log \o wire
    BY <2>1 DEF Flow
  <2> QED BY <2>1, <2>2, <2>3 DEF Sound
<1>3. CASE WriteLine
  BY <1>3 DEF WriteLine, AfterWrite, Flow, Sound, linkVars
<1>4. CASE WriteFails
  <2>1. uploadErr
    BY <1>4 DEF WriteFails, UploadInv
  <2> QED BY <1>4, <2>1 DEF WriteFails, Sound
<1>5. CASE ReceiveFails \/ UploadFails
  BY <1>5 DEF ReceiveFails, UploadFails, Sound
<1>6. CASE AwaitUpload \/ CloseReader \/ WatcherEnds
  <2>1. /\ UNCHANGED <<wire, conn, log, held, streamErr, uploadErr>>
        /\ receiver' = receiver \/ (receiver = "await" /\ receiver' = "back")
    BY <1>6 DEF AwaitUpload, CloseReader, WatcherEnds, linkVars
  <2> QED BY <2>1 DEF Flow, Sound
<1>7. CASE UploadEnds
  <2>1. UNCHANGED <<wire, conn, held, receiver, streamErr>> /\ uploader = "read"
    BY <1>7 DEF UploadEnds, linkVars
  <2>2. ~streamErr /\ ~uploadErr
    BY <2>1 DEF Sound, UploadInv
  <2>3. log' = log
    BY <1>7, <2>2 DEF UploadEnds
  <2> QED BY <2>1, <2>2, <2>3 DEF Flow, Sound
<1>8. CASE WatcherHangsUp
  BY <1>8 DEF WatcherHangsUp, Flow, Sound, CloseConn
<1> QED BY <1>2, <1>3, <1>4, <1>5, <1>6, <1>7, <1>8
        DEF StreamNext, ReceiverStep, UploaderStep, WatcherStep

LEMMA FlowKept ==
    ASSUME FlowInv, UNCHANGED agentVars,
           Sound' => Sound /\ Flow' = Flow /\ (conn' # "closed" => conn # "closed")
    PROVE  FlowInv'
<1> SUFFICES ASSUME Sound'
             PROVE  /\ DoneIsLast'
                    /\ Ended' => \A ch \in Channels : Whole(ch)'
                    /\ Working' => AllInStep'
  BY DEF FlowInv
<1>1. Sound /\ Flow' = Flow /\ (conn' # "closed" => conn # "closed")
  OBVIOUS
<1>2. UNCHANGED <<agent, pipe, scanner, written>>
  BY DEF agentVars
<1>3. \A ch : Sent(ch)' = Sent(ch) /\ AllLines(ch)' = AllLines(ch)
  BY <1>1, <1>2 DEF Sent, AllLines
<1>4. DoneIsLast' /\ (Ended' <=> Ended) /\ (Working' => Working)
  BY <1>1, <1>2 DEF FlowInv, DoneIsLast, Ended, Working, Reported
<1>5. \A ch \in Channels : Whole(ch)' <=> Whole(ch)
  BY <1>2, <1>3 DEF Whole, CutShort
<1>6. AllInStep' <=> AllInStep
  BY <1>2, <1>3 DEF AllInStep, InStep, CutShort
<1> QED BY <1>1, <1>4, <1>5, <1>6 DEF FlowInv

-----------------------------------------------------------------------------
\* What the agent's sending does to the flow: nothing after a hang-up.
LEMMA SendingMovesFlow ==
    ASSUME ShapeInv, NEW m \in Messages, AgentSends(m), UNCHANGED streamVars
    PROVE  /\ Sound' = Sound /\ conn' = conn
           /\ \/ conn = "closed" /\ Flow' = Flow
              \/ Flow' = Append(Flow, m)
<1>1. /\ Received \in Seq(Messages) /\ wire \in Seq(Messages) /\ Flow = Received \o wire
  BY FlowIsSequence DEF ShapeInv, TypeOK
<1>2. /\ UNCHANGED <<receiver, log, held, streamErr, uploadErr>> /\ conn' = conn
  BY DEF streamVars, AgentSends
<1>3. Received' = Received /\ Sound' = Sound /\ Flow' = Received \o wire'
  BY <1>2 DEF Received, Sound, Flow
<1>4. CASE conn = "closed" /\ UNCHANGED wire
  BY <1>1, <1>2, <1>3, <1>4
<1>5. CASE wire' = Append(wire, m)
  BY <1>1, <1>2, <1>3, <1>5, JoiningLater
<1> QED BY <1>4, <1>5 DEF AgentSends

LEMMA SentOneMore ==
    ASSUME ShapeInv, NEW m \in Messages, Flow' = Append(Flow, m), NEW ch \in Channels
    PROVE  /\ Sent(ch) \in Seq(Messages)
           /\ Sent(ch)' = IF m \in OutputsOf(ch) THEN Append(Sent(ch), m) ELSE Sent(ch)
<1>1. Flow \in Seq(Messages)
  BY FlowIsSequence DEF ShapeInv, TypeOK
<1>2. Sent(ch)' = Picked(Append(Flow, m), OutputsOf(ch))
  BY DEF Sent
<1> DEFINE S == OutputsOf(ch)
<1>3. /\ Picked(Flow, S) \in Seq(Messages)
      /\ Picked(Append(Flow, m), S) = IF m \in S THEN Append(Picked(Flow, S), m) ELSE Picked(Flow, S)
  <2> HIDE DEF S
  <2> QED BY <1>1, PickedMore
<1>4. Sent(ch) = Picked(Flow, S)
  BY DEF Sent
<1> QED BY <1>2, <1>3, <1>4

LEMMA SentIsSequence ==
    ASSUME ShapeInv, NEW ch
    PROVE  Sent(ch) \in Seq(Messages)
<1>1. Flow \in Seq(Messages)
  BY FlowIsSequence DEF ShapeInv, TypeOK
<1>2. PICK g : Picks(Flow, OutputsOf(ch), Messages, g)
  BY <1>1, PickedByElement
<1> QED BY <1>1, <1>2 DEF Picks, Sent

\* A step of an agent that works and does not report.
LEMMA WorkKeepsFlow ==
    ASSUME FlowInv, ~Reported, Sound' = Sound, conn' = conn,
           \/ Flow' = Flow
           \/ \E m \in Messages : m.type = "output" /\ Flow' = Append(Flow, m),
           Flow \in Seq(Messages),
           AllInStep /\ Sound /\ conn # "closed" /\ ~Reported' => AllInStep'
    PROVE  FlowInv'
<1> SUFFICES ASSUME Sound'
             PROVE  /\ DoneIsLast' /\ ~Ended'
                    /\ Working' => AllInStep'
  BY DEF FlowInv
<1>1. Sound /\ ~Ended /\ (conn # "closed" => AllInStep)
  BY DEF FlowInv, Ended, DoneIsLast, Working
<1>2. ~Ended'
  <2>1. CASE Flow' = Flow
    BY <1>1, <2>1 DEF Ended
  <2>2. CASE \E m \in Messages : m.type = "output" /\ Flow' = Append(Flow, m)
    <3>1. PICK m \in Messages : m.type = "output" /\ Flow' = Append(Flow, m)
      BY <2>2
    <3>2. /\ Len(Flow') = Len(Flow) + 1 /\ Flow'[Len(Flow) + 1] = m
          /\ \A i \in 1 .. Len(Flow) : Flow'[i] = Flow[i]
      BY <3>1
    <3>3. ASSUME NEW i \in 1 .. Len(Flow')
          PROVE  Flow'[i].type # "done"
      <4>1. i \in 1 .. Len(Flow) \/ i = Len(Flow) + 1
        BY <3>2
      <4> QED BY <1>1, <3>1, <3>2, <4>1 DEF Ended
    <3> QED BY <3>3 DEF Ended
  <2> QED BY <2>1, <2>2
<1>3. DoneIsLast'
  BY <1>2 DEF Ended, DoneIsLast
<1>4. Working' => AllInStep'
  BY <1>1 DEF Working
<1> QED BY <1>2, <1>3, <1>4

\* The agent announces something: a line of its own channel.
LEMMA AnnouncingKeepsFlow ==
    ASSUME ShapeInv, FlowInv, EmitSystem, written["system"] <= 1, UNCHANGED streamVars,
           ~Reported, UNCHANGED <<pipe, scanner>>
    PROVE  FlowInv'
<1> DEFINE w == written["system"]
           m == Line("system", w + 1)
<1>0. /\ written \in [Channels -> 0..(Lines + 2)] /\ w \in Nat /\ Lines \in Nat
      /\ "system" \in Channels /\ Output \subseteq Channels /\ "system" \notin Output
      /\ Flow \in Seq(Messages)
  BY LinkAssumption, FlowIsSequence DEF ShapeInv, TypeOK, AgentTypeOK, Channels, Output
<1>1. m \in Messages /\ m.type = "output" /\ m.of = "system"
  <2>1. w + 1 \in 1 .. (Lines + 2)
    BY <1>0
  <2> QED BY <1>0, <2>1, LinesAreMessages DEF Line
<1>2. AgentSends(m) /\ written' = [written EXCEPT !["system"] = w + 1]
  BY DEF EmitSystem
<1>3. /\ Sound' = Sound /\ conn' = conn
      /\ (conn = "closed" /\ Flow' = Flow) \/ Flow' = Append(Flow, m)
  BY <1>1, <1>2, SendingMovesFlow
<1>4. ASSUME AllInStep, conn # "closed"
      PROVE  AllInStep'
  <2>1. Flow' = Append(Flow, m)
    BY <1>3, <1>4
  <2>2. \A ch \in Output : m \notin OutputsOf(ch)
    BY <1>0, <1>1 DEF OutputsOf
  <2>3. m \in OutputsOf("system")
    BY <1>1 DEF OutputsOf
  <2> HIDE DEF m
  <2>4. Sent("system")' = Append(Sent("system"), m) /\ Sent("system") \in Seq(Messages)
    BY <1>0, <1>1, <2>1, <2>3, SentOneMore
  <2>5. \A ch \in Output : Sent(ch)' = Sent(ch)
    BY <1>0, <1>1, <2>1, <2>2, SentOneMore
  <2>6. Sent("system")' = AllLines("system")'
    <3> HIDE DEF w
    <3>1. /\ AllLines("system") = [n \in 1 .. w |-> Line("system", n)]
          /\ AllLines("system")' = [n \in 1 .. w + 1 |-> Line("system", n)]
      BY <1>0, <1>2 DEF AllLines, w
    <3>2. Append([n \in 1 .. w |-> Line("system", n)], m) = [n \in 1 .. w + 1 |-> Line("system", n)]
      BY <1>0 DEF m
    <3> QED BY <1>4, <2>4, <3>1, <3>2 DEF AllInStep
  <2>7. \A ch \in Output : written'[ch] = written[ch]
    BY <1>0, <1>2
  <2>8. ASSUME NEW ch \in Output
        PROVE  InStep(ch)'
    <3>1. InStep(ch) /\ Sent(ch)' = Sent(ch) /\ written'[ch] = written[ch]
      BY <1>4, <2>5, <2>7 DEF AllInStep
    <3> QED BY <3>1 DEF InStep, CutShort
  <2> QED BY <2>6, <2>8 DEF AllInStep
<1> HIDE DEF m
<1> QED BY <1>0, <1>1, <1>3, <1>4, WorkKeepsFlow

\* The flow, for a step of the guest without a message.
LEMMA SilentFlow ==
    ASSUME UNCHANGED <<linkVars, streamVars>>
    PROVE  Flow' = Flow /\ Sound' = Sound /\ conn' = conn
BY DEF linkVars, streamVars, Flow, Sound

\* The child writes a line.
LEMMA WritingKeepsFlow ==
    ASSUME ShapeInv, FlowInv, AgentInv, NEW ch \in Output, ChildWrites(ch), UNCHANGED streamVars
    PROVE  FlowInv'
<1>0. /\ pipe \in [Output -> Seq(0..Lines)] /\ written \in [Channels -> 0..(Lines + 2)]
      /\ Output \subseteq Channels /\ Flow \in Seq(Messages) /\ "system" \notin Output
      /\ Lines \in Nat
  BY LinkAssumption, FlowIsSequence DEF ShapeInv, TypeOK, AgentTypeOK, Channels, Output
<1>1. /\ ~Reported /\ UNCHANGED <<linkVars, agent, scanner>>
      /\ written' = [written EXCEPT ![ch] = @ + 1]
  BY DEF ChildWrites, AgentInv, Reported
<1>2. PICK line \in {written[ch] + 1, Long} : pipe' = [pipe EXCEPT ![ch] = Append(@, line)]
  BY DEF ChildWrites
<1>3. Flow' = Flow /\ Sound' = Sound /\ conn' = conn
  BY <1>1, SilentFlow
<1>4. ASSUME AllInStep
      PROVE  AllInStep'
  <2>1. \A c : Sent(c)' = Sent(c)
    BY <1>3 DEF Sent
  <2>2. Sent("system")' = AllLines("system")'
    <3>1. written'["system"] = written["system"]
      BY <1>0, <1>1 DEF Channels
    <3> QED BY <1>4, <2>1, <3>1 DEF AllInStep, AllLines
  <2>3. ASSUME NEW c \in Output, c # ch
        PROVE  InStep(c)'
    <3>1. written'[c] = written[c] /\ pipe'[c] = pipe[c] /\ InStep(c) /\ Sent(c)' = Sent(c)
      BY <1>0, <1>1, <1>2, <1>4, <2>1, <2>3 DEF AllInStep
    <3> QED BY <1>1, <3>1 DEF InStep, CutShort
  <2>4. ASSUME ~CutShort(ch)
        PROVE  InStep(ch)'
    <3> DEFINE p == pipe[ch]
               q == pipe'[ch]
               s == Sent(ch)
    <3>1. s \in Seq(Messages)
      BY SentIsSequence
    <3>2. /\ p \in Seq(0..Lines) /\ Len(s) + Len(p) = written[ch]
          /\ \A n \in 1..Len(s) : s[n] = Line(ch, n)
          /\ \A i \in 1..Len(p) : p[i] \in {Long, Len(s) + i}
      BY <1>0, <1>4, <2>4 DEF AllInStep, InStep
    <3>3. q = Append(p, line) /\ written'[ch] = written[ch] + 1
      BY <1>0, <1>1, <1>2
    <3> HIDE DEF p, q, s
    <3>4. Len(q) = Len(p) + 1 /\ q[Len(p) + 1] = line /\ \A i \in 1..Len(p) : q[i] = p[i]
      BY <3>2, <3>3
    <3>5. Len(s) \in Nat /\ Len(p) \in Nat /\ Len(s) + Len(q) = written'[ch]
      BY <3>1, <3>2, <3>3, <3>4
    <3>6. ASSUME NEW i \in 1..Len(q)
          PROVE  q[i] \in {Long, Len(s) + i}
      <4>1. CASE i = Len(p) + 1
        BY <1>2, <3>2, <3>4, <3>5, <4>1
      <4>2. CASE i # Len(p) + 1
        BY <3>2, <3>4, <3>5, <4>2
      <4> QED BY <4>1, <4>2
    <3> QED BY <2>1, <3>2, <3>5, <3>6 DEF InStep, q, s
  <2>5. CutShort(ch) => InStep(ch)'
    BY <1>1 DEF CutShort, InStep
  <2> QED BY <2>2, <2>3, <2>4, <2>5 DEF AllInStep
<1> QED BY <1>0, <1>1, <1>3, <1>4, WorkKeepsFlow

\* A scanner takes a line out of its pipe and sends it.
LEMMA ScanningKeepsFlow ==
    ASSUME ShapeInv, FlowInv, NEW ch \in Output, ScanLine(ch), UNCHANGED streamVars
    PROVE  FlowInv'
<1> DEFINE p == pipe[ch]
           m == Line(ch, Head(p))
           s == Sent(ch)
<1>0. /\ pipe \in [Output -> Seq(0..Lines)] /\ p \in Seq(0..Lines)
      /\ Output \subseteq Channels /\ Flow \in Seq(Messages) /\ "system" \notin Output
      /\ Lines \in Nat /\ ch \in Channels /\ s \in Seq(Messages)
  BY LinkAssumption, FlowIsSequence, SentIsSequence
     DEF ShapeInv, TypeOK, AgentTypeOK, Channels, Output
<1>1. /\ ~Reported /\ UNCHANGED <<agent, scanner, written>> /\ scanner[ch] = "on"
      /\ p # << >> /\ Head(p) # Long /\ AgentSends(m)
      /\ pipe' = [pipe EXCEPT ![ch] = Tail(p)]
  BY DEF ScanLine, AgentAt, Reported
<1>2. Head(p) \in 1 .. Lines + 2
  <2>1. Head(p) \in 0 .. Lines
    BY <1>0, <1>1, HeadIsMember, Zenon
  <2> QED BY <1>0, <1>1, <2>1 DEF Long
<1>3. m \in Messages /\ m.type = "output" /\ m.of = ch
  BY <1>0, <1>2, LinesAreMessages DEF Line
<1> HIDE DEF m, s
<1>4. /\ Sound' = Sound /\ conn' = conn
      /\ (conn = "closed" /\ Flow' = Flow) \/ Flow' = Append(Flow, m)
  BY <1>1, <1>3, SendingMovesFlow
<1>5. ASSUME AllInStep, conn # "closed"
      PROVE  AllInStep'
  <2>1. Flow' = Append(Flow, m)
    BY <1>4, <1>5
  <2>2. \A c \in Channels : Sent(c)' = IF c = ch THEN Append(s, m) ELSE Sent(c)
    BY <1>3, <2>1, SentOneMore DEF OutputsOf, s
  <2>3. Sent("system")' = AllLines("system")'
    BY <1>0, <1>1, <1>5, <2>2 DEF AllInStep, AllLines, Channels
  <2>4. ASSUME NEW c \in Output, c # ch
        PROVE  InStep(c)'
    <3>1. pipe'[c] = pipe[c] /\ InStep(c) /\ Sent(c)' = Sent(c)
      BY <1>0, <1>1, <1>5, <2>2, <2>4 DEF AllInStep
    <3> QED BY <1>1, <3>1 DEF InStep, CutShort
  <2>5. InStep(ch)'
    <3> DEFINE q == pipe'[ch]
               t == Sent(ch)'
    <3>1. /\ Len(s) + Len(p) = written[ch]
          /\ \A n \in 1..Len(s) : s[n] = Line(ch, n)
          /\ \A i \in 1..Len(p) : p[i] \in {Long, Len(s) + i}
      BY <1>1, <1>5 DEF AllInStep, InStep, CutShort, s
    <3>2. q = Tail(p) /\ t = Append(s, m)
      BY <1>0, <1>1, <2>2
    <3>3. Head(p) = Len(s) + 1 /\ p[1] = Head(p)
      BY <1>0, <1>1, <3>1
    <3> HIDE DEF p, q, t
    <3>4. /\ Len(t) = Len(s) + 1 /\ t[Len(s) + 1] = m /\ \A n \in 1..Len(s) : t[n] = s[n]
          /\ Len(s) \in Nat
      BY <1>0, <1>3, <3>2
    <3>5. /\ Len(q) + 1 = Len(p) /\ Len(q) \in Nat /\ Len(p) \in Nat
          /\ \A i \in 1..Len(q) : q[i] = p[i + 1]
      BY <1>0, <1>1, <3>2
    <3>6. ASSUME NEW n \in 1..Len(t)
          PROVE  t[n] = Line(ch, n)
      <4>1. CASE n = Len(s) + 1
        BY <3>3, <3>4, <4>1 DEF m
      <4>2. CASE n # Len(s) + 1
        BY <3>1, <3>4, <4>2
      <4> QED BY <4>1, <4>2
    <3>7. ASSUME NEW i \in 1..Len(q)
          PROVE  q[i] \in {Long, Len(t) + i}
      <4>1. i + 1 \in 1..Len(p) /\ Len(s) + (i + 1) = Len(t) + i
        BY <3>4, <3>5
      <4> QED BY <3>1, <3>5, <4>1
    <3>8. Len(t) + Len(q) = written'[ch]
      <4>1. written'[ch] = written[ch]
        BY <1>1
      <4>2. \A a, b, c, d \in Nat : a = b + 1 /\ c + 1 = d => a + c = b + d
        OBVIOUS
      <4>3. Len(t) + Len(q) = Len(s) + Len(p)
        <5>1. Len(t) = Len(s) + 1 /\ Len(t) \in Nat /\ Len(s) \in Nat
          BY <3>4
        <5>2. Len(q) + 1 = Len(p) /\ Len(q) \in Nat /\ Len(p) \in Nat
          BY <3>5
        <5> QED BY <4>2, <5>1, <5>2
      <4> QED BY <3>1, <4>1, <4>3
    <3> QED BY <3>6, <3>7, <3>8 DEF InStep, q, t
  <2> QED BY <2>3, <2>4, <2>5 DEF AllInStep
<1> QED BY <1>0, <1>1, <1>3, <1>4, <1>5, WorkKeepsFlow

-----------------------------------------------------------------------------
\* No message: the scanners end, the child does, and the agent goes on.
LEMMA GoingOnKeepsFlow ==
    ASSUME ShapeInv, FlowInv, ScanInv, AgentInv, UNCHANGED streamVars,
           \/ NoCommand \/ JobFails \/ StartChild \/ ChildExits \/ Drained \/ CleanUp
           \/ \E ch \in Output : ScannerGivesUp(ch) \/ ScannerEnds(ch)
    PROVE  FlowInv'
<1>0. /\ Flow \in Seq(Messages)
      /\ scanner \in [Output -> {"off", "on", "long", "end"}]
  BY FlowIsSequence DEF ShapeInv, TypeOK, AgentTypeOK
<1>1. UNCHANGED <<linkVars, pipe, written>> /\ ~Reported
  BY DEF NoCommand, JobFails, StartChild, ChildExits, Drained, CleanUp, ScannerGivesUp, ScannerEnds,
     AgentAt, AgentInv, Reported
<1>2. Flow' = Flow /\ Sound' = Sound /\ conn' = conn
  BY <1>1, SilentFlow
<1>3. \A ch \in Output : CutShort(ch) => CutShort(ch)'
  <2>1. CASE NoCommand \/ JobFails \/ ChildExits \/ Drained \/ CleanUp
    BY <2>1 DEF NoCommand, JobFails, ChildExits, Drained, CleanUp, CutShort
  <2>2. CASE StartChild
    BY <2>2 DEF StartChild, AgentAt, ScanInv, CutShort
  <2>3. ASSUME NEW c \in Output, ScannerGivesUp(c) \/ ScannerEnds(c)
        PROVE  \A ch \in Output : CutShort(ch) => CutShort(ch)'
    BY <1>0, <2>3 DEF ScannerGivesUp, ScannerEnds, CutShort
  <2> QED BY <2>1, <2>2, <2>3
<1>4. \A ch : Sent(ch)' = Sent(ch) /\ AllLines(ch)' = AllLines(ch)
  BY <1>1, <1>2 DEF Sent, AllLines
<1>5. AllInStep => AllInStep'
  <2>1. \A ch \in Output : InStep(ch) => InStep(ch)'
    BY <1>1, <1>3, <1>4 DEF InStep
  <2> QED BY <1>4, <2>1 DEF AllInStep
<1> QED BY <1>0, <1>1, <1>2, <1>5, WorkKeepsFlow

\* What has been sent when the job is over is everything.
LEMMA AllIsSent ==
    ASSUME ShapeInv, AllInStep, NEW ch \in Channels,
           \A c \in Output : scanner[c] = "long" \/ pipe[c] = <<>>
    PROVE  Whole(ch)
<1>1. CASE ch = "system"
  BY <1>1 DEF AllInStep, Whole
<1>2. CASE ch \in Output /\ ~CutShort(ch)
  <2> DEFINE s == Sent(ch)
  <2>1. s \in Seq(Messages)
    BY SentIsSequence
  <2>2. Len(pipe[ch]) = 0
    BY <1>2 DEF CutShort
  <2>3. Len(s) + Len(pipe[ch]) = written[ch] /\ \A n \in 1..Len(s) : s[n] = Line(ch, n)
    BY <1>2 DEF AllInStep, InStep
  <2> HIDE DEF s
  <2>4. Len(s) = written[ch]
    BY <2>1, <2>2, <2>3
  <2>5. s = [n \in 1..written[ch] |-> Line(ch, n)]
    BY <2>1, <2>3, <2>4
  <2> QED BY <2>5 DEF Whole, AllLines, s
<1> QED BY <1>1, <1>2 DEF Channels, Whole

LEMMA ReportKeepsFlow ==
    ASSUME ShapeInv, FlowInv, ScanInv, Report, UNCHANGED streamVars
    PROVE  FlowInv'
<1> DEFINE m == DoneMessage(exitCode)
<1>0. Flow \in Seq(Messages) /\ m \in Messages /\ m.type = "done"
  BY FlowIsSequence, DonesAreMessages DEF ShapeInv, TypeOK, AgentTypeOK, DoneMessage
<1>1. /\ ~Reported /\ Reported' /\ UNCHANGED <<pipe, scanner, written>> /\ AgentSends(m)
      /\ \A ch \in Output : scanner[ch] = "long" \/ pipe[ch] = <<>>
  BY DEF Report, AgentAt, Reported, ScanInv
<1> HIDE DEF m
<1>2. /\ Sound' = Sound /\ conn' = conn
      /\ (conn = "closed" /\ Flow' = Flow) \/ Flow' = Append(Flow, m)
  BY <1>0, <1>1, SendingMovesFlow
<1> SUFFICES ASSUME Sound'
             PROVE  /\ DoneIsLast'
                    /\ Ended' => \A ch \in Channels : Whole(ch)'
                    /\ Working' => AllInStep'
  BY DEF FlowInv
<1>3. Sound /\ ~Ended /\ (conn # "closed" => AllInStep) /\ ~Working'
  BY <1>1, <1>2 DEF FlowInv, Ended, DoneIsLast, Working
<1>4. CASE Flow' = Flow
  BY <1>3, <1>4 DEF DoneIsLast, Ended
<1>5. CASE Flow' = Append(Flow, m)
  <2>1. /\ Len(Flow') = Len(Flow) + 1 /\ Len(Flow) \in Nat
        /\ \A i \in 1 .. Len(Flow) : Flow'[i] = Flow[i]
    BY <1>0, <1>5
  <2>2. DoneIsLast'
    <3>1. ASSUME NEW i \in 1 .. Len(Flow'), Flow'[i].type = "done"
          PROVE  i = Len(Flow')
      <4>1. i \notin 1 .. Len(Flow)
        BY <1>3, <2>1, <3>1 DEF Ended
      <4> QED BY <2>1, <3>1, <4>1
    <3> QED BY <1>1, <3>1 DEF DoneIsLast
  <2>3. CASE conn # "closed"
    <3>1. \A ch \in Channels : Whole(ch)
      BY <1>1, <1>3, <2>3, AllIsSent
    <3>2. ASSUME NEW ch \in Channels
          PROVE  Whole(ch)'
      <4>1. m \notin OutputsOf(ch)
        BY <1>0 DEF OutputsOf
      <4>2. Sent(ch)' = Sent(ch)
        BY <1>0, <1>5, <4>1, SentOneMore
      <4>3. AllLines(ch)' = AllLines(ch) /\ (CutShort(ch)' <=> CutShort(ch))
        BY <1>1 DEF AllLines, CutShort
      <4> QED BY <3>1, <4>2, <4>3 DEF Whole
    <3> QED BY <1>3, <2>2, <3>2
  <2>4. CASE conn = "closed"
    <3>1. Flow' = Flow
      BY <1>1, <2>4 DEF AgentSends, streamVars, Flow
    <3> QED BY <1>4, <3>1
  <2> QED BY <2>3, <2>4
<1> QED BY <1>2, <1>4, <1>5

\* What is left of the flow when the machine goes is a part of it; where it
\* still ends with Done, it is all of it.
LEMMA PowerOffKeepsFlow ==
    ASSUME ShapeInv, FlowInv, PoweredOff, UNCHANGED streamVars
    PROVE  FlowInv'
<1>1. PICK n \in 0..Len(wire) : wire' = SubSeq(wire, 1, n)
  BY DEF PoweredOff
<1>2. /\ Received \in Seq(Messages) /\ wire \in Seq(Messages) /\ Flow = Received \o wire
      /\ Flow \in Seq(Messages)
  BY FlowIsSequence DEF ShapeInv, TypeOK
<1>3. Sound' = Sound /\ Reported' /\ UNCHANGED <<scanner, written>>
  BY DEF PoweredOff, streamVars, Sound, Reported
<1>4. Flow' = Received \o SubSeq(wire, 1, n)
  BY <1>1 DEF streamVars, Flow, Received
<1>5. /\ Len(Flow') = Len(Received) + n /\ Len(Flow) = Len(Received) + Len(wire)
      /\ Len(Received) \in Nat /\ Len(wire) \in Nat
      /\ \A i \in 1 .. Len(Flow') : Flow'[i] = Flow[i]
      /\ n = Len(wire) => Flow' = Flow
  BY <1>2, <1>4, PartOfFlow
<1> SUFFICES ASSUME Sound'
             PROVE  /\ DoneIsLast'
                    /\ Ended' => \A ch \in Channels : Whole(ch)'
                    /\ Working' => AllInStep'
  BY DEF FlowInv
<1>6. Sound /\ DoneIsLast /\ (Ended => \A ch \in Channels : Whole(ch)) /\ ~Working'
  BY <1>3 DEF FlowInv, Working
<1>7. ASSUME NEW i \in 1 .. Len(Flow'), Flow'[i].type = "done"
      PROVE  i = Len(Flow') /\ Flow' = Flow /\ Ended
  <2>1. i \in 1 .. Len(Flow) /\ Flow[i].type = "done"
    BY <1>5, <1>7
  <2>2. i = Len(Flow) /\ Ended
    BY <1>6, <2>1 DEF DoneIsLast, Ended
  <2> QED BY <1>5, <2>2, <1>7
<1>8. DoneIsLast'
  BY <1>3, <1>7 DEF DoneIsLast
<1>9. ASSUME Ended', NEW ch \in Channels
      PROVE  Whole(ch)'
  <2>1. Flow' = Flow /\ Ended
    BY <1>7, <1>9 DEF Ended
  <2>2. Sent(ch)' = Sent(ch) /\ AllLines(ch)' = AllLines(ch) /\ (CutShort(ch)' <=> CutShort(ch))
    BY <1>3, <2>1 DEF Sent, AllLines, CutShort
  <2> QED BY <1>6, <2>1, <2>2 DEF Whole
<1> QED BY <1>6, <1>8, <1>9

LEMMA AgentKeepsFlow ==
    ASSUME ShapeInv, FlowInv, ScanInv, AgentInv, AgentNext, UNCHANGED streamVars
    PROVE  FlowInv'
<1>0. LinesInv
  BY DEF ShapeInv
<1>1. CASE TakeCommand
  BY <1>0, <1>1, AnnouncingKeepsFlow DEF TakeCommand, AgentAt, Reported, LinesInv
<1>2. CASE NothingToRun
  BY <1>0, <1>2, AnnouncingKeepsFlow DEF NothingToRun, AgentAt, Reported, LinesInv
<1>3. CASE Reap
  <2>1. CASE EmitSystem
    BY <1>0, <1>3, <2>1, AnnouncingKeepsFlow DEF Reap, AgentAt, Reported, LinesInv
  <2>2. CASE UNCHANGED <<linkVars, written>>
    <3>1. Flow' = Flow /\ Sound' = Sound /\ conn' = conn /\ UNCHANGED <<pipe, scanner, written>>
      BY <1>3, <2>2, SilentFlow DEF Reap
    <3>2. AllInStep => AllInStep'
      BY <3>1 DEF AllInStep, InStep, Sent, AllLines, CutShort
    <3>3. ~Reported /\ Flow \in Seq(Messages)
      BY <1>3, FlowIsSequence DEF Reap, AgentAt, Reported, ShapeInv, TypeOK
    <3> QED BY <3>1, <3>2, <3>3, WorkKeepsFlow
  <2> QED BY <1>3, <2>1, <2>2 DEF Reap
<1>4. CASE NoCommand \/ JobFails \/ StartChild \/ ChildExits \/ Drained \/ CleanUp
  BY <1>4, GoingOnKeepsFlow
<1>5. CASE Report
  BY <1>5, ReportKeepsFlow
<1>6. CASE PowerOff
  BY <1>6, PowerOffKeepsFlow DEF PowerOff
<1>7. ASSUME NEW ch \in Output, ChildWrites(ch) \/ ScanLine(ch) \/ ScannerGivesUp(ch) \/ ScannerEnds(ch)
      PROVE  FlowInv'
  BY <1>7, WritingKeepsFlow, ScanningKeepsFlow, GoingOnKeepsFlow
<1> QED BY <1>1, <1>2, <1>3, <1>4, <1>5, <1>6, <1>7 DEF AgentNext

-----------------------------------------------------------------------------
LEMMA AgentKeepsScan ==
    ASSUME AgentTypeOK, AgentInv, ScanInv, AgentNext
    PROVE  ScanInv'
<1>0. /\ pipe \in [Output -> Seq(0..Lines)]
      /\ scanner \in [Output -> {"off", "on", "long", "end"}]
  BY DEF AgentTypeOK
<1>1. CASE TakeCommand
  BY <1>1 DEF TakeCommand, AgentAt, ScanInv
<1>2. CASE NoCommand \/ JobFails
  BY <1>2 DEF NoCommand, JobFails, AgentAt, ScanInv
<1>3. CASE NothingToRun
  BY <1>3 DEF NothingToRun, AgentAt, ScanInv
<1>4. CASE StartChild
  BY <1>4 DEF StartChild, AgentAt, ScanInv
<1>5. CASE ChildExits
  BY <1>5 DEF ChildExits, AgentInv, ScanInv
<1>6. CASE Drained
  BY <1>6 DEF Drained, AgentAt, ScanInv
<1>7. CASE Reap
  <2>1. /\ agent = "wait" /\ agent' = "cleanup" /\ child = "exited"
        /\ UNCHANGED <<child, pipe, scanner>>
    BY <1>7 DEF Reap, AgentAt
  <2>2. \A ch \in Output : scanner[ch] = "long" \/ pipe[ch] = <<>>
    BY <2>1 DEF ScanInv
  <2> QED BY <2>1, <2>2 DEF ScanInv
<1>8. CASE CleanUp \/ Report
  BY <1>8 DEF CleanUp, Report, AgentAt, ScanInv
<1>9. CASE PowerOff
  BY <1>9 DEF PowerOff, PoweredOff, ScanInv
<1>10. ASSUME NEW ch \in Output, ChildWrites(ch)
       PROVE  ScanInv'
  <2>1. /\ child = "running" /\ agent \in {"scan", "wait"} /\ UNCHANGED <<agent, child, scanner>>
        /\ \A c \in Output : c # ch => pipe'[c] = pipe[c]
    BY <1>0, <1>10 DEF ChildWrites, AgentInv
  <2> QED BY <2>1 DEF ScanInv
<1>11. ASSUME NEW ch \in Output, ScanLine(ch)
       PROVE  ScanInv'
  <2>1. /\ agent = "scan" /\ UNCHANGED <<agent, child, scanner>> /\ scanner[ch] = "on"
        /\ \A c \in Output : c # ch => pipe'[c] = pipe[c]
    BY <1>0, <1>11 DEF ScanLine, AgentAt
  <2> QED BY <2>1 DEF ScanInv
<1>12. ASSUME NEW ch \in Output, ScannerGivesUp(ch) \/ ScannerEnds(ch)
       PROVE  ScanInv'
  <2>1. /\ agent = "scan" /\ UNCHANGED <<agent, child, pipe>>
        /\ \A c \in Output : c # ch => scanner'[c] = scanner[c]
        /\ scanner'[ch] = "end" => pipe[ch] = <<>> /\ child = "exited"
    BY <1>0, <1>12 DEF ScannerGivesUp, ScannerEnds, AgentAt
  <2> QED BY <2>1 DEF ScanInv
<1> QED BY <1>1, <1>2, <1>3, <1>4, <1>5, <1>6, <1>7, <1>8, <1>9, <1>10, <1>11, <1>12 DEF AgentNext

LEMMA StreamKeepsUpload ==
    ASSUME StreamTypeOK, HeldInv, UploadInv, EarlyInv, StreamNext, UNCHANGED runnerVars
    PROVE  UploadInv' /\ EarlyInv'
<1>r. UNCHANGED <<runner, outcome>> /\ log \in Seq(Messages)
  BY DEF runnerVars, StreamTypeOK
<1>1. EarlyInv'
  BY <1>r DEF EarlyInv, StreamNext, ReceiverStep, Receive, ReceiveFails, WriteLine, WriteFails,
     AwaitUpload, UploaderStep, UploadFails, UploadEnds, CloseReader, WatcherStep, WatcherHangsUp,
     WatcherEnds, StreamClosed
<1>2. CASE Receive \/ ReceiveFails
  BY <1>1, <1>r, <1>2 DEF Receive, ReceiveFails, UploadInv, Sound
<1>3. CASE WriteLine
  <2>1. held \in Messages /\ log' = Append(log, held) /\ receiver = "write" /\ uploader = "read"
        /\ receiver' = (IF held.type = "done" THEN "await" ELSE "receive")
        /\ UNCHANGED <<streamErr, uploader, uploadErr, stored>>
    BY <1>3 DEF WriteLine, AfterWrite, HeldInv
  <2>2. log' # << >> /\ log'[Len(log')] = held
    BY <1>r, <2>1
  <2> QED BY <1>1, <1>r, <2>1, <2>2 DEF UploadInv, Sound
<1>4. CASE WriteFails
  <2>1. uploadErr /\ UNCHANGED <<streamErr, uploader, uploadErr, stored, log>> /\ receiver = "write"
        /\ receiver' \in {"await", "receive"}
    BY <1>4 DEF WriteFails, AfterWrite, UploadInv
  <2> QED BY <1>1, <1>r, <2>1 DEF UploadInv, Sound
<1>5. CASE AwaitUpload
  BY <1>1, <1>r, <1>5 DEF AwaitUpload, UploadInv, Sound
<1>6. CASE UploadFails
  BY <1>1, <1>r, <1>6 DEF UploadFails, UploadInv, Sound
<1>7. CASE UploadEnds
  <2>1. /\ uploader = "read" /\ receiver = "await" /\ uploader' = "exit"
        /\ UNCHANGED <<receiver, streamErr>> /\ ~uploadErr
    BY <1>7 DEF UploadEnds, UploadInv
  <2>2. CASE streamErr
    <3>1. uploadErr'
      BY Zenon, <1>7, <2>2 DEF UploadEnds
    <3> QED BY <1>1, <1>r, <2>1, <2>2, <3>1 DEF UploadInv, Sound
  <2>3. CASE ~streamErr
    <3>1. stored' /\ log' = log
      BY Zenon, <1>7, <2>3 DEF UploadEnds
    <3> QED BY <1>1, <1>r, <2>1, <2>3, <3>1 DEF UploadInv, Sound
  <2> QED BY <2>2, <2>3
<1>8. CASE CloseReader \/ WatcherStep
  BY <1>1, <1>r, <1>8 DEF CloseReader, WatcherStep, WatcherHangsUp, WatcherEnds, UploadInv, Sound
<1> QED BY <1>1, <1>2, <1>3, <1>4, <1>5, <1>6, <1>7, <1>8
        DEF StreamNext, ReceiverStep, UploaderStep

\* The host starts the stream before it can have ended, and takes its result.
LEMMA HostKeepsUpload ==
    ASSUME UploadInv, EarlyInv, HostStep
    PROVE  UploadInv' /\ EarlyInv'
<1>1. CASE PrepareDrive
  BY <1>1 DEF PrepareDrive, AfterDrive, Fails, UploadInv, EarlyInv, Sound, linkVars, streamVars
<1>2. CASE StartMachine
  BY <1>2 DEF StartMachine, Fails, UploadInv, EarlyInv, Sound, streamVars
<1>3. CASE Connect
  BY <1>3 DEF Connect, Fails, UploadInv, EarlyInv, Sound, streamVars
<1>4. CASE SendCommand
  <2>1. receiver = "off" /\ uploader = "off" /\ runner = "send"
    BY <1>4 DEF SendCommand, EarlyInv
  <2> QED BY <1>4, <2>1 DEF SendCommand, StreamBegins, Fails, UploadInv, EarlyInv, Sound, streamVars
<1>5. CASE StreamReturns
  BY <1>5 DEF StreamReturns, StreamFailed, Fails, UploadInv, EarlyInv, Sound, linkVars, streamVars
<1>6. CASE RunnerStopped \/ SaveDrive
  BY <1>6 DEF RunnerStopped, SaveDrive, Fails, UploadInv, EarlyInv, Sound, linkVars, streamVars
<1>7. CASE HangUp \/ DropDrives \/ CancelRun \/ ForgetDrives
  BY <1>7 DEF HangUp, DropDrives, CancelRun, ForgetDrives, UploadInv, EarlyInv, Sound, linkVars,
     streamVars
<1>8. CASE StopStep \/ GuardStep \/ Expire
  <2>1. UNCHANGED <<streamVars, runner, outcome, conn>>
    BY <1>8 DEF StopStep, BeginStop, StopWaits, FreeMachine, GuardStep, GuardWakes, GuardEnds,
       Expire, linkVars, runnerVars, streamVars
  <2> QED BY <2>1 DEF UploadInv, EarlyInv, Sound, streamVars
<1>9. CASE MachineExits \/ MachineCrashes
  BY <1>9 DEF MachineExits, MachineCrashes, PoweredOff, UploadInv, EarlyInv, Sound, streamVars,
     runnerVars
<1> QED BY <1>1, <1>2, <1>3, <1>4, <1>5, <1>6, <1>7, <1>8, <1>9 DEF HostStep, RunnerStep

LEMMA HostKeepsFlow ==
    ASSUME ShapeInv, FlowInv, ScanInv, EarlyInv, HostStep
    PROVE  FlowInv' /\ ScanInv'
<1>a. ASSUME UNCHANGED agentVars
      PROVE  ScanInv'
  BY <1>a DEF agentVars, ScanInv
<1>s. ASSUME UNCHANGED <<agentVars, streamVars, wire>>, conn' = conn
      PROVE  FlowInv' /\ ScanInv'
  <2>1. Sound' = Sound /\ Flow' = Flow
    BY <1>s DEF streamVars, Sound, Flow
  <2> QED BY <1>a, <1>s, <2>1, FlowKept
<1>1. CASE \/ PrepareDrive \/ StartMachine \/ StreamReturns \/ RunnerStopped \/ SaveDrive
           \/ DropDrives \/ CancelRun \/ ForgetDrives \/ StopStep \/ GuardStep \/ Expire
  <2>1. UNCHANGED <<agentVars, streamVars, wire>> /\ conn' = conn
    BY <1>1 DEF PrepareDrive, StartMachine, StreamReturns, RunnerStopped, SaveDrive, DropDrives,
       CancelRun, ForgetDrives, StopStep, BeginStop, StopWaits, FreeMachine, GuardStep, GuardWakes,
       GuardEnds, Expire, linkVars
  <2> QED BY <1>s, <2>1
<1>2. CASE Connect
  <2>1. /\ UNCHANGED <<agentVars, streamVars, wire>> /\ conn = "none"
    BY <1>2 DEF Connect, EarlyInv
  <2>2. Sound' = Sound /\ Flow' = Flow
    BY <2>1 DEF streamVars, Sound, Flow
  <2> QED BY <1>a, <2>1, <2>2, FlowKept
<1>3. CASE SendCommand
  <2>1. /\ UNCHANGED <<agentVars, wire, log, streamErr, uploadErr>> /\ conn' = conn
        /\ receiver = "off" /\ receiver' \in {"off", "receive"}
    BY <1>3 DEF SendCommand, StreamBegins, streamVars, EarlyInv
  <2>2. Sound' = Sound /\ Flow' = Flow
    BY <2>1 DEF Sound, Flow
  <2> QED BY <1>a, <2>1, <2>2, FlowKept
<1>4. CASE HangUp
  <2>1. UNCHANGED <<agentVars, streamVars, wire>> /\ conn' = "closed"
    BY <1>4 DEF HangUp, CloseConn
  <2>2. Sound' = Sound /\ Flow' = Flow
    BY <2>1 DEF streamVars, Sound, Flow
  <2> QED BY <1>a, <2>1, <2>2, FlowKept
<1>5. CASE MachineExits \/ MachineCrashes
  <2>1. PoweredOff /\ UNCHANGED streamVars
    BY <1>5 DEF MachineExits, MachineCrashes
  <2>2. ScanInv'
    BY <2>1 DEF PoweredOff, ScanInv
  <2> QED BY <2>1, <2>2, PowerOffKeepsFlow
<1> QED BY <1>1, <1>2, <1>3, <1>4, <1>5 DEF HostStep, RunnerStep

LEMMA AgentConn ==
    ASSUME AgentNext
    PROVE  conn' = conn
<1>1. CASE TakeCommand \/ NothingToRun \/ Report
  BY <1>1 DEF TakeCommand, NothingToRun, Report, EmitSystem, AgentSends
<1>2. CASE NoCommand \/ JobFails \/ StartChild \/ ChildExits \/ Drained \/ CleanUp
  BY <1>2 DEF NoCommand, JobFails, StartChild, ChildExits, Drained, CleanUp, linkVars
<1>3. CASE Reap
  BY <1>3 DEF Reap, EmitSystem, AgentSends, linkVars
<1>4. CASE PowerOff
  BY <1>4 DEF PowerOff, PoweredOff
<1>5. CASE \E ch \in Output :
             ChildWrites(ch) \/ ScanLine(ch) \/ ScannerGivesUp(ch) \/ ScannerEnds(ch)
  BY <1>5 DEF ChildWrites, ScanLine, ScannerGivesUp, ScannerEnds, AgentSends, linkVars
<1> QED BY <1>1, <1>2, <1>3, <1>4, <1>5 DEF AgentNext

LEMMA FullInit == Init => FullInv
<1> SUFFICES ASSUME Init PROVE FullInv
  OBVIOUS
<1>1. /\ wire = << >> /\ log = << >> /\ receiver = "off" /\ ~streamErr /\ ~uploadErr
      /\ written = [ch \in Channels |-> 0] /\ pipe = [ch \in Output |-> <<>>]
      /\ scanner = [ch \in Output |-> "off"] /\ child = "none" /\ agent = "listen"
      /\ uploader = "off" /\ watcher = "off" /\ conn = "none" /\ runner = "code" /\ outcome = "none"
  BY DEF Init, LinkInit, AgentInit, StreamInit
<1>2. Flow = << >>
  BY <1>1 DEF Flow
<1>3. \A ch : Sent(ch) = << >>
  BY <1>2, PickedNone DEF Sent
<1>4. \A ch \in Channels : AllLines(ch) = << >>
  <2> SUFFICES ASSUME NEW ch \in Channels PROVE AllLines(ch) = << >>
    OBVIOUS
  <2>1. written[ch] = 0 /\ 1 .. 0 = {}
    BY <1>1
  <2>2. AllLines(ch) = [n \in {} |-> Line(ch, n)]
    BY <2>1 DEF AllLines
  <2> QED BY <2>2
<1>5. FlowInv
  <2>1. DoneIsLast /\ ~Ended
    BY <1>2 DEF DoneIsLast, Ended
  <2>2. \A ch \in Output : InStep(ch)
    <3>1. \A ch \in Output : written[ch] = 0 /\ pipe[ch] = << >>
      BY <1>1 DEF Channels
    <3> QED BY <1>3, <3>1 DEF InStep
  <2>3. AllInStep
    BY <1>3, <1>4, <2>2 DEF AllInStep, Channels
  <2> QED BY <2>1, <2>3 DEF FlowInv
<1>6. ScanInv
  BY <1>1 DEF ScanInv
<1>7. EarlyInv /\ UploadInv
  BY <1>1 DEF EarlyInv, UploadInv
<1> QED BY <1>5, <1>6, <1>7 DEF FullInv

LEMMA FullStep == ShapeInv /\ AgentInv /\ FullInv /\ [Next]_vars => FullInv'
<1> SUFFICES ASSUME ShapeInv, AgentInv, FullInv, [Next]_vars
             PROVE  FullInv'
  OBVIOUS
<1>0. /\ FlowInv /\ ScanInv /\ EarlyInv /\ UploadInv
      /\ StreamTypeOK /\ HeldInv /\ AgentTypeOK
  BY DEF FullInv, ShapeInv, TypeOK
<1>1. CASE HostStep
  BY <1>0, <1>1, HostKeepsFlow, HostKeepsUpload DEF FullInv
<1>2. CASE StreamNext /\ UNCHANGED <<agentVars, runnerVars>>
  <2>1. FlowInv'
    <3>1. Sound' => Sound /\ Flow' = Flow /\ (conn' # "closed" => conn # "closed")
      BY <1>0, <1>2, StreamMovesFlow
    <3> QED BY <1>0, <1>2, <3>1, FlowKept
  <2>2. ScanInv'
    BY <1>0, <1>2 DEF agentVars, ScanInv
  <2>3. UploadInv' /\ EarlyInv'
    BY <1>0, <1>2, StreamKeepsUpload
  <2> QED BY <2>1, <2>2, <2>3 DEF FullInv
<1>3. CASE AgentNext /\ UNCHANGED <<streamVars, runnerVars>>
  <2>1. FlowInv' /\ ScanInv'
    BY <1>0, <1>3, AgentKeepsFlow, AgentKeepsScan
  <2>2. UploadInv'
    BY <1>0, <1>3 DEF UploadInv, Sound, streamVars, runnerVars
  <2>3. EarlyInv'
    <3>1. conn' = conn
      BY <1>3, AgentConn
    <3> QED BY <1>0, <1>3, <3>1 DEF EarlyInv, streamVars, runnerVars
  <2> QED BY <2>1, <2>2, <2>3 DEF FullInv
<1>4. CASE UNCHANGED vars
  <2>1. UNCHANGED <<agentVars, streamVars, runnerVars, linkVars>>
    BY <1>4 DEF vars
  <2>2. Flow' = Flow /\ Sound' = Sound /\ conn' = conn
    BY <2>1, SilentFlow
  <2>3. FlowInv'
    BY <1>0, <2>1, <2>2, FlowKept
  <2>4. ScanInv' /\ EarlyInv' /\ UploadInv'
    BY <1>0, <2>1 DEF ScanInv, EarlyInv, UploadInv, Sound, agentVars, streamVars, runnerVars, linkVars
  <2> QED BY <2>3, <2>4 DEF FullInv
<1> QED BY <1>1, <1>2, <1>3, <1>4 DEF Next, HostStep

\* A good run's stream is back, and its log ends with Done.
LEMMA GoodLog ==
    ASSUME ShapeInv, FullInv, outcome \in {"ok", "userError"}
    PROVE  /\ log # << >> /\ log[Len(log)].type = "done"
           /\ \A i \in 1..Len(log) : log[i].type = "done" => i = Len(log)
           /\ stored /\ log \in Seq(Messages)
           /\ \A ch \in Channels : CutShort(ch) \/ LinesOf(ch) = AllLines(ch)
<1>1. /\ receiver = "back" /\ Sound /\ stored /\ log # << >> /\ log[Len(log)].type = "done"
  BY DEF FullInv, UploadInv, Sound
<1>2. log \in Seq(Messages) /\ wire \in Seq(Messages) /\ Flow = log \o wire
  BY <1>1 DEF ShapeInv, TypeOK, StreamTypeOK, LinkTypeOK, Flow
<1>3. DoneIsLast /\ (Ended => \A ch \in Channels : Whole(ch))
  BY <1>1 DEF FullInv, FlowInv
<1>4. /\ Len(log) \in 1 .. Len(Flow) /\ Flow[Len(log)] = log[Len(log)]
      /\ Len(Flow) = Len(log) + Len(wire)
  BY <1>1, <1>2
<1>5. Ended /\ Len(log) = Len(Flow)
  BY <1>1, <1>3, <1>4 DEF Ended, DoneIsLast
<1>6. Flow = log
  BY <1>2, <1>4, <1>5
<1>7. \A ch : Sent(ch) = LinesOf(ch)
  BY <1>6 DEF Sent, LinesOf
<1> QED BY <1>1, <1>2, <1>3, <1>5, <1>6, <1>7 DEF DoneIsLast, Whole

-----------------------------------------------------------------------------
\* FlattenSeq, element by element.
Joins(s, Y, g) ==
    /\ g \in [0 .. Len(s) -> Seq(Y)]
    /\ g[0] = << >>
    /\ \A k \in 1 .. Len(s) : g[k] = g[k - 1] \o s[k]
    /\ FlattenSeq(s) = g[Len(s)]

LEMMA FlattenByElement ==
    ASSUME NEW Y, NEW s \in Seq(Seq(Y))
    PROVE  \E g : Joins(s, Y, g)
<1> DEFINE N == Len(s)
           op == [p \in (1 .. N) \X Seq(Y) |-> p[2] \o s[p[1]]]
           Rec(h) == h = [i \in 1 .. N |-> IF i = 1 THEN s[i] ELSE h[i - 1] \o s[i]]
           flat == CHOOSE h : Rec(h)
<1>1. N \in Nat /\ << >> \in Seq(Y) /\ \A i \in 1 .. N : s[i] \in Seq(Y)
  OBVIOUS
<1>2. op \in [(1 .. N) \X Seq(Y) -> Seq(Y)]
  BY <1>1
<1>3. PICK g \in [0 .. N -> Seq(Y)] : CountsOver(g, N, << >>, op)
  <2> HIDE DEF op, N
  <2> QED BY <1>1, <1>2, RecursionExists
<1>4. g[0] = << >>
  <2>1. 0 \in 0 .. N
    BY <1>1
  <2> HIDE DEF N, op
  <2> QED BY <1>3, <2>1 DEF CountsOver
<1>5. ASSUME NEW i \in 1 .. N
      PROVE  g[i] = g[i - 1] \o s[i] /\ g[i - 1] \in Seq(Y)
  <2>1. i \in 0 .. N /\ i # 0 /\ i - 1 \in 0 .. N
    BY <1>1
  <2>2. g[i - 1] \in Seq(Y)
    BY <1>3, <2>1
  <2>3. g[i] = op[<<i, g[i - 1]>>]
    BY <1>3, <2>1 DEF CountsOver
  <2> QED BY <2>2, <2>3
<1> HIDE DEF op
<1> DEFINE f == [i \in 1 .. N |-> g[i]]
<1>6. Rec(f)
  <2>1. ASSUME NEW i \in 1 .. N
        PROVE  f[i] = IF i = 1 THEN s[i] ELSE f[i - 1] \o s[i]
    <3>1. CASE i = 1
      <4>1. g[i] = g[i - 1] \o s[i]
        BY <1>5
      <4>2. i - 1 = 0
        BY <3>1
      <4>3. g[i] = << >> \o s[i]
        BY <1>4, <4>1, <4>2
      <4> QED BY <1>1, <3>1, <4>3
    <3>2. CASE i # 1
      <4>1. i - 1 \in 1 .. N
        BY <1>1, <3>2
      <4> QED BY <1>5, <3>2, <4>1
    <3> QED BY <3>1, <3>2
  <2> QED BY <2>1
<1>7. Rec(flat)
  <2> HIDE DEF Rec
  <2> QED BY <1>6
<1>8. FlattenSeq(s) = IF Len(s) = 0 THEN s ELSE flat[N]
  BY Zenon DEF FlattenSeq
<1> HIDE DEF flat, f
<1>9. \A i \in 1 .. N : flat[i] = IF i = 1 THEN s[i] ELSE flat[i - 1] \o s[i]
  BY <1>7, Zenon
<1>10. \A k \in Nat : k + 1 <= N => flat[k + 1] = g[k + 1]
  <2> DEFINE T == {n \in Nat : n + 1 <= N => flat[n + 1] = g[n + 1]}
  <2>1. 0 \in T
    <3>1. CASE 1 <= N
      <4>1. 1 \in 1 .. N
        BY <1>1, <3>1
      <4>2. flat[1] = s[1] /\ s[1] \in Seq(Y)
        BY <1>1, <1>9, <4>1
      <4>3. g[1] = g[1 - 1] \o s[1] /\ 1 - 1 = 0
        <5>1. \A i \in 1 .. N : g[i] = g[i - 1] \o s[i]
          BY <1>5
        <5>2. g[1] = g[1 - 1] \o s[1]
          BY <4>1, <5>1
        <5> QED BY <5>2
      <4>4. g[1] = << >> \o s[1]
        BY <1>4, <4>3
      <4> QED BY <4>2, <4>4
    <3> QED BY <3>1
  <2>2. ASSUME NEW n \in Nat, (n + 1) + 1 <= N, flat[n + 1] = g[n + 1]
        PROVE  flat[(n + 1) + 1] = g[(n + 1) + 1]
    <3> HIDE DEF N
    <3>1. (n + 1) + 1 \in 1 .. N /\ ((n + 1) + 1) - 1 = n + 1 /\ (n + 1) + 1 # 1
      BY <1>1, <2>2
    <3>2. flat[(n + 1) + 1] = flat[n + 1] \o s[(n + 1) + 1]
      BY <1>9, <3>1
    <3>3. g[(n + 1) + 1] = g[n + 1] \o s[(n + 1) + 1]
      BY <1>5, <3>1
    <3> QED BY <2>2, <3>2, <3>3
  <2>3. \A n \in Nat : n \in T => n + 1 \in T
    BY <1>1, <2>2
  <2>4. \A n \in Nat : n \in T
    <3> HIDE DEF T
    <3> QED BY <2>1, <2>3, NatSetInduction
  <2> QED BY <2>4
<1>11. FlattenSeq(s) = g[N]
  <2>1. CASE N = 0
    BY <1>4, <1>8, <2>1
  <2>2. CASE N # 0
    <3> HIDE DEF N
    <3>1. N - 1 \in Nat /\ (N - 1) + 1 = N /\ (N - 1) + 1 <= N
      BY <1>1, <2>2
    <3>2. flat[(N - 1) + 1] = g[(N - 1) + 1]
      BY <1>10, <3>1
    <3>3. flat[N] = g[N]
      BY <3>1, <3>2
    <3> QED BY <1>8, <2>2, <3>3 DEF N
  <2> QED BY <2>1, <2>2
<1> QED BY <1>3, <1>4, <1>5, <1>11 DEF Joins

LEMMA FlattenNone == FlattenSeq(<< >>) = << >>
<1>1. << >> \in Seq(Seq({})) /\ Len(<< >>) = 0
  OBVIOUS
<1>2. PICK g : Joins(<< >>, {}, g)
  BY <1>1, FlattenByElement
<1> QED BY <1>1, <1>2 DEF Joins

LEMMA FlattenMore ==
    ASSUME NEW Y, NEW s \in Seq(Seq(Y)), NEW x \in Seq(Y)
    PROVE  FlattenSeq(s) \in Seq(Y) /\ FlattenSeq(Append(s, x)) = FlattenSeq(s) \o x
<1> DEFINE t == Append(s, x)
           n == Len(s)
<1>1. /\ t \in Seq(Seq(Y)) /\ n \in Nat /\ Len(t) = n + 1 /\ t[n + 1] = x
      /\ \A i \in 1 .. n : t[i] = s[i]
  OBVIOUS
<1> HIDE DEF t
<1>2. PICK g : Joins(s, Y, g)
  BY FlattenByElement
<1>3. PICK h : Joins(t, Y, h)
  BY <1>1, FlattenByElement
<1> HIDE DEF n
<1>g. /\ g \in [0 .. n -> Seq(Y)] /\ g[0] = << >> /\ FlattenSeq(s) = g[n]
      /\ \A k \in 1 .. n : g[k] = g[k - 1] \o s[k]
  BY <1>2 DEF Joins, n
<1>h. /\ h[0] = << >> /\ FlattenSeq(t) = h[n + 1]
      /\ \A k \in 1 .. n + 1 : h[k] = h[k - 1] \o t[k]
  BY <1>1, <1>3 DEF Joins
<1>4. g[n] = h[n]
  <2> DEFINE T == {k \in Nat : k <= n => g[k] = h[k]}
  <2>1. 0 \in T
    BY <1>g, <1>h
  <2>2. ASSUME NEW k \in Nat, k + 1 <= n, g[k] = h[k]
        PROVE  g[k + 1] = h[k + 1]
    <3>1. k + 1 \in 1 .. n /\ k + 1 \in 1 .. n + 1 /\ (k + 1) - 1 = k
      BY <1>1, <2>2
    <3>2. g[k + 1] = g[k] \o s[k + 1] /\ h[k + 1] = h[k] \o t[k + 1]
      BY <1>g, <1>h, <3>1
    <3> QED BY <1>1, <2>2, <3>1, <3>2
  <2>3. ASSUME NEW k \in Nat, k \in T
        PROVE  k + 1 \in T
    <3>1. k + 1 <= n => k <= n
      BY <1>1
    <3> QED BY <2>2, <2>3, <3>1
  <2>4. \A k \in Nat : k \in T
    <3> HIDE DEF T
    <3> QED BY <2>1, <2>3, NatSetInduction
  <2> QED BY <1>1, <2>4
<1>5. h[n + 1] = h[n] \o x
  <2>1. n + 1 \in 1 .. n + 1 /\ (n + 1) - 1 = n
    BY <1>1
  <2>2. h[n + 1] = h[(n + 1) - 1] \o t[n + 1]
    BY <1>h, <2>1
  <2> QED BY <1>1, <2>1, <2>2
<1>6. FlattenSeq(s) \in Seq(Y)
  BY <1>1, <1>g
<1>7. FlattenSeq(t) = FlattenSeq(s) \o x
  BY <1>g, <1>h, <1>4, <1>5
<1> QED BY <1>6, <1>7 DEF t

-----------------------------------------------------------------------------
\* Each line that is anywhere is one that has been written.
Known == {m \in Messages : m.type = "output" => m.n <= written[m.of]}

KnownInv ==
    /\ log \in Seq(Known) /\ wire \in Seq(Known)
    /\ receiver = "write" => held \in Known
    /\ \A ch \in Output : pipe[ch] \in Seq(0..written[ch])

LEMMA KnownStaysKnown ==
    ASSUME AgentTypeOK, AgentTypeOK', \A ch \in Channels : written[ch] <= written'[ch]
    PROVE  Known \subseteq Known'
<1> SUFFICES ASSUME NEW m \in Messages, m.type = "output" => m.n <= written[m.of]
             PROVE  m.type = "output" => m.n <= written'[m.of]
  BY DEF Known
<1>1. m.type = "output" => m.of \in Channels /\ m.n \in 1..(Lines + 2)
  BY DEF Messages, DoneMessage
<1>2. ASSUME m.type = "output"
      PROVE  m.n <= written'[m.of]
  <2>1. m.n \in Int /\ written[m.of] \in Int /\ written'[m.of] \in Int
    BY <1>1, <1>2, LinkAssumption DEF AgentTypeOK
  <2> QED BY <1>1, <1>2, <2>1
<1> QED BY <1>2

LEMMA LinesAreKnown ==
    ASSUME NEW ch \in Channels, NEW n \in 1..(Lines + 2), n <= written[ch]
    PROVE  Line(ch, n) \in Known
BY LinesAreMessages DEF Line, Known

LEMMA DonesAreKnown ==
    ASSUME NEW code \in ExitCodes
    PROVE  DoneMessage(code) \in Known
BY DonesAreMessages DEF DoneMessage, Known

LEMMA SeqOfMore ==
    ASSUME NEW X, NEW Y, X \subseteq Y, NEW s \in Seq(X)
    PROVE  s \in Seq(Y)
OBVIOUS

\* A send, after which all that was known still is.
LEMMA SendKeepsKnown ==
    ASSUME KnownInv, Known \subseteq Known', NEW m \in Known', AgentSends(m)
    PROVE  wire' \in Seq(Known')
<1>1. wire \in Seq(Known')
  BY SeqOfMore DEF KnownInv
<1>2. Append(wire, m) \in Seq(Known')
  BY <1>1
<1> QED BY <1>1, <1>2 DEF AgentSends

LEMMA EmitKeepsKnown ==
    ASSUME ShapeInv, KnownInv, AgentTypeOK', written["system"] <= 1, EmitSystem,
           UNCHANGED <<pipe, log, held, receiver>>
    PROVE  KnownInv'
<1>0. LinkTypeOK /\ AgentTypeOK /\ LinesInv
  BY DEF ShapeInv, TypeOK
<1>1. /\ written' \in [Channels -> 0..(Lines + 2)]
      /\ written'["system"] = written["system"] + 1
      /\ written'["stdout"] = written["stdout"]
      /\ written'["stderr"] = written["stderr"]
  BY <1>0, EmitKeeps
<1>2. \A ch \in Channels : written[ch] <= written'[ch]
  BY <1>0, <1>1, LinkAssumption DEF AgentTypeOK, Channels, Output
<1>3. Known \subseteq Known'
  BY <1>0, <1>2, KnownStaysKnown
<1>4. Line("system", written["system"] + 1) \in Known'
  <2>1. "system" \in Channels /\ written["system"] + 1 \in 1..(Lines + 2)
    BY <1>0, LinkAssumption DEF AgentTypeOK, Channels
  <2>2. Line("system", written["system"] + 1) \in Messages
    BY <2>1, LinesAreMessages
  <2> QED BY <1>0, <1>1, <2>1, <2>2 DEF Line, Known
<1>5. wire' \in Seq(Known')
  BY <1>3, <1>4, SendKeepsKnown DEF EmitSystem
<1>6. log' \in Seq(Known') /\ (receiver' = "write" => held' \in Known')
  BY <1>3, SeqOfMore DEF KnownInv
<1>7. \A ch \in Output : pipe'[ch] \in Seq(0..written'[ch])
  BY <1>1 DEF KnownInv, Output
<1> QED BY <1>5, <1>6, <1>7 DEF KnownInv

LEMMA PowerOffKeepsKnown ==
    ASSUME KnownInv, PoweredOff, UNCHANGED <<log, held, receiver>>
    PROVE  KnownInv'
<1>1. PICK n \in 0..Len(wire) : wire' = SubSeq(wire, 1, n)
  BY DEF PoweredOff
<1>2. wire' \in Seq(Known)
  BY <1>1 DEF KnownInv
<1>3. written' = written /\ Known' = Known
  BY DEF PoweredOff, Known
<1>4. \A ch \in Output : pipe'[ch] \in Seq(0..written'[ch])
  BY DEF PoweredOff
<1> QED BY <1>2, <1>3, <1>4 DEF KnownInv

LEMMA SilentKeepsKnown ==
    ASSUME KnownInv, UNCHANGED <<written, pipe, log, wire>>,
           receiver' = "write" => receiver = "write" /\ held' = held
    PROVE  KnownInv'
BY DEF KnownInv, Known

LEMMA AgentKeepsKnown ==
    ASSUME ShapeInv, AgentTypeOK', KnownInv, AgentNext, UNCHANGED streamVars
    PROVE  KnownInv'
<1>0. /\ LinkTypeOK /\ AgentTypeOK /\ LinesInv /\ UNCHANGED <<log, held, receiver>>
  BY DEF ShapeInv, TypeOK, streamVars
<1>1. CASE TakeCommand
  BY <1>0, <1>1, EmitKeepsKnown DEF TakeCommand, AgentAt, LinesInv
<1>2. CASE NothingToRun
  BY <1>0, <1>2, EmitKeepsKnown DEF NothingToRun, AgentAt, LinesInv
<1>3. CASE Reap
  <2>1. CASE UNCHANGED <<linkVars, written>>
    BY <1>0, <1>3, <2>1, SilentKeepsKnown DEF Reap, linkVars
  <2>2. CASE EmitSystem
    BY <1>0, <1>3, <2>2, EmitKeepsKnown DEF Reap, AgentAt, LinesInv
  <2> QED BY <1>3, <2>1, <2>2 DEF Reap
<1>4. CASE NoCommand \/ JobFails \/ StartChild \/ ChildExits \/ Drained \/ CleanUp
  <2>1. UNCHANGED <<written, pipe, wire>>
    BY <1>4 DEF NoCommand, JobFails, StartChild, ChildExits, Drained, CleanUp, linkVars
  <2> QED BY <1>0, <2>1, SilentKeepsKnown
<1>5. CASE Report
  <2>1. DoneMessage(exitCode) \in Known /\ Known' = Known /\ UNCHANGED <<written, pipe>>
    BY <1>0, <1>5, DonesAreKnown DEF AgentTypeOK, Report, Known
  <2>2. wire' \in Seq(Known')
    BY <1>5, <2>1, SendKeepsKnown DEF Report
  <2> QED BY <1>0, <2>1, <2>2 DEF KnownInv
<1>6. CASE PowerOff
  BY <1>0, <1>6, PowerOffKeepsKnown DEF PowerOff
<1>7. ASSUME NEW ch \in Output, ChildWrites(ch)
      PROVE  KnownInv'
  <2>1. PICK line \in {written[ch] + 1} \cup (IF LongLines THEN {Long} ELSE {}) :
            pipe' = [pipe EXCEPT ![ch] = Append(@, line)]
    BY <1>7 DEF ChildWrites
  <2>2. /\ written' = [written EXCEPT ![ch] = @ + 1] /\ UNCHANGED linkVars
        /\ written \in [Channels -> 0..(Lines + 2)] /\ ch \in Channels
        /\ pipe \in [Output -> Seq(0..Lines)]
    BY <1>0, <1>7 DEF ChildWrites, AgentTypeOK, Channels
  <2>3. \A c \in Channels : /\ written[c] \in Nat
                            /\ written'[c] = IF c = ch THEN written[c] + 1 ELSE written[c]
    BY <2>2, LinkAssumption
  <2>4. \A c \in Channels : written[c] <= written'[c]
    BY <2>3
  <2>5. Known \subseteq Known'
    BY <1>0, <2>4, KnownStaysKnown
  <2>6. ASSUME NEW c \in Output
        PROVE  pipe'[c] \in Seq(0..written'[c])
    <3>1. c \in Channels /\ 0..written[c] \subseteq 0..written'[c]
      BY <2>3, <2>4 DEF Channels
    <3>2. pipe[c] \in Seq(0..written'[c])
      BY <3>1, SeqOfMore DEF KnownInv
    <3>3. CASE c = ch
      <4>1. line \in 0..written'[c]
        BY <2>1, <2>2, <2>3, <3>3 DEF Long
      <4>2. pipe'[c] = Append(pipe[c], line)
        BY <2>1, <2>2, <3>3
      <4> QED BY <3>2, <4>1, <4>2
    <3>4. CASE c # ch
      <4>1. pipe'[c] = pipe[c]
        BY <2>1, <2>2, <3>4
      <4> QED BY <3>2, <4>1
    <3> QED BY <3>3, <3>4
  <2>7. wire' \in Seq(Known') /\ log' \in Seq(Known')
    BY <1>0, <2>2, <2>5, SeqOfMore DEF KnownInv, linkVars
  <2>8. receiver' = "write" => held' \in Known'
    BY <1>0, <2>5 DEF KnownInv
  <2> QED BY <2>6, <2>7, <2>8 DEF KnownInv
<1>8. ASSUME NEW ch \in Output, ScanLine(ch)
      PROVE  KnownInv'
  <2>1. /\ pipe[ch] # << >> /\ Head(pipe[ch]) # 0 /\ AgentSends(Line(ch, Head(pipe[ch])))
        /\ pipe' = [pipe EXCEPT ![ch] = Tail(@)] /\ written' = written
    BY <1>8 DEF ScanLine, Long
  <2>2. pipe[ch] \in Seq(0..written[ch]) /\ ch \in Channels /\ written[ch] \in 0..(Lines + 2)
    BY <1>0 DEF KnownInv, Channels, AgentTypeOK
  <2>3. Head(pipe[ch]) \in 0..written[ch] /\ Tail(pipe[ch]) \in Seq(0..written[ch])
    BY <2>1, <2>2, HeadIsMember, TailIsShorter
  <2>4. Head(pipe[ch]) \in 1..(Lines + 2) /\ Head(pipe[ch]) <= written[ch]
    BY <2>1, <2>2, <2>3, LinkAssumption
  <2>5. Line(ch, Head(pipe[ch])) \in Known /\ Known' = Known
    BY <2>1, <2>2, <2>4, LinesAreKnown DEF Known
  <2>6. wire' \in Seq(Known')
    BY <2>1, <2>5, SendKeepsKnown
  <2>7. \A c \in Output : pipe'[c] \in Seq(0..written'[c])
    BY <1>0, <2>1, <2>3 DEF KnownInv, AgentTypeOK
  <2> QED BY <1>0, <2>5, <2>6, <2>7 DEF KnownInv
<1>9. ASSUME NEW ch \in Output, ScannerGivesUp(ch) \/ ScannerEnds(ch)
      PROVE  KnownInv'
  <2>1. UNCHANGED <<written, pipe, wire>>
    BY <1>9 DEF ScannerGivesUp, ScannerEnds, linkVars
  <2> QED BY <1>0, <2>1, SilentKeepsKnown
<1> QED BY <1>1, <1>2, <1>3, <1>4, <1>5, <1>6, <1>7, <1>8, <1>9 DEF AgentNext

LEMMA StreamKeepsKnown ==
    ASSUME KnownInv, StreamNext, UNCHANGED agentVars
    PROVE  KnownInv'
<1>0. UNCHANGED <<written, pipe>> /\ Known' = Known
  BY DEF agentVars, Known
<1>1. CASE Receive
  <2>1. Head(wire) \in Known /\ Tail(wire) \in Seq(Known)
    BY <1>1 DEF Receive, KnownInv
  <2> QED BY <1>0, <1>1, <2>1 DEF Receive, KnownInv
<1>2. CASE WriteLine
  <2>1. held \in Known /\ log \in Seq(Known)
    BY <1>2 DEF WriteLine, KnownInv
  <2>2. log' \in Seq(Known)
    BY <1>2, <2>1 DEF WriteLine
  <2> QED BY <1>0, <1>2, <2>1, <2>2 DEF WriteLine, KnownInv, linkVars
<1>3. CASE ReceiveFails \/ WriteFails \/ AwaitUpload \/ CloseReader \/ WatcherStep
  <2>1. UNCHANGED <<log, wire>> /\ (receiver' = "write" => receiver = "write" /\ held' = held)
    BY <1>3 DEF ReceiveFails, WriteFails, AfterWrite, AwaitUpload, CloseReader, WatcherStep,
       WatcherHangsUp, WatcherEnds, linkVars
  <2> QED BY <1>0, <2>1, SilentKeepsKnown
<1>4. CASE UploadFails \/ UploadEnds
  <2>1. /\ log' = log \/ log' = << >>
        /\ wire' = wire /\ receiver' = receiver /\ held' = held
    BY <1>4 DEF UploadFails, UploadEnds, linkVars
  <2>2. log' \in Seq(Known)
    <3>1. << >> \in Seq(Known) /\ log \in Seq(Known)
      BY DEF KnownInv
    <3> QED BY <2>1, <3>1
  <2> QED BY <1>0, <2>1, <2>2 DEF KnownInv
<1> QED BY <1>1, <1>2, <1>3, <1>4 DEF StreamNext, ReceiverStep, UploaderStep

LEMMA HostKeepsKnown ==
    ASSUME KnownInv, HostStep
    PROVE  KnownInv'
<1>1. CASE \/ PrepareDrive \/ StartMachine \/ StreamReturns \/ RunnerStopped \/ SaveDrive
           \/ DropDrives \/ CancelRun \/ ForgetDrives \/ StopStep \/ GuardStep \/ Expire
  <2>1. UNCHANGED <<agentVars, streamVars, wire>>
    BY <1>1 DEF PrepareDrive, StartMachine, StreamReturns, RunnerStopped, SaveDrive, DropDrives,
       CancelRun, ForgetDrives, StopStep, BeginStop, StopWaits, FreeMachine, GuardStep, GuardWakes,
       GuardEnds, Expire, linkVars
  <2> QED BY <2>1, SilentKeepsKnown DEF agentVars, streamVars
<1>2. CASE Connect \/ SendCommand \/ HangUp
  <2>1. /\ UNCHANGED <<agentVars, wire, log, held>>
        /\ receiver' = receiver \/ receiver' = "receive"
    BY <1>2 DEF Connect, SendCommand, HangUp, StreamBegins, streamVars
  <2> QED BY <2>1, SilentKeepsKnown DEF agentVars
<1>3. CASE MachineExits \/ MachineCrashes
  BY <1>3, PowerOffKeepsKnown DEF MachineExits, MachineCrashes, streamVars
<1> QED BY <1>1, <1>2, <1>3 DEF HostStep, RunnerStep

LEMMA KnownInit == Init => KnownInv
<1>1. << >> \in Seq(Known) /\ \A ch \in Output : << >> \in Seq(0..written[ch])
  OBVIOUS
<1> QED BY <1>1 DEF Init, LinkInit, AgentInit, StreamInit, KnownInv

LEMMA KnownStep == ShapeInv /\ ShapeInv' /\ KnownInv /\ [Next]_vars => KnownInv'
<1> SUFFICES ASSUME ShapeInv, ShapeInv', KnownInv, [Next]_vars
             PROVE  KnownInv'
  OBVIOUS
<1>1. CASE HostStep
  BY <1>1, HostKeepsKnown
<1>2. CASE StreamNext /\ UNCHANGED <<agentVars, runnerVars>>
  BY <1>2, StreamKeepsKnown
<1>3. CASE AgentNext /\ UNCHANGED <<streamVars, runnerVars>>
  <2>1. AgentTypeOK'
    BY DEF ShapeInv, TypeOK
  <2> QED BY <1>3, <2>1, AgentKeepsKnown
<1>4. CASE UNCHANGED vars
  BY <1>4, SilentKeepsKnown DEF vars, agentVars, streamVars, linkVars
<1> QED BY <1>1, <1>2, <1>3, <1>4 DEF Next, HostStep

-----------------------------------------------------------------------------
(***************************************************************************)
(* The reader of the details, message by message.                          *)
(***************************************************************************)
\* Lines of the messages a text is known of, and those of the object.
Told(text) == {m \in Messages : m.type = "output" /\ m.of # "system" => m \in DOMAIN text}
Kepts == {line \in ObjectLines : Kept(line)}

LEMMA StoredOfMessage ==
    ASSUME NEW text \in TextsWritten, NEW m \in Told(text)
    PROVE  /\ StoredLines(m, text) \in Seq(ObjectLines)
           /\ StoredLines(m, text)[1] \in Kepts
           /\ \/ StoredLines(m, text) = << StoredLines(m, text)[1] >>
              \/ StoredLines(m, text) = << StoredLines(m, text)[1], OrphanBrace >>
<1>1. OwnText \in Texts /\ [OwnText EXCEPT !.braces = 1] \in Texts
  <2>1. 0 \in 0..MaxBraces /\ 1 \in 0..MaxBraces
    BY DEF MaxBraces
  <2>2. OwnText \in Texts
    BY <2>1 DEF OwnText, Texts
  <2>3. [OwnText EXCEPT !.braces = 1] \in Texts
    BY <2>1, <2>2 DEF Texts
  <2> QED BY <2>2, <2>3
<1>2. DoneLine \in Kepts /\ OrphanBrace \in ObjectLines
  BY <1>1 DEF DoneLine, OrphanBrace, Kepts, ObjectLines, Kept, Channels, Output
<1>3. \A ch \in Channels, t \in Texts : Opening(ch, t) \in Kepts
  BY DEF Opening, Kepts, ObjectLines, Kept
<1>4. m.type \in {"output", "done"}
  BY DEF Told, Messages, DoneMessage
<1>5. CASE m.type = "done"
  BY <1>2, <1>5 DEF StoredLines, Kepts
<1>6. CASE m.type = "output" /\ m.of = "system"
  <2>1. StoredLines(m, text) = << Opening("system", [OwnText EXCEPT !.braces = 1]) >>
    BY <1>6 DEF StoredLines
  <2>2. Opening("system", [OwnText EXCEPT !.braces = 1]) \in Kepts
    BY <1>1, <1>3 DEF Channels
  <2> QED BY <2>1, <2>2 DEF Kepts
<1>7. CASE m.type = "output" /\ m.of # "system"
  <2>1. StoredLines(m, text) = << Opening(m.of, text[m]), OrphanBrace >>
    BY <1>7 DEF StoredLines
  <2>2. m.of \in Channels /\ m \in DOMAIN text
    BY <1>7 DEF Told, Messages, DoneMessage
  <2>3. text[m] \in Texts
    BY <2>2 DEF TextsWritten
  <2>4. Opening(m.of, text[m]) \in Kepts
    BY <1>3, <2>2, <2>3
  <2> QED BY <1>2, <2>1, <2>4 DEF Kepts
<1> QED BY <1>4, <1>5, <1>6, <1>7

LEMMA PickedOneMore ==
    ASSUME NEW X, NEW S, NEW s \in Seq(X), NEW a \in X, a \in S, NEW b \in X, b \notin S,
           NEW row, row = << a >> \/ row = << a, b >>
    PROVE  s \o row \in Seq(X) /\ Picked(s \o row, S) = Append(Picked(s, S), a)
<1> DEFINE u == Append(s, a)
           t == Append(Picked(s, S), a)
<1>1. u \in Seq(X) /\ Picked(u, S) = t
  BY PickedMore
<1> HIDE DEF u, t
<1>2. Append(u, b) \in Seq(X) /\ Picked(Append(u, b), S) = t
  BY <1>1, PickedMore
<1>3. s \o << a >> = u /\ s \o << a, b >> = Append(u, b)
  BY DEF u
<1> QED BY <1>1, <1>2, <1>3 DEF t

\* The object of a log.
ObjectOf(l, text) == FlattenSeq([i \in DOMAIN l |-> StoredLines(l[i], text)])
First(m, text) == StoredLines(m, text)[1]

\* One line is kept of each message.
LEMMA KeptOfLog ==
    ASSUME NEW text \in TextsWritten, NEW l \in Seq(Told(text))
    PROVE  /\ ObjectOf(l, text) \in Seq(ObjectLines)
           /\ Picked(ObjectOf(l, text), Kepts) = [i \in 1..Len(l) |-> First(l[i], text)]
<1> DEFINE X == Told(text)
           Y == ObjectLines
           Obj(s) == ObjectOf(s, text)
           Fst(m) == First(m, text)
           Firsts(s) == [i \in 1..Len(s) |-> Fst(s[i])]
           S == {s \in Seq(X) : Obj(s) \in Seq(Y) /\ Picked(Obj(s), Kepts) = Firsts(s)}
<1>1. << >> \in S
  <2>1. /\ DOMAIN << >> = {} /\ [i \in {} |-> StoredLines(<< >>[i], text)] = << >>
        /\ << >> \in Seq(X) /\ << >> \in Seq(Y) /\ Firsts(<< >>) = << >>
    OBVIOUS
  <2>2. Obj(<< >>) = << >>
    BY <2>1, FlattenNone DEF ObjectOf
  <2> HIDE DEF Obj, Firsts
  <2> QED BY <2>1, <2>2, PickedNone
<1>2. ASSUME NEW s \in Seq(X), NEW m \in X, s \in S
      PROVE  Append(s, m) \in S
  <2> DEFINE Lines2(u) == [i \in DOMAIN u |-> StoredLines(u[i], text)]
             rows == Lines2(s)
             row == StoredLines(m, text)
             long == Append(s, m)
  <2>1. row \in Seq(Y) /\ row[1] \in Kepts /\ (row = << row[1] >> \/ row = << row[1], OrphanBrace >>)
    BY StoredOfMessage
  <2>2. rows \in Seq(Seq(Y))
    <3>1. \A i \in 1..Len(s) : s[i] \in X
      OBVIOUS
    <3>2. \A i \in 1..Len(s) : StoredLines(s[i], text) \in Seq(Y)
      BY <3>1, StoredOfMessage
    <3> QED BY <3>2
  <2>3. Lines2(long) = Append(rows, row)
    <3> HIDE DEF Y
    <3>1. long \in Seq(X) /\ DOMAIN long = 1..Len(s) + 1 /\ long[Len(s) + 1] = m
          /\ \A i \in 1..Len(s) : long[i] = s[i]
      OBVIOUS
    <3>2. DOMAIN rows = 1..Len(s) /\ Len(rows) = Len(s)
      BY <2>2
    <3>3. Append(rows, row) = [i \in 1..Len(s) + 1 |-> IF i = Len(s) + 1 THEN row ELSE rows[i]]
      BY <2>2, <3>2
    <3>4. \A i \in 1..Len(s) + 1 :
            StoredLines(long[i], text) = IF i = Len(s) + 1 THEN row ELSE rows[i]
      BY <3>1
    <3> HIDE DEF long, rows, row
    <3> QED BY <3>1, <3>3, <3>4
  <2>4. FlattenSeq(rows) \in Seq(Y) /\ Obj(long) = FlattenSeq(rows) \o row
    <3> HIDE DEF rows, row, Y, long
    <3> QED BY <2>1, <2>2, <2>3, FlattenMore DEF ObjectOf
  <2>5. Obj(s) = FlattenSeq(rows)
    BY DEF ObjectOf
  <2> HIDE DEF rows, row, Lines2, Obj
  <2>6. Obj(s) \in Seq(Y) /\ row[1] \in Y /\ Picked(Obj(s), Kepts) = Firsts(s)
    BY <1>2, <2>1 DEF Kepts
  <2>7. OrphanBrace \in Y /\ OrphanBrace \notin Kepts
    <3>1. OwnText \in Texts
      BY DEF OwnText, Texts, MaxBraces
    <3> QED BY <3>1 DEF OrphanBrace, Kepts, Kept, ObjectLines, Channels, Output
  <2>11. Obj(long) \in Seq(Y) /\ Picked(Obj(long), Kepts) = Append(Firsts(s), row[1])
    <3> HIDE DEF Y, Firsts, long
    <3>1. Obj(long) = Obj(s) \o row
      BY <2>4, <2>5
    <3>2. Obj(s) \o row \in Seq(Y) /\ Picked(Obj(s) \o row, Kepts) = Append(Picked(Obj(s), Kepts), row[1])
      BY <2>1, <2>6, <2>7, PickedOneMore
    <3> QED BY <2>6, <3>1, <3>2
  <2>12. Append(Firsts(s), row[1]) = Firsts(long)
    <3>1. row[1] = Fst(m)
      BY DEF row, First
    <3>2. long \in Seq(X) /\ Len(long) = Len(s) + 1 /\ long[Len(s) + 1] = m
          /\ \A i \in 1..Len(s) : long[i] = s[i]
      OBVIOUS
    <3> HIDE DEF Fst, long
    <3>3. Append(Firsts(s), Fst(m)) = [i \in 1..Len(s) + 1 |-> IF i = Len(s) + 1 THEN Fst(m)
                                                               ELSE Fst(s[i])]
      OBVIOUS
    <3> QED BY <3>1, <3>2, <3>3
  <2>13. long \in Seq(X)
    OBVIOUS
  <2> HIDE DEF Firsts, Fst, long
  <2>14. long \in S
    BY <2>11, <2>12, <2>13
  <2> QED BY <2>14 DEF long
<1>3. l \in S
  <2> HIDE DEF S
  <2> QED BY <1>1, <1>2, SequencesGrow
<1> QED BY <1>3

-----------------------------------------------------------------------------
\* What is shown of a message, and which messages are shown as an output.
ShownOf(m, text) == Shown(First(m, text))
NotDone(text) == {m \in DOMAIN text : ~text[m].done}
Say(m, ch, text) ==
    [stream |-> ch, finished |-> FALSE,
     braces |-> IF text[m].braces = 0 THEN 0 ELSE text[m].braces - 1]

Says(said, ch, text) == [i \in DOMAIN said |-> Say(said[i], ch, text)]
Shows(l, text) == [i \in 1..Len(l) |-> ShownOf(l[i], text)]

LEMMA ShownOfMessage ==
    ASSUME NEW text \in TextsWritten, NEW m \in Told(text), NEW ch \in Output
    PROVE  /\ m.type = "done" => ShownOf(m, text).finished
           /\ ShownOf(m, text).stream = ch <=> m \in OutputsOf(ch) /\ m \in NotDone(text)
           /\ m \in OutputsOf(ch) /\ m \in NotDone(text) => ShownOf(m, text) = Say(m, ch, text)
<1>0. m \in Messages /\ m.type \in {"output", "done"} /\ ch # "system"
  BY DEF Told, Messages, DoneMessage, Output
<1>1. CASE m.type = "done"
  <2>1. First(m, text) = DoneLine
    BY <1>1 DEF First, StoredLines
  <2>2. ShownOf(m, text) = [stream |-> "system", finished |-> TRUE, braces |-> 0]
    BY <2>1 DEF ShownOf, Shown, DoneLine
  <2> QED BY <1>0, <1>1, <2>2 DEF OutputsOf
<1>2. CASE m.type = "output" /\ m.of = "system"
  <2>1. First(m, text) = Opening("system", [OwnText EXCEPT !.braces = 1])
    BY <1>2 DEF First, StoredLines
  <2>2. ShownOf(m, text).stream = "system"
    BY <2>1 DEF ShownOf, Shown, Opening
  <2> QED BY <1>0, <1>2, <2>2 DEF OutputsOf
<1>3. CASE m.type = "output" /\ m.of # "system"
  <2>1. First(m, text) = Opening(m.of, text[m])
    BY <1>3 DEF First, StoredLines
  <2>2. ShownOf(m, text) =
          IF text[m].done THEN [stream |-> "system", finished |-> TRUE, braces |-> 0]
          ELSE Say(m, m.of, text)
    BY <2>1 DEF ShownOf, Shown, Opening, Say
  <2>3. m \in NotDone(text) <=> ~text[m].done
    BY <1>3 DEF Told, NotDone
  <2>4. m \in OutputsOf(ch) <=> m.of = ch
    BY <1>0, <1>3 DEF OutputsOf
  <2>5. CASE text[m].done
    BY <1>0, <1>3, <2>2, <2>3, <2>5
  <2>6. CASE ~text[m].done
    <3>1. ShownOf(m, text) = Say(m, m.of, text)
      BY <2>2, <2>6
    <3>2. ShownOf(m, text).stream = m.of
      BY <3>1 DEF Say
    <3>3. m.of = ch => ShownOf(m, text) = Say(m, ch, text)
      BY <3>1
    <3> QED BY <1>3, <2>3, <2>4, <2>6, <3>2, <3>3
  <2> QED BY <2>5, <2>6
<1> QED BY <1>0, <1>1, <1>2, <1>3

LEMMA PickedTwice ==
    ASSUME NEW X, NEW s \in Seq(X), NEW m \in X, NEW A, NEW B, NEW q, q = Picked(Picked(s, A), B)
    PROVE  /\ q \in Seq(X)
           /\ m \in A /\ m \in B => Picked(Picked(Append(s, m), A), B) = Append(q, m)
           /\ ~ (m \in A /\ m \in B) => Picked(Picked(Append(s, m), A), B) = q
<1> DEFINE p == Picked(s, A)
           t == Picked(Append(s, m), A)
<1>1. p \in Seq(X) /\ t = IF m \in A THEN Append(p, m) ELSE p
  BY PickedMore
<1> HIDE DEF p, t
<1>2. Picked(p, B) \in Seq(X) /\ Picked(Append(p, m), B) = IF m \in B THEN Append(Picked(p, B), m)
                                                           ELSE Picked(p, B)
  BY <1>1, PickedMore
<1>3. q = Picked(p, B) /\ Picked(Picked(Append(s, m), A), B) = Picked(t, B)
  BY DEF p, t
<1> QED BY <1>1, <1>2, <1>3

\* What is shown as an output are the lines of its messages, in their order.
LEMMA ShownInOrder ==
    ASSUME NEW text \in TextsWritten, NEW ch \in Output, NEW D,
           NEW X, X = {m \in Told(text) : ShownOf(m, text) \in D}, NEW l \in Seq(X)
    PROVE  Picked(Shows(l, text), {z \in D : z.stream = ch}) =
             Says(Picked(Picked(l, OutputsOf(ch)), NotDone(text)), ch, text)
<1> USE DEF Shows, Says
<1> DEFINE A == OutputsOf(ch)
           B == NotDone(text)
           Z == {z \in D : z.stream = ch}
           Said(s) == Picked(Picked(s, A), B)
           SaysOf(q) == Says(q, ch, text)
           Sh(s) == Shows(s, text)
           S == {s \in Seq(X) : Picked(Sh(s), Z) = SaysOf(Said(s))}
<1>1. << >> \in S
  <2>1. Sh(<< >>) = << >> /\ SaysOf(<< >>) = << >> /\ << >> \in Seq(X)
    OBVIOUS
  <2>2. Said(<< >>) = << >>
    BY PickedNone
  <2>3. Picked(<< >>, Z) = << >>
    BY PickedNone
  <2> HIDE DEF Z, Said, SaysOf, Sh
  <2> QED BY <2>1, <2>2, <2>3
<1>2. ASSUME NEW s \in Seq(X), NEW m \in X, s \in S
      PROVE  Append(s, m) \in S
  <2> DEFINE q == Said(s)
             z == ShownOf(m, text)
             v == Sh(s)
             w == Picked(v, Z)
             long == Append(s, m)
  <2>1. /\ z \in D /\ (z \in Z <=> m \in A /\ m \in B)
        /\ m \in A /\ m \in B => z = Say(m, ch, text)
    <3>1. m \in Told(text) /\ ShownOf(m, text) \in D
      OBVIOUS
    <3> QED BY <3>1, ShownOfMessage
  <2>2. v \in Seq(D)
    <3>1. \A i \in 1..Len(s) : s[i] \in X
      OBVIOUS
    <3>2. \A i \in 1..Len(s) : ShownOf(s[i], text) \in D
      BY <3>1
    <3> QED BY <3>2
  <2>3. Sh(long) = Append(v, z)
    <3>1. long \in Seq(X) /\ Len(long) = Len(s) + 1 /\ long[Len(s) + 1] = m
          /\ \A i \in 1..Len(s) : long[i] = s[i]
      OBVIOUS
    <3> HIDE DEF z, long
    <3>2. Append(v, z) = [i \in 1..Len(s) + 1 |-> IF i = Len(s) + 1 THEN z ELSE ShownOf(s[i], text)]
      OBVIOUS
    <3>3. \A i \in 1..Len(s) + 1 :
            ShownOf(long[i], text) = IF i = Len(s) + 1 THEN z ELSE ShownOf(s[i], text)
      BY <3>1 DEF z
    <3> QED BY <3>1, <3>2, <3>3
  <2>4. w = SaysOf(q)
    BY <1>2
  <2>5. Picked(Append(v, z), Z) = IF z \in Z THEN Append(w, z) ELSE w
    <3> HIDE DEF v, z, Z
    <3> QED BY <2>1, <2>2, PickedMore DEF w
  <2>6. /\ q \in Seq(X)
        /\ m \in A /\ m \in B => Said(long) = Append(q, m)
        /\ ~ (m \in A /\ m \in B) => Said(long) = q
    <3> HIDE DEF A, B
    <3> QED BY PickedTwice
  <2>7. long \in Seq(X)
    OBVIOUS
  <2>8. SaysOf(Append(q, m)) = Append(SaysOf(q), Say(m, ch, text))
    <3> HIDE DEF q
    <3>1. /\ DOMAIN q = 1..Len(q) /\ Len(q) \in Nat
          /\ DOMAIN Append(q, m) = 1..Len(q) + 1 /\ Append(q, m)[Len(q) + 1] = m
          /\ \A i \in 1..Len(q) : Append(q, m)[i] = q[i]
      BY <2>6
    <3>2. Append(SaysOf(q), Say(m, ch, text)) =
            [i \in 1..Len(q) + 1 |-> IF i = Len(q) + 1 THEN Say(m, ch, text)
                                     ELSE Say(q[i], ch, text)]
      BY <3>1
    <3> DEFINE r == Append(q, m)
    <3> HIDE DEF r
    <3>3. \A i \in 1..Len(q) + 1 :
            Say(r[i], ch, text) = IF i = Len(q) + 1 THEN Say(m, ch, text) ELSE Say(q[i], ch, text)
      BY <3>1 DEF r
    <3> QED BY <3>1, <3>2, <3>3 DEF r
  <2>9. Picked(Sh(long), Z) = SaysOf(Said(long))
    <3> HIDE DEF Sh, SaysOf, Said, Z, A, B, long, q, w, z, v
    <3>1. CASE m \in A /\ m \in B
      <4>1. Picked(Sh(long), Z) = Append(SaysOf(q), z)
        BY <2>1, <2>3, <2>4, <2>5, <3>1
      <4>2. SaysOf(Said(long)) = Append(SaysOf(q), z)
        BY <2>1, <2>6, <2>8, <3>1
      <4> QED BY <4>1, <4>2
    <3>2. CASE ~ (m \in A /\ m \in B)
      BY <2>1, <2>3, <2>4, <2>5, <2>6, <3>2
    <3> QED BY <3>1, <3>2
  <2> HIDE DEF Sh, SaysOf, Said, Z, long
  <2>10. long \in S
    BY <2>7, <2>9
  <2> QED BY <2>10 DEF long
<1>3. l \in S
  <2> HIDE DEF S
  <2> QED BY <1>1, <1>2, SequencesGrow
<1> QED BY <1>3

-----------------------------------------------------------------------------
\* The lines of the log are those of which there is a text.
LEMMA LogIsTold ==
    ASSUME ShapeInv, KnownInv, NEW text \in TextsWritten
    PROVE  Known \subseteq Told(text) /\ log \in Seq(Told(text))
<1>0. AgentTypeOK /\ LinesInv
  BY DEF ShapeInv, TypeOK
<1>1. \A ch \in Output : written[ch] \in Nat /\ written[ch] <= Lines
  <2>1. /\ written["stdout"] \in Nat /\ written["stderr"] \in Nat
        /\ written["stdout"] + written["stderr"] <= Lines
    BY <1>0 DEF AgentTypeOK, LinesInv, Channels, Output
  <2>2. written["stdout"] <= Lines /\ written["stderr"] <= Lines
    BY <2>1, LinkAssumption
  <2> QED BY <2>1, <2>2 DEF Output
<1>2. ASSUME NEW m \in Known, m.type = "output", m.of # "system"
      PROVE  m \in DOMAIN text
  <2>1. /\ m.of \in Output /\ m.n \in 1..(Lines + 2) /\ m.n <= written[m.of]
        /\ m = [type |-> "output", of |-> m.of, n |-> m.n]
    BY <1>2 DEF Known, Messages, DoneMessage, Channels
  <2>2. m = Line(m.of, m.n)
    BY <2>1 DEF Line
  <2>3. m.n \in 1..Lines
    BY <1>1, <2>1, LinkAssumption
  <2>4. m \in WrittenLines
    BY <2>1, <2>2, <2>3 DEF WrittenLines
  <2>5. DOMAIN text = {l \in WrittenLines : l.n <= written[l.of]}
    BY DEF TextsWritten
  <2> QED BY <2>1, <2>4, <2>5
<1>3. Known \subseteq Told(text)
  BY <1>2 DEF Known, Told
<1> QED BY <1>3, SeqOfMore DEF KnownInv

\* What the reader returns: one line for each message.
LEMMA LogLinesOfMessages ==
    ASSUME NEW text \in TextsWritten, log \in Seq(Told(text))
    PROVE  LogLines(text) = [i \in 1..Len(log) |-> ShownOf(log[i], text)]
<1>1. Object(text) = ObjectOf(log, text)
  BY DEF Object, ObjectOf
<1>2. Picked(ObjectOf(log, text), Kepts) = [i \in 1..Len(log) |-> First(log[i], text)]
  BY KeptOfLog
<1> DEFINE kept == [i \in 1..Len(log) |-> First(log[i], text)]
<1>3. LogLines(text) = [i \in DOMAIN kept |-> Shown(kept[i])]
  BY <1>1, <1>2 DEF LogLines, Kepts
<1>4. DOMAIN kept = 1..Len(log)
  OBVIOUS
<1> QED BY <1>3, <1>4 DEF ShownOf

LEMMA DetailsAreWhole ==
    ASSUME ShapeInv, FullInv, KnownInv, outcome \in {"ok", "userError"},
           NEW text \in TextsWritten
    PROVE  LET shown == LogLines(text)
           IN  /\ Last(shown).finished
               /\ \A ch \in Output : CutShort(ch) \/ ShownAs(shown, ch) = Promised(ch, text)
<1> DEFINE shown == LogLines(text)
<1>1. log \in Seq(Told(text))
  BY LogIsTold
<1>2. shown = [i \in 1..Len(log) |-> ShownOf(log[i], text)]
  BY <1>1, LogLinesOfMessages
<1>3. /\ log # << >> /\ log[Len(log)].type = "done"
      /\ \A ch \in Channels : CutShort(ch) \/ LinesOf(ch) = AllLines(ch)
  BY GoodLog
<1> HIDE DEF shown
<1>4. Last(shown).finished
  <2>1. Len(log) \in 1..Len(log) /\ log[Len(log)] \in Told(text) /\ Len(shown) = Len(log)
    BY <1>1, <1>2, <1>3
  <2>2. Last(shown) = ShownOf(log[Len(log)], text)
    BY <1>2, <2>1 DEF Last
  <2>3. "stdout" \in Output
    BY DEF Output
  <2> QED BY <1>3, <2>1, <2>2, <2>3, ShownOfMessage
<1>5. ASSUME NEW ch \in Output, ~CutShort(ch)
      PROVE  ShownAs(shown, ch) = Promised(ch, text)
  <2> DEFINE D == ToSet(shown)
             X == {m \in Told(text) : ShownOf(m, text) \in D}
             said == Picked(Picked(log, OutputsOf(ch)), NotDone(text))
  <2>1. log \in Seq(X)
    <3>1. \A i \in 1..Len(log) : log[i] \in Told(text) /\ ShownOf(log[i], text) \in D
      BY <1>1, <1>2 DEF ToSet
    <3> QED BY <1>1, <3>1
  <2> HIDE DEF D, X
  <2>2. Picked(shown, {z \in D : z.stream = ch}) = [i \in DOMAIN said |-> Say(said[i], ch, text)]
    <3>1. X = {m \in Told(text) : ShownOf(m, text) \in D}
      BY DEF X
    <3>2. Picked(Shows(log, text), {z \in D : z.stream = ch}) =
            Says(Picked(Picked(log, OutputsOf(ch)), NotDone(text)), ch, text)
      BY <2>1, <3>1, ShownInOrder
    <3> QED BY <1>2, <3>2 DEF Shows, Says
  <2>3. ShownAs(shown, ch) = Picked(shown, {z \in D : z.stream = ch})
    BY DEF ShownAs, D
  <2>4. said = Picked(AllLines(ch), {m \in DOMAIN text : ~text[m].done})
    <3>1. Picked(log, OutputsOf(ch)) = AllLines(ch)
      BY <1>3, <1>5 DEF LinesOf, Channels
    <3> QED BY <3>1 DEF NotDone
  <2>5. Promised(ch, text) = [i \in DOMAIN said |-> Say(said[i], ch, text)]
    <3> HIDE DEF said
    <3> QED BY <2>4, Zenon DEF Promised, Say
  <2> QED BY <2>2, <2>3, <2>5
<1> QED BY <1>4, <1>5 DEF shown

(***************************************************************************)
(* A log that is returned as good is full, and the details of an execution *)
(* show every line of it: each written line in its order under its output, *)
(* whatever it says, and last the one on the end (vm/logs.go:53-91,        *)
(* server/invocations/logs.go:36-94).                                      *)
(***************************************************************************)
THEOREM DetailsShowTheLog == Spec => []DetailsTellAll
<1> DEFINE Inv == ShapeInv /\ FinalInv /\ FullInv /\ KnownInv
<1>1. Init => Inv
  BY ShapeInit, FinalInit, FullInit, KnownInit
<1>2. Inv /\ [Next]_vars => Inv'
  BY ShapeStep, FinalStep, FullStep, KnownStep DEF FinalInv
<1>3. Inv => DetailsTellAll
  <2> SUFFICES ASSUME Inv
               PROVE  DetailsTellAll
    OBVIOUS
  <2>1. LogIsFull
    BY GoodLog DEF LogIsFull
  <2>2. outcome = "ok" => \A text \in TextsWritten :
          LET shown == LogLines(text)
          IN  /\ Last(shown).finished
              /\ \A ch \in Output : CutShort(ch) \/ ShownAs(shown, ch) = Promised(ch, text)
    BY DetailsAreWhole
  <2> QED BY <2>1, <2>2 DEF DetailsTellAll
<1> QED BY <1>1, <1>2, <1>3, PTL DEF Spec
=============================================================================
