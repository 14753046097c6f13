------------------------- MODULE RestorePipeProofs -------------------------
(***************************************************************************)
(* Theorems about RestorePipe, for any number of downloads and files and   *)
(* any capacity of the pipe: the types, the removal of the temporary       *)
(* directory, what a success means, and that the buffers and the pipe      *)
(* implement Download.                                                     *)
(***************************************************************************)
EXTENDS RestorePipe, TLAPS

Before   == {"idle", "asked", "logged", "piped"}     \* the child is not forked yet
Reading  == {"piped", "forked", "header", "stream"}  \* the server has the read end
Finished == {"cleanup", "exited"}                    \* the archive will not grow

\* Where the child may be while the thread is where it is.
Control(k) ==
    /\ thread[k] \in Before => child[k].pc = "none"
    /\ child[k].pc = "none" => thread[k] \in Before \cup {"refused"}
    /\ thread[k] = "refused" => child[k].pc \in Finished \cup {"none"}
    /\ thread[k] \in {"wait", "done"} /\ ~cut[k] => child[k].pc \in Finished
    /\ cut[k] => thread[k] \in {"wait", "done"}

\* Who holds the ends of the pipe.
Ends(k) ==
    /\ thread[k] \in Reading => Server \in readers[k]
    /\ thread[k] = "piped" => Server \in writers[k]
    /\ child[k].pc \in {"start", "run", "finally"} => k \in writers[k]

\* What the status line says of the archive.
Status(k) ==
    /\ child[k].pc = "none" => ~child[k].open /\ ~child[k].killed
    /\ ~child[k].open => child[k].archive = <<>> /\ ~child[k].told
    /\ thread[k] \in {"forked", "header"} /\ child[k].told => header[k] = "ok"
    /\ header[k] = "fail" => ~child[k].open /\ child[k].pc \in Finished
    /\ child[k].killed => child[k].pc = "exited"

\* What was sent, what is in the pipe and what is still in the buffers of the child
\* are the archive; nothing of it stays in the buffers of a child that closed it.
InOrder(k) ==
    /\ thread[k] # "refused" /\ ~cut[k] =>
         child[k].archive = body[k] \o (pipe[k] \o child[k].buffer)
    /\ child[k].pc \in Finished /\ ~child[k].killed /\ ~cut[k] =>
         child[k].buffer = <<>> /\ (child[k].open => child[k].told)
    /\ thread[k] \in {"wait", "done"} /\ ~cut[k] => pipe[k] = <<>>

Removal(k) ==
    /\ child[k].pc \in {"none", "start"} => ~tmp[k] /\ ~child[k].open /\ child[k].buffer = <<>>
    /\ LeftBehind(k) => cut[k] \/ child[k].killed

Inv(k) == Control(k) /\ Ends(k) /\ Status(k) /\ InOrder(k) /\ Removal(k)

IInv == TypeOK /\ \A k \in Restores : Inv(k)

USE DEF ends

LEMMA Constants ==
    /\ MaxFiles \in Nat /\ MaxFaults \in Nat
    /\ Server \notin Restores
    /\ Asked \in [Restores -> SUBSET (BOOLEAN \X {"none", "tar", "zip", "raw"})]
BY BoundsAssumption, ServerAssumption, AskedAssumption
   DEF BoundsAssumption, ServerAssumption, AskedAssumption

-----------------------------------------------------------------------------
(***************************************************************************)
(* Types                                                                   *)
(***************************************************************************)
\* The fields of the child, for provers that do not look into its record.
LEMMA ChildFields ==
    ASSUME TypeOK, NEW k \in Restores
    PROVE  /\ child[k] \in Child
           /\ child[k].pc \in ChildStates /\ child[k].kind \in Kinds
           /\ child[k].files \in 0..MaxFiles /\ child[k].handled \in 0..MaxFiles
           /\ child[k].open \in BOOLEAN /\ child[k].told \in BOOLEAN
           /\ child[k].archive \in Seq(File) /\ child[k].buffer \in Seq(File)
           /\ child[k].code \in {0, 1, CUST_EXIT_CODE} /\ child[k].killed \in BOOLEAN
           /\ log[k].lines \in 0..MaxFiles /\ log[k].end \in {"running", "ok", "failed"}
BY DEF TypeOK, Child

\* A line that is ready is one of at most MaxFiles lines.
LEMMA NextIsFile ==
    ASSUME TypeOK, NEW k \in Restores, LineReady(k)
    PROVE  NextFile(k) \in File /\ child[k].handled + 1 \in 0..MaxFiles
<1>1. child[k].handled \in 0..MaxFiles /\ log[k].lines \in 0..MaxFiles
  BY ChildFields
<1>2. child[k].handled < log[k].lines
  BY <1>1, Constants DEF LineReady
<1>3. child[k].handled + 1 \in 1..MaxFiles
  BY <1>1, <1>2, Constants
<1>4. (child[k].handled + 1 < log[k].lines \/ log[k].end = "ok") \in BOOLEAN
  OBVIOUS
<1>5. NextFile(k) \in (1..MaxFiles) \X BOOLEAN
  BY <1>3, <1>4, Zenon DEF NextFile
<1> QED BY <1>3, <1>5, Constants DEF File

\* Every action leaves a child that is one.
LEMMA ChildStep ==
    ASSUME TypeOK, Next
    PROVE  child' \in [Restores -> Child]
<1> SUFFICES ASSUME NEW k \in Restores,
                    \/ Request(k) \/ NotRestorable(k)
                    \/ \E a \in Asked[k] : Pipe(k, a[1], a[2])
                    \/ Serve(k) \/ Disconnect(k) \/ Work(k) \/ RdiffBackup(k) \/ Fault(k)
             PROVE  child' \in [Restores -> Child]
  BY DEF Next
<1>0. child \in [Restores -> Child] /\ child[k] \in Child
  BY DEF TypeOK
<1>1. SUFFICES ASSUME child' # child
               PROVE  \E c \in Child : child' = [child EXCEPT ![k] = c]
  BY <1>0
<1>2. CASE \E a \in Asked[k] : Pipe(k, a[1], a[2])
  <2>1. PICK a \in Asked[k] : Pipe(k, a[1], a[2])
    BY <1>2
  <2>2. a[1] \in BOOLEAN /\ a[2] \in {"none", "tar", "zip", "raw"}
    BY Constants
  <2>3. ArchiveKind(a[1], a[2]) \in Kinds
    BY <2>2 DEF ArchiveKind, Kinds
  <2>4. (IF a[1] \/ MaxFiles = 0 THEN MaxFiles ELSE 1) \in 0..MaxFiles
    BY Constants
  <2> DEFINE c == [child[k] EXCEPT !.kind = ArchiveKind(a[1], a[2]),
                                   !.files = IF a[1] \/ MaxFiles = 0 THEN MaxFiles ELSE 1]
  <2>5. c \in Child
    BY <1>0, <2>3, <2>4 DEF Child
  <2>6. child' = [child EXCEPT ![k] = c]
    BY <1>0, <2>1 DEF Pipe, Child
  <2> QED BY <2>5, <2>6
<1>3. CASE Fork(k) \/ ChildStart(k)
  <2> DEFINE c == [child[k] EXCEPT !.pc = IF Fork(k) THEN "start" ELSE "run"]
  <2>1. c \in Child /\ child' = [child EXCEPT ![k] = c]
    BY <1>0, <1>3 DEF Fork, ChildStart, Goto, ChildAt, Child, ChildStates, TypeOK
  <2> QED BY <2>1
<1>4. CASE MkdtempFails(k) \/ CloseRaises(k) \/ CleanUp(k) \/ Kill(k)
  <2>1. PICK c \in Child : Exit(k, c)
    BY <1>0, <1>4 DEF MkdtempFails, CloseRaises, CleanUp, Kill, Child
  <2>2. [c EXCEPT !.pc = "exited"] \in Child
    BY DEF Child, ChildStates
  <2> QED BY <2>1, <2>2 DEF Exit
<1>5. CASE IgnoreLine(k) \/ LeaveOut(k) \/ AddToBrokenPipe(k) \/ AddFile(k)
  <2>1. NextFile(k) \in File /\ child[k].handled + 1 \in 0..MaxFiles
    BY <1>5, NextIsFile DEF IgnoreLine, LeaveOut, AddToBrokenPipe, AddFile
  <2>2. /\ Append(child[k].archive, NextFile(k)) \in Seq(File)
        /\ Append(child[k].buffer, NextFile(k)) \in Seq(File)
    BY <2>1, ChildFields
  <2> DEFINE c == [child[k] EXCEPT !.handled = @ + 1,
                                   !.open = IF IgnoreLine(k) THEN @ ELSE TRUE,
                                   !.archive = IF AddFile(k) THEN Append(@, NextFile(k)) ELSE @,
                                   !.buffer = IF AddFile(k) THEN Append(@, NextFile(k)) ELSE @]
  <2>3. c \in Child
    BY <1>0, <2>1, <2>2 DEF Child
  <2> HIDE DEF c
  <2>4. CASE IgnoreLine(k)
    BY <1>0, <2>4, <2>1 DEF IgnoreLine, Child
  <2>5. CASE LeaveOut(k) \/ AddToBrokenPipe(k)
    BY <1>0, <2>5, <2>1 DEF LeaveOut, AddToBrokenPipe, Child
  <2>6. CASE AddFile(k)
    BY <1>0, <2>6, <2>1, <2>2 DEF AddFile, Child
  <2> QED BY <1>5, <2>4, <2>5, <2>6
<1>6. CASE LookupRaises(k) \/ EndOfLog(k) \/ CloseArchive(k)
  <2>1. ReturnCode(k) \in {0, 1, CUST_EXIT_CODE}
    BY DEF ReturnCode
  <2>2. CASE LookupRaises(k)
    BY <1>0, <2>2 DEF LookupRaises, Child, ChildStates
  <2>3. CASE EndOfLog(k)
    BY <1>0, <2>1, <2>3 DEF EndOfLog, Child, ChildStates
  <2>4. CASE CloseArchive(k)
    BY <1>0, <2>4 DEF CloseArchive, LeaveFinally, Child, ChildStates
  <2> QED BY <1>6, <2>2, <2>3, <2>4
<1>9. CASE SendHeader(k) \/ Drain(k)
  <2>1. CASE SendHeader(k)
    BY <1>0, <2>1 DEF SendHeader, Child
  <2>2. CASE Drain(k)
    <3>1. child[k].buffer \in Seq(File) /\ child[k].buffer # <<>>
      BY <2>2, ChildFields DEF Drain
    <3>2. Tail(child[k].buffer) \in Seq(File)
      BY <3>1
    <3> QED BY <1>0, <2>2, <3>2 DEF Drain, Child
  <2> QED BY <1>9, <2>1, <2>2
<1>7. CASE UNCHANGED child
  BY <1>1, <1>7
<1>8. Request(k) \/ NotRestorable(k) \/ Disconnect(k) \/ LogRestore(k) \/ LogRestoreFails(k)
        \/ CloseWriter(k) \/ ReadOk(k) \/ ReadFail(k) \/ SendChunk(k) \/ EndOfStream(k)
        \/ WaitChild(k) \/ RdiffBackup(k) \/ RestoreFails(k)
        => UNCHANGED child
  BY DEF Request, NotRestorable, Refuse, Disconnect, LogRestore, LogRestoreFails, CloseWriter,
         ReadOk, ReadFail, SendChunk, EndOfStream, WaitChild, RdiffBackup, LogLine, EndRestore,
         RestoreFails
<1> QED
  BY <1>2, <1>3, <1>4, <1>5, <1>6, <1>7, <1>8, <1>9 DEF Serve, Work, Fault

\* Everything an action may be, but for the child.
LEMMA TypeStep ==
    ASSUME TypeOK, [Next]_vars
    PROVE  TypeOK'
<1>1. CASE UNCHANGED vars
  BY <1>1 DEF TypeOK, vars, Child, File, Processes
<1>2. CASE Next
  <2>1. child' \in [Restores -> Child]
    BY <1>2, ChildStep
  <2> SUFFICES ASSUME NEW k \in Restores,
                      \/ Request(k) \/ NotRestorable(k)
                      \/ \E a \in Asked[k] : Pipe(k, a[1], a[2])
                      \/ Serve(k) \/ Disconnect(k) \/ Work(k) \/ RdiffBackup(k) \/ Fault(k)
               PROVE  TypeOK'
    BY <1>2 DEF Next
  <2> DEFINE Actors == SUBSET Processes
  <2>2. k \in Processes /\ Server \in Processes
    BY DEF Processes
  <2>3. \A c : Exit(k, c) => readers' \in [Restores -> Actors] /\ writers' \in [Restores -> Actors]
    <3>1. readers \in [Restores -> Actors] /\ writers \in [Restores -> Actors]
      BY DEF TypeOK
    <3>2. SUFFICES ASSUME NEW c, Exit(k, c) PROVE readers' \in [Restores -> Actors] /\ writers' \in [Restores -> Actors]
      OBVIOUS
    <3>3. /\ readers' = [p \in Restores |-> readers[p] \ {k}]
          /\ writers' = [p \in Restores |-> writers[p] \ {k}]
      BY <3>2 DEF Exit
    <3> QED BY <3>1, <3>3
  <2>18. \A from, to : Goto(k, from, to) /\ to \in ThreadStates => thread' \in [Restores -> ThreadStates]
    BY DEF Goto, TypeOK
  <2>19. {"asked", "logged", "piped", "forked", "header", "stream", "wait", "done", "refused"}
           \subseteq ThreadStates
    BY DEF ThreadStates
  <2>20. faults < MaxFaults /\ faults' = faults + 1 => faults' \in 0..MaxFaults
    <3>1. faults \in 0..MaxFaults
      BY DEF TypeOK
    <3> QED BY <3>1, Constants
  <2>4. CASE Request(k) \/ NotRestorable(k) \/ LogRestore(k) \/ LogRestoreFails(k)
    BY <2>1, <2>4, <2>18, <2>19, <2>20
       DEF Request, NotRestorable, LogRestore, LogRestoreFails, Refuse, TypeOK
  <2>5. CASE \E a \in Asked[k] : Pipe(k, a[1], a[2])
    <3>1. PICK a \in Asked[k] : Pipe(k, a[1], a[2])
      BY <2>5
    <3>2. thread' \in [Restores -> ThreadStates]
      BY <3>1, <2>18, <2>19 DEF Pipe
    <3>3. readers' \in [Restores -> SUBSET Processes] /\ writers' \in [Restores -> SUBSET Processes]
      BY <3>1, <2>2 DEF Pipe, TypeOK
    <3>4. UNCHANGED <<log, header, pipe, body, cut, tmp, faults>>
      BY <3>1 DEF Pipe
    <3> QED BY <2>1, <3>2, <3>3, <3>4 DEF TypeOK
  <2>6. CASE Fork(k)
    BY <2>1, <2>2, <2>6, <2>18, <2>19 DEF Fork, Inherited, TypeOK
  <2>7. CASE CloseWriter(k) \/ ReadOk(k) \/ ReadFail(k) \/ EndOfStream(k) \/ Disconnect(k) \/ WaitChild(k)
    <3>1. thread' \in [Restores -> ThreadStates]
      BY <2>7, <2>18, <2>19 DEF CloseWriter, ReadOk, ReadFail, EndOfStream, Disconnect, WaitChild
    <3>2. readers' \in [Restores -> SUBSET Processes] /\ writers' \in [Restores -> SUBSET Processes]
      <4>1. /\ UNCHANGED readers \/ readers' = [readers EXCEPT ![k] = @ \ {Server}]
            /\ UNCHANGED writers \/ writers' = [writers EXCEPT ![k] = @ \ {Server}]
        BY <2>7 DEF CloseWriter, ReadOk, ReadFail, EndOfStream, Disconnect, WaitChild, CloseReader
      <4>2. readers \in [Restores -> SUBSET Processes] /\ writers \in [Restores -> SUBSET Processes]
        BY DEF TypeOK
      <4> QED BY <4>1, <4>2
    <3>3. header' \in [Restores -> {"", "ok", "fail"}] /\ cut' \in [Restores -> BOOLEAN]
      BY <2>7 DEF CloseWriter, ReadOk, ReadFail, EndOfStream, Disconnect, WaitChild, TypeOK
    <3>4. UNCHANGED <<log, pipe, body, tmp, faults>>
      BY <2>7 DEF CloseWriter, ReadOk, ReadFail, EndOfStream, Disconnect, WaitChild
    <3> QED BY <2>1, <3>1, <3>2, <3>3, <3>4 DEF TypeOK
  <2>8. CASE SendChunk(k)
    <3>1. pipe[k] \in Seq(File) /\ pipe[k] # <<>> /\ body[k] \in Seq(File)
      BY <2>8 DEF SendChunk, TypeOK
    <3>2. Append(body[k], Head(pipe[k])) \in Seq(File) /\ Tail(pipe[k]) \in Seq(File)
      BY <3>1
    <3> QED BY <2>1, <2>8, <3>2 DEF SendChunk, TypeOK
  <2>9. CASE ChildStart(k)
    BY <2>1, <2>9 DEF ChildStart, TypeOK
  <2>10. CASE IgnoreLine(k) \/ AddToBrokenPipe(k) \/ EndOfLog(k)
    BY <2>1, <2>10 DEF IgnoreLine, AddToBrokenPipe, EndOfLog, TypeOK
  <2>11. CASE LeaveOut(k) \/ AddFile(k) \/ SendHeader(k)
    BY <2>1, <2>11 DEF LeaveOut, AddFile, SendHeader, TypeOK
  <2>12. CASE Drain(k)
    <3>1. Append(pipe[k], Head(child[k].buffer)) \in Seq(File)
      <4>1. child[k].buffer \in Seq(File) /\ child[k].buffer # <<>> /\ pipe[k] \in Seq(File)
        BY <2>12, ChildFields DEF Drain, TypeOK
      <4> QED BY <4>1
    <3> QED BY <2>1, <2>12, <3>1 DEF Drain, TypeOK
  <2>13. CASE CloseArchive(k)
    BY <2>1, <2>13 DEF CloseArchive, LeaveFinally, TypeOK
  <2>14. CASE CloseRaises(k) \/ CleanUp(k)
    BY <2>1, <2>3, <2>14 DEF CloseRaises, CleanUp, TypeOK
  <2>15. CASE RdiffBackup(k) \/ RestoreFails(k)
    <3>1. child[k].files \in 0..MaxFiles /\ log[k].lines \in 0..MaxFiles
      BY ChildFields
    <3>2. CASE LogLine(k)
      <4>1. log[k].lines + 1 \in 0..MaxFiles
        BY <3>1, <3>2, Constants DEF LogLine
      <4> QED BY <2>1, <3>2, <4>1 DEF LogLine, TypeOK
    <3>3. CASE EndRestore(k)
      BY <2>1, <3>3 DEF EndRestore, TypeOK
    <3>4. CASE RestoreFails(k)
      BY <2>1, <2>20, <3>4 DEF RestoreFails, TypeOK
    <3> QED BY <2>15, <3>2, <3>3, <3>4 DEF RdiffBackup
  <2>16. CASE MkdtempFails(k) \/ Kill(k)
    BY <2>1, <2>3, <2>16, <2>20 DEF MkdtempFails, Kill, TypeOK
  <2>17. CASE LookupRaises(k)
    BY <2>1, <2>17, <2>20 DEF LookupRaises, TypeOK
  <2> QED
    BY <2>4, <2>5, <2>6, <2>7, <2>8, <2>9, <2>10, <2>11, <2>12, <2>13, <2>14, <2>15, <2>16, <2>17
       DEF Serve, Work, RdiffBackup, Fault
<1> QED BY <1>1, <1>2

LEMMA TypeInit == ASSUME Init PROVE TypeOK
<1>1. NoChild \in Child
  BY Constants DEF NoChild, Child, ChildStates, Kinds
<1>2. <<>> \in Seq(File)
  OBVIOUS
<1>3. 0 \in 0..MaxFiles /\ 0 \in 0..MaxFaults
  BY Constants
<1>4. "idle" \in ThreadStates
  BY DEF ThreadStates
<1> QED BY <1>1, <1>2, <1>3, <1>4 DEF Init, TypeOK

\* The type invariant, for any number of downloads, files and faults: what the
\* thread, the pipe and the child hold has the type of what it models.
THEOREM TypeInvariant == Spec => []TypeOK
<1>1. Init => TypeOK
  BY TypeInit
<1>2. TypeOK /\ [Next]_vars => TypeOK'
  BY TypeStep
<1> QED BY <1>1, <1>2, PTL DEF Spec

-----------------------------------------------------------------------------
(***************************************************************************)
(* The inductive invariant                                                 *)
(***************************************************************************)
\* What is done for one download.
StepOf(k) ==
    \/ Request(k) \/ NotRestorable(k)
    \/ \E a \in Asked[k] : Pipe(k, a[1], a[2])
    \/ Serve(k) \/ Disconnect(k) \/ Work(k) \/ RdiffBackup(k) \/ Fault(k)

\* Nothing that the invariant of download p speaks of changes.
Same(p) ==
    /\ thread'[p] = thread[p] /\ child'[p] = child[p] /\ header'[p] = header[p]
    /\ pipe'[p] = pipe[p] /\ body'[p] = body[p] /\ cut'[p] = cut[p] /\ tmp'[p] = tmp[p]
    /\ \A q \in {Server, p} : /\ q \in readers'[p] <=> q \in readers[p]
                              /\ q \in writers'[p] <=> q \in writers[p]

LEMMA SameInv == ASSUME NEW p \in Restores, Inv(p), Same(p) PROVE Inv(p)'
BY Constants
   DEF Inv, Same, Control, Ends, Status, InOrder, Removal, LeftBehind, Reading, Before, Finished

\* A step for one download leaves the others alone, whatever ends of their pipes a
\* child inherits or closes.
LEMMA OthersSame ==
    ASSUME TypeOK, NEW k \in Restores, StepOf(k), NEW p \in Restores \ {k}
    PROVE  Same(p)
<1>1. /\ DOMAIN thread = Restores /\ DOMAIN child = Restores /\ DOMAIN header = Restores
      /\ DOMAIN pipe = Restores /\ DOMAIN body = Restores /\ DOMAIN cut = Restores
      /\ DOMAIN tmp = Restores /\ DOMAIN readers = Restores /\ DOMAIN writers = Restores
  BY DEF TypeOK
<1>2. k # p /\ p # Server /\ k # Server
  BY Constants
<1>3. ASSUME NEW c, Exit(k, c)
      PROVE  /\ child'[p] = child[p]
             /\ \A q \in {Server, p} : /\ q \in readers'[p] <=> q \in readers[p]
                                       /\ q \in writers'[p] <=> q \in writers[p]
  <2>1. child' = [child EXCEPT ![k] = [c EXCEPT !.pc = "exited"]]
    BY <1>3 DEF Exit
  <2>2. child'[p] = child[p]
    BY <1>1, <1>2, <2>1
  <2>3. readers'[p] = readers[p] \ {k} /\ writers'[p] = writers[p] \ {k}
    BY <1>3 DEF Exit
  <2> QED BY <1>2, <2>2, <2>3
<1>4. CASE Request(k) \/ NotRestorable(k) \/ LogRestore(k) \/ LogRestoreFails(k)
  BY <1>1, <1>2, <1>4 DEF Same, Request, NotRestorable, LogRestore, LogRestoreFails, Refuse, Goto
<1>5. CASE \E a \in Asked[k] : Pipe(k, a[1], a[2])
  BY <1>1, <1>2, <1>5 DEF Same, Pipe, Goto
<1>6. CASE Fork(k)
  BY <1>1, <1>2, <1>6 DEF Same, Fork, Goto, Inherited
<1>7. CASE CloseWriter(k) \/ ReadOk(k) \/ ReadFail(k) \/ SendChunk(k)
  BY <1>1, <1>2, <1>7 DEF Same, CloseWriter, ReadOk, ReadFail, SendChunk, CloseReader, Goto
<1>8. CASE EndOfStream(k) \/ Disconnect(k) \/ WaitChild(k)
  BY <1>1, <1>2, <1>8 DEF Same, EndOfStream, Disconnect, WaitChild, CloseReader, Goto
<1>9. CASE ChildStart(k) \/ IgnoreLine(k) \/ AddToBrokenPipe(k) \/ EndOfLog(k) \/ LookupRaises(k)
  BY <1>1, <1>2, <1>9 DEF Same, ChildStart, IgnoreLine, AddToBrokenPipe, EndOfLog, LookupRaises
<1>10. CASE LeaveOut(k) \/ AddFile(k) \/ SendHeader(k) \/ Drain(k)
  BY <1>1, <1>2, <1>10 DEF Same, LeaveOut, AddFile, SendHeader, Drain
<1>11. CASE CloseArchive(k)
  BY <1>1, <1>2, <1>11 DEF Same, CloseArchive, LeaveFinally
<1>12. CASE CloseRaises(k) \/ CleanUp(k) \/ MkdtempFails(k) \/ Kill(k)
  BY <1>1, <1>2, <1>3, <1>12 DEF Same, CloseRaises, CleanUp, MkdtempFails, Kill
<1>13. CASE RdiffBackup(k) \/ RestoreFails(k)
  BY <1>13 DEF Same, RdiffBackup, LogLine, EndRestore, RestoreFails
<1> QED
  BY <1>4, <1>5, <1>6, <1>7, <1>8, <1>9, <1>10, <1>11, <1>12, <1>13
     DEF StepOf, Serve, Work, Fault

\* Sending a chunk, and adding a file, keep what was sent before what was not.
LEMMA SendKeepsOrder ==
    ASSUME NEW b \in Seq(File), NEW q \in Seq(File), NEW t \in Seq(File), q # <<>>
    PROVE  /\ Append(b, Head(q)) \o (Tail(q) \o t) = b \o (q \o t)
           /\ Len(b) < Len(b \o (q \o t))
           /\ (b \o (q \o t))[Len(b) + 1] = Head(q)
<1>1. /\ q \o t \in Seq(File) /\ q \o t # <<>> /\ Head(q \o t) = Head(q)
      /\ Tail(q \o t) = Tail(q) \o t
  OBVIOUS
<1> DEFINE r == q \o t
<1> HIDE DEF r
<1>2. r \in Seq(File) /\ r # <<>> /\ Head(r) = Head(q) /\ Tail(r) = Tail(q) \o t
  BY <1>1 DEF r
<1>3. /\ Append(b, Head(r)) \o Tail(r) = b \o r
      /\ Len(b) < Len(b \o r)
      /\ (b \o r)[Len(b) + 1] = Head(r)
  BY <1>2
<1> QED BY <1>2, <1>3 DEF r

LEMMA NothingAdded ==
    ASSUME NEW b \in Seq(File)
    PROVE  b \o (<<>> \o <<>>) = b
<1>1. <<>> \o <<>> = <<>>
  OBVIOUS
<1>2. b \o <<>> = b
  OBVIOUS
<1> QED BY <1>1, <1>2

LEMMA AppendLast ==
    ASSUME NEW b \in Seq(File), NEW r \in Seq(File), NEW f \in File
    PROVE  Append(b \o r, f) = b \o Append(r, f)
OBVIOUS

LEMMA PutKeepsOrder ==
    ASSUME NEW b \in Seq(File), NEW q \in Seq(File), NEW t \in Seq(File), NEW f \in File
    PROVE  Append(b \o (q \o t), f) = b \o (q \o Append(t, f))
<1>1. q \o t \in Seq(File) /\ Append(q \o t, f) = q \o Append(t, f)
  OBVIOUS
<1> DEFINE r == q \o t
<1> HIDE DEF r
<1>2. r \in Seq(File) /\ Append(r, f) = q \o Append(t, f)
  BY <1>1 DEF r
<1>3. Append(b \o r, f) = b \o Append(r, f)
  BY <1>2, AppendLast
<1> QED BY <1>2, <1>3 DEF r

\* Draining a file of the buffers into the pipe keeps it before the others.
LEMMA DrainKeepsOrder ==
    ASSUME NEW q \in Seq(File), NEW t \in Seq(File), t # <<>>
    PROVE  Append(q, Head(t)) \o Tail(t) = q \o t
OBVIOUS

LEMMA EmptyParts ==
    ASSUME NEW b \in Seq(File), NEW q \in Seq(File), NEW t \in Seq(File), b \o (q \o t) = <<>>
    PROVE  b = <<>> /\ q = <<>> /\ t = <<>>
<1>1. q \o t \in Seq(File) /\ Len(q \o t) = Len(q) + Len(t)
  OBVIOUS
<1>2. Len(b \o (q \o t)) = Len(b) + Len(q \o t)
  BY <1>1
<1>3. Len(b) = 0 /\ Len(q) = 0 /\ Len(t) = 0
  BY <1>1, <1>2
<1> QED BY <1>3

\* A step for a download keeps its invariant.
LEMMA OwnStep ==
    ASSUME TypeOK, NEW k \in Restores, Inv(k), StepOf(k)
    PROVE  Inv(k)'
<1> USE DEF Inv, Control, Ends, Status, InOrder, Removal, LeftBehind, Reading, Before, Finished
<1>1. /\ DOMAIN thread = Restores /\ DOMAIN child = Restores /\ DOMAIN header = Restores
      /\ DOMAIN pipe = Restores /\ DOMAIN body = Restores /\ DOMAIN cut = Restores
      /\ DOMAIN tmp = Restores /\ DOMAIN readers = Restores /\ DOMAIN writers = Restores
  BY DEF TypeOK
<1>2. k # Server
  BY Constants
<1>3. child[k] \in Child /\ DOMAIN child[k] = {"pc", "kind", "files", "handled", "open", "told", "archive", "buffer", "code", "killed"}
  BY DEF TypeOK, Child
<1>4. CASE Request(k) \/ NotRestorable(k) \/ LogRestore(k) \/ LogRestoreFails(k)
  BY <1>1, <1>2, <1>4 DEF Request, NotRestorable, LogRestore, LogRestoreFails, Refuse, Goto
<1>5. CASE \E a \in Asked[k] : Pipe(k, a[1], a[2])
  BY <1>1, <1>2, <1>3, <1>5 DEF Pipe, Goto
<1>6. CASE Fork(k)
  BY <1>1, <1>2, <1>3, <1>6 DEF Fork, Goto, Inherited
<1>7. CASE CloseWriter(k)
  BY <1>1, <1>2, <1>7 DEF CloseWriter, Goto
<1>8. CASE ReadOk(k)
  BY <1>1, <1>2, <1>8 DEF ReadOk, Goto
<1>9. CASE ReadFail(k)
  <2>1. UNCHANGED <<child, pipe, writers, body, cut, tmp>>
    BY <1>9 DEF ReadFail
  <2>2. thread[k] = "header" /\ thread'[k] = "refused" /\ header'[k] = ""
    BY <1>1, <1>9 DEF ReadFail, Goto
  <2>3. child[k].pc \in Finished
    BY <1>3, <1>9, <2>2 DEF ReadFail, AtEof, Child, ChildStates
  <2> QED BY <2>1, <2>2, <2>3
<1>10. CASE SendChunk(k)
  <2>1. UNCHANGED <<thread, child, header, readers, writers, cut, tmp>>
    BY <1>10 DEF SendChunk
  <2>2. body'[k] = Append(body[k], Head(pipe[k])) /\ pipe'[k] = Tail(pipe[k])
    BY <1>1, <1>10 DEF SendChunk
  <2>3. body'[k] \o (pipe'[k] \o child[k].buffer) = body[k] \o (pipe[k] \o child[k].buffer)
    <3>1. /\ body[k] \in Seq(File) /\ pipe[k] \in Seq(File) /\ pipe[k] # <<>>
          /\ child[k].buffer \in Seq(File)
      BY <1>10, ChildFields DEF SendChunk, TypeOK
    <3>2. Append(body[k], Head(pipe[k])) \o (Tail(pipe[k]) \o child[k].buffer)
            = body[k] \o (pipe[k] \o child[k].buffer)
      BY <3>1, SendKeepsOrder
    <3> QED BY <2>2, <3>2
  <2>4. thread'[k] = "stream"
    BY <1>10, <2>1 DEF SendChunk
  <2>5. InOrder(k)'
    BY <2>1, <2>3, <2>4
  <2> QED BY <2>1, <2>4, <2>5
<1>11. CASE EndOfStream(k) \/ Disconnect(k)
  <2>1. UNCHANGED <<child, header, pipe, writers, body, tmp>>
    BY <1>11 DEF EndOfStream, Disconnect
  <2>2. thread[k] = "stream" /\ thread'[k] = "wait"
    BY <1>1, <1>11 DEF EndOfStream, Disconnect, Goto
  <2>3. CASE EndOfStream(k)
    BY <1>3, <2>1, <2>2, <2>3 DEF EndOfStream, AtEof, Child, ChildStates
  <2>4. CASE Disconnect(k)
    BY <1>1, <2>1, <2>2, <2>4 DEF Disconnect
  <2> QED BY <1>11, <2>3, <2>4
<1>12. CASE WaitChild(k)
  BY <1>1, <1>2, <1>12 DEF WaitChild, Goto
<1>13. CASE ChildStart(k)
  BY <1>1, <1>2, <1>3, <1>13 DEF ChildStart, ChildAt
<1>14. CASE IgnoreLine(k) \/ EndOfLog(k) \/ LookupRaises(k)
  <2>1. UNCHANGED <<thread, header, pipe, readers, writers, body, cut, tmp>>
    BY <1>14 DEF IgnoreLine, EndOfLog, LookupRaises
  <2>2. child[k].pc = "run" /\ child'[k].pc \in {"run", "finally"}
    BY <1>1, <1>3, <1>14 DEF IgnoreLine, EndOfLog, LookupRaises, ChildAt
  <2>3. /\ child'[k].open = child[k].open /\ child'[k].archive = child[k].archive
        /\ child'[k].told = child[k].told /\ child'[k].buffer = child[k].buffer
        /\ child'[k].killed = child[k].killed
    BY <1>1, <1>3, <1>14 DEF IgnoreLine, EndOfLog, LookupRaises
  <2> QED BY <2>1, <2>2, <2>3
<1>15. CASE LeaveOut(k)
  BY <1>1, <1>2, <1>3, <1>15 DEF LeaveOut, ChildAt
<1>16. CASE AddFile(k)
  <2> DEFINE f == NextFile(k)
  <2>1. f \in File /\ pipe[k] \in Seq(File) /\ body[k] \in Seq(File) /\ child[k].buffer \in Seq(File)
    BY <1>16, NextIsFile, ChildFields DEF AddFile, TypeOK
  <2>3. UNCHANGED <<thread, header, pipe, readers, writers, body, cut, tmp>> /\ child[k].pc = "run"
    BY <1>16 DEF AddFile, ChildAt
  <2>4. /\ child'[k].pc = child[k].pc /\ child'[k].open = TRUE /\ child'[k].told = child[k].told
        /\ child'[k].archive = Append(child[k].archive, f)
        /\ child'[k].buffer = Append(child[k].buffer, f)
        /\ child'[k].killed = child[k].killed
    BY <1>1, <1>3, <1>16 DEF AddFile
  <2> HIDE DEF f
  <2>5. Append(body[k] \o (pipe[k] \o child[k].buffer), f)
          = body[k] \o (pipe[k] \o Append(child[k].buffer, f))
    BY <2>1, PutKeepsOrder
  <2>7. InOrder(k)'
    BY <2>3, <2>4, <2>5
  <2> QED BY <2>3, <2>4, <2>7
<1>21. CASE SendHeader(k)
  BY <1>1, <1>2, <1>3, <1>21 DEF SendHeader, Writing, ChildAt
<1>22. CASE Drain(k)
  <2>1. UNCHANGED <<thread, header, readers, writers, body, cut, tmp>>
        /\ child[k].pc \in {"run", "finally"} /\ child[k].open
    BY <1>22 DEF Drain, Writing, ChildAt
  <2>2. /\ child'[k].pc = child[k].pc /\ child'[k].open = child[k].open
        /\ child'[k].told = child[k].told /\ child'[k].archive = child[k].archive
        /\ child'[k].killed = child[k].killed /\ child'[k].buffer = Tail(child[k].buffer)
    BY <1>1, <1>3, <1>22 DEF Drain
  <2>3. pipe'[k] = Append(pipe[k], Head(child[k].buffer))
    BY <1>1, <1>22 DEF Drain
  <2>4. pipe'[k] \o child'[k].buffer = pipe[k] \o child[k].buffer
    <3>1. child[k].buffer \in Seq(File) /\ child[k].buffer # <<>> /\ pipe[k] \in Seq(File)
      BY <1>22, ChildFields DEF Drain, TypeOK
    <3> QED BY <2>2, <2>3, <3>1, DrainKeepsOrder
  <2>5. InOrder(k)'
    BY <2>1, <2>2, <2>4
  <2> QED BY <2>1, <2>2, <2>5
<1>17. CASE AddToBrokenPipe(k)
  BY <1>1, <1>2, <1>3, <1>17 DEF AddToBrokenPipe, ChildAt
<1>18. CASE CloseArchive(k)
  <2>1. /\ UNCHANGED <<thread, pipe, readers, body, cut, tmp>> /\ child[k].pc = "finally"
        /\ child'[k] = [child[k] EXCEPT !.pc = "cleanup"]
        /\ child[k].open => child[k].told /\ child[k].buffer = <<>>
        /\ header'[k] = IF child[k].open THEN header[k] ELSE "fail"
        /\ Server \in writers'[k] <=> Server \in writers[k]
    BY <1>1, <1>2, <1>18 DEF CloseArchive, LeaveFinally, Drained, ChildAt
  <2>2. /\ child'[k].pc = "cleanup" /\ child'[k].open = child[k].open
        /\ child'[k].told = child[k].told /\ child'[k].archive = child[k].archive
        /\ child'[k].killed = child[k].killed /\ child'[k].buffer = child[k].buffer
    BY <1>3, <2>1
  <2>3. ~child[k].open /\ ~cut[k] => child[k].buffer = <<>>
    <3>1. SUFFICES ASSUME ~child[k].open, ~cut[k] PROVE child[k].buffer = <<>>
      OBVIOUS
    <3>2. thread[k] # "refused"
      BY <2>1
    <3>3. child[k].archive = <<>> /\ child[k].archive = body[k] \o (pipe[k] \o child[k].buffer)
      BY <3>1, <3>2
    <3>4. body[k] \in Seq(File) /\ pipe[k] \in Seq(File) /\ child[k].buffer \in Seq(File)
      BY ChildFields DEF TypeOK
    <3> QED BY <3>3, <3>4, EmptyParts
  <2>4. InOrder(k)'
    BY <2>1, <2>2, <2>3
  <2> QED BY <2>1, <2>2, <2>4
<1>19. CASE CloseRaises(k) \/ CleanUp(k) \/ MkdtempFails(k) \/ Kill(k)
  <2>1. PICK c \in Child : /\ Exit(k, c) /\ c.archive = child[k].archive /\ c.open = child[k].open
                           /\ c.told = child[k].told /\ c.buffer = child[k].buffer
                           /\ tmp'[k] => cut[k] \/ c.killed
                           /\ child[k].killed => c.killed
                           /\ ~c.killed /\ ~cut[k] =>
                                child[k].buffer = <<>> /\ (child[k].open => child[k].told)
    <3>1. CASE CloseRaises(k) \/ MkdtempFails(k)
      <4> DEFINE c == [child[k] EXCEPT !.code = CUST_EXIT_CODE]
      <4>1. /\ c \in Child /\ c.archive = child[k].archive /\ c.open = child[k].open
            /\ c.told = child[k].told /\ c.buffer = child[k].buffer /\ c.killed = child[k].killed
        BY <1>3 DEF Child
      <4>2. Exit(k, c)
        BY <3>1 DEF CloseRaises, MkdtempFails
      <4>3. CASE CloseRaises(k)
        <5>1. thread[k] \in ThreadStates /\ child[k].pc = "finally" /\ Server \notin readers[k]
          BY <4>3 DEF CloseRaises, ChildAt, TypeOK
        <5>2. cut[k]
          BY <5>1 DEF ThreadStates
        <5> QED BY <4>1, <4>2, <5>2
      <4>4. CASE MkdtempFails(k)
        <5>1. ~tmp'[k] /\ child[k].pc = "start"
          BY <4>4 DEF MkdtempFails, ChildAt
        <5>2. ~child[k].open /\ child[k].buffer = <<>>
          BY <5>1
        <5> QED BY <4>1, <4>2, <5>1, <5>2
      <4> QED BY <3>1, <4>3, <4>4
    <3>2. CASE CleanUp(k)
      <4>1. Exit(k, child[k]) /\ ~tmp'[k] /\ child[k].pc = "cleanup"
        BY <1>1, <3>2 DEF CleanUp, ChildAt
      <4> QED BY <1>3, <4>1
    <3>3. CASE Kill(k)
      <4> DEFINE c == [child[k] EXCEPT !.code = 0, !.killed = TRUE]
      <4>1. c \in Child /\ c.archive = child[k].archive /\ c.open = child[k].open
            /\ c.told = child[k].told /\ c.buffer = child[k].buffer /\ c.killed = TRUE
        BY <1>3 DEF Child
      <4>2. Exit(k, c)
        BY <3>3 DEF Kill
      <4> QED BY <4>1, <4>2
    <3> QED BY <1>19, <3>1, <3>2, <3>3
  <2>2. /\ child'[k].pc = "exited" /\ child'[k].archive = child[k].archive
        /\ child'[k].open = child[k].open /\ child'[k].killed = c.killed
        /\ child'[k].told = child[k].told /\ child'[k].buffer = child[k].buffer
    BY <1>1, <2>1 DEF Exit, Child
  <2>3. UNCHANGED <<thread, header, pipe, body, cut>>
    BY <1>19 DEF CloseRaises, CleanUp, MkdtempFails, Kill
  <2>4. Server \in readers'[k] <=> Server \in readers[k]
    BY <1>2, <2>1 DEF Exit
  <2>5. Server \in writers'[k] <=> Server \in writers[k]
    BY <1>2, <2>1 DEF Exit
  <2>6. child[k].pc \notin {"none", "exited"}
    BY <1>19 DEF CloseRaises, CleanUp, MkdtempFails, Kill, ChildAt
  <2> QED BY <2>1, <2>2, <2>3, <2>4, <2>5, <2>6
<1>20. CASE RdiffBackup(k) \/ RestoreFails(k)
  BY <1>20 DEF RdiffBackup, LogLine, EndRestore, RestoreFails
<1> QED
  BY <1>4, <1>5, <1>6, <1>7, <1>8, <1>9, <1>10, <1>11, <1>12, <1>13, <1>14, <1>15, <1>16,
     <1>17, <1>18, <1>19, <1>20, <1>21, <1>22
     DEF StepOf, Serve, Work, Fault

LEMMA InvInit == ASSUME Init PROVE IInv
<1>1. TypeOK
  BY TypeInit
<1>2. SUFFICES ASSUME NEW k \in Restores PROVE Inv(k)
  BY <1>1 DEF IInv
<1>3. <<>> = <<>> \o (<<>> \o <<>>)
  OBVIOUS
<1>4. /\ thread[k] = "idle" /\ child[k] = NoChild /\ header[k] = "" /\ pipe[k] = <<>>
      /\ body[k] = <<>> /\ cut[k] = FALSE /\ tmp[k] = FALSE
  BY DEF Init
<1>5. /\ child[k].pc = "none" /\ child[k].open = FALSE /\ child[k].archive = <<>>
      /\ child[k].buffer = <<>> /\ child[k].told = FALSE /\ child[k].killed = FALSE
  <2>1. /\ NoChild.pc = "none" /\ NoChild.open = FALSE /\ NoChild.archive = <<>>
        /\ NoChild.buffer = <<>> /\ NoChild.told = FALSE /\ NoChild.killed = FALSE
    BY DEF NoChild
  <2> QED BY <1>4, <2>1
<1> QED
  BY <1>3, <1>4, <1>5 DEF Inv, Control, Ends, Status, InOrder, Removal, LeftBehind,
                          Reading, Before, Finished

LEMMA InvStep == ASSUME IInv, [Next]_vars PROVE IInv'
<1>1. TypeOK'
  BY TypeStep DEF IInv
<1>2. SUFFICES ASSUME NEW p \in Restores PROVE Inv(p)'
  BY <1>1, <1>2 DEF IInv
<1>3. CASE UNCHANGED vars
  BY <1>3 DEF IInv, vars, Inv, Control, Ends, Status, InOrder, Removal, LeftBehind
<1>4. CASE Next
  <2>1. PICK k \in Restores : StepOf(k)
    BY <1>4 DEF Next, StepOf
  <2>2. CASE p = k
    BY <2>1, <2>2, OwnStep DEF IInv
  <2>3. CASE p # k
    BY <2>1, <2>3, OthersSame, SameInv DEF IInv
  <2> QED BY <2>2, <2>3
<1> QED BY <1>3, <1>4

LEMMA Invariant == Spec => []IInv
<1>1. Init => IInv
  BY InvInit
<1>2. IInv /\ [Next]_vars => IInv'
  BY InvStep
<1> QED BY <1>1, <1>2, PTL DEF Spec

\* The temporary directory is deleted with the child, whichever operation of the
\* restore fails, but for a client that went away and for a child that was killed:
\* closing raises only when nobody reads, and the server reads until the end.
THEOREM Removed == Spec => []RemovedUnlessCut
<1>1. IInv => RemovedUnlessCut
  BY DEF IInv, Inv, Removal, RemovedUnlessCut
<1> QED BY <1>1, Invariant, PTL

-----------------------------------------------------------------------------
(***************************************************************************)
(* What a success means                                                    *)
(***************************************************************************)
\* How far the child and the download are in what rdiff-backup logs.
Progress(k) ==
    /\ child[k].pc \in {"none", "start"} =>
         child[k].handled = 0 /\ log[k].lines = 0 /\ log[k].end = "running"
    /\ child[k].handled <= log[k].lines /\ log[k].lines <= child[k].files
    /\ log[k].end = "ok" => log[k].lines = child[k].files

\* A file that was not all there is archived only when rdiff-backup failed.
Whole(k) == log[k].end = "failed" \/ \A n \in DOMAIN child[k].archive : child[k].archive[n][2]

\* A child that left its loop and reports nothing has handled a complete log.
Truth(k) ==
    /\ child[k].pc \in {"finally"} \cup Finished /\ ~child[k].killed /\ ~Reported(k) =>
         log[k].end = "ok" /\ child[k].handled = log[k].lines
    /\ thread[k] = "done" => child[k].pc = "exited"

Logged(k) == Progress(k) /\ Whole(k) /\ Truth(k)

LInv == IInv /\ \A k \in Restores : Logged(k)
\* A step for one download is none for the log of another.
LEMMA LogOfOthers ==
    ASSUME TypeOK, NEW k \in Restores, StepOf(k), NEW p \in Restores \ {k}
    PROVE  log'[p] = log[p]
<1>1. DOMAIN log = Restores
  BY DEF TypeOK
<1> QED
  BY <1>1 DEF StepOf, Serve, Work, RdiffBackup, Fault, Request, NotRestorable, Refuse, Pipe,
              LogRestore, LogRestoreFails, Fork, CloseWriter, ReadOk, ReadFail, SendChunk,
              EndOfStream, Disconnect, WaitChild, LogLine, EndRestore, RestoreFails, MkdtempFails,
              LookupRaises, Kill, ChildStart, IgnoreLine, LeaveOut, AddFile, AddToBrokenPipe,
              SendHeader, Drain, EndOfLog, CloseArchive, LeaveFinally, CloseRaises, CleanUp

\* What is added to the archive is complete, unless rdiff-backup failed.
LEMMA AddedIsWhole ==
    ASSUME TypeOK, NEW k \in Restores, LineReady(k), Whole(k)
    PROVE  \/ log[k].end = "failed"
           \/ \A n \in DOMAIN Append(child[k].archive, NextFile(k)) :
                 Append(child[k].archive, NextFile(k))[n][2]
<1>1. /\ child[k].handled \in 0..MaxFiles /\ log[k].lines \in 0..MaxFiles
      /\ log[k].end \in {"running", "ok", "failed"} /\ child[k].archive \in Seq(File)
  BY ChildFields
<1>2. SUFFICES ASSUME log[k].end # "failed"
               PROVE  \A n \in DOMAIN Append(child[k].archive, NextFile(k)) :
                         Append(child[k].archive, NextFile(k))[n][2]
  OBVIOUS
<1>3. NextFile(k)[2]
  BY <1>1, <1>2, Constants DEF LineReady, NextFile
<1>4. NextFile(k) \in File
  BY NextIsFile
<1> DEFINE f == NextFile(k)
           a == child[k].archive
<1>5. /\ DOMAIN Append(a, f) = 1..(Len(a) + 1) /\ DOMAIN a = 1..Len(a) /\ Len(a) \in Nat
      /\ Append(a, f)[Len(a) + 1] = f
      /\ \A n \in 1..Len(a) : Append(a, f)[n] = a[n]
  <2> HIDE DEF f
  <2>1. f \in File
    BY <1>4 DEF f
  <2> QED BY <1>1, <2>1
<1>6. \A n \in 1..Len(a) : a[n][2]
  BY <1>2, <1>5 DEF Whole
<1>7. ASSUME NEW n \in 1..(Len(a) + 1) PROVE Append(a, f)[n][2]
  <2> HIDE DEF f
  <2>1. f[2]
    BY <1>3 DEF f
  <2>2. CASE n = Len(a) + 1
    BY <1>5, <2>1, <2>2
  <2>3. CASE n # Len(a) + 1
    <3>1. n \in 1..Len(a)
      BY <1>5, <2>3
    <3> QED BY <1>5, <1>6, <3>1
  <2> QED BY <2>2, <2>3
<1> QED BY <1>5, <1>7

\* A step for a download keeps what is known of its log.
LEMMA LogOwnStep ==
    ASSUME TypeOK, NEW k \in Restores, Inv(k), Logged(k), StepOf(k)
    PROVE  Logged(k)'
<1>1. /\ DOMAIN thread = Restores /\ DOMAIN child = Restores /\ DOMAIN log = Restores
      /\ child[k] \in Child
      /\ DOMAIN log[k] = {"lines", "end"}
  BY DEF TypeOK
<1>2. /\ child[k].pc \in ChildStates /\ child[k].files \in Nat /\ child[k].handled \in Nat
      /\ child[k].code \in {0, 1, CUST_EXIT_CODE} /\ child[k].killed \in BOOLEAN
      /\ log[k].lines \in Nat /\ log[k].end \in {"running", "ok", "failed"}
  BY ChildFields, Constants
<1>3. DOMAIN child[k] = {"pc", "kind", "files", "handled", "open", "told", "archive", "buffer", "code", "killed"}
  BY <1>1 DEF Child
<1>4. CASE UNCHANGED <<child, log>>
  <2>1. thread'[k] = "done" => thread[k] = "done" \/ child[k].pc = "exited"
    BY <1>1, <1>4 DEF StepOf, Serve, Work, RdiffBackup, Fault, Request, NotRestorable, Refuse, Pipe,
              LogRestore, LogRestoreFails, Fork, CloseWriter, ReadOk, ReadFail, SendChunk,
              EndOfStream, Disconnect, WaitChild, LogLine, EndRestore, RestoreFails, MkdtempFails,
              LookupRaises, Kill, ChildStart, IgnoreLine, LeaveOut, AddFile, AddToBrokenPipe,
              SendHeader, Drain, EndOfLog, CloseArchive, LeaveFinally, CloseRaises, CleanUp, Goto
  <2> QED BY <1>4, <2>1 DEF Logged, Progress, Whole, Truth, Reported
<1>5. CASE \E a \in Asked[k] : Pipe(k, a[1], a[2])
  <2>1. child[k].pc = "none" /\ thread'[k] = "piped" /\ log' = log
    BY <1>1, <1>5 DEF Pipe, Goto, Inv, Control, Before
  <2>2. /\ child'[k].pc = "none" /\ child'[k].handled = child[k].handled
        /\ child'[k].archive = child[k].archive /\ child'[k].files \in Nat
    BY <1>1, <1>3, <1>5, <2>1, Constants DEF Pipe
  <2> QED BY <1>2, <2>1, <2>2 DEF Logged, Progress, Whole, Truth, Finished
<1>6. CASE Fork(k) \/ ChildStart(k)
  <2>1. /\ child[k].pc \in {"none", "start"} /\ child'[k].pc \in {"start", "run"} /\ log' = log
        /\ thread'[k] # "done"
    BY <1>1, <1>3, <1>6 DEF Fork, ChildStart, ChildAt, Goto, Inv, Control, Before, Logged, Truth
  <2>2. /\ child'[k].handled = child[k].handled /\ child'[k].archive = child[k].archive
        /\ child'[k].files = child[k].files
    BY <1>1, <1>3, <1>6 DEF Fork, ChildStart
  <2> QED BY <1>2, <2>1, <2>2 DEF Logged, Progress, Whole, Truth, Finished
<1>7. CASE LogLine(k) \/ EndRestore(k) \/ RestoreFails(k)
  <2>1. /\ child' = child /\ thread' = thread /\ child[k].pc = "run" /\ log[k].end = "running"
    BY <1>7 DEF LogLine, EndRestore, RestoreFails
  <2>2. CASE LogLine(k)
    BY <1>1, <1>2, <2>1, <2>2 DEF LogLine, Logged, Progress, Whole, Truth, Finished
  <2>3. CASE EndRestore(k)
    BY <1>1, <1>2, <2>1, <2>3 DEF EndRestore, Logged, Progress, Whole, Truth, Finished
  <2>4. CASE RestoreFails(k)
    BY <1>1, <1>2, <2>1, <2>4 DEF RestoreFails, Logged, Progress, Whole, Truth, Finished
  <2> QED BY <1>7, <2>2, <2>3, <2>4
<1>8. CASE IgnoreLine(k) \/ LeaveOut(k) \/ AddToBrokenPipe(k) \/ AddFile(k)
  <2>1. /\ log' = log /\ thread' = thread /\ child[k].pc = "run" /\ LineReady(k)
    BY <1>8 DEF IgnoreLine, LeaveOut, AddToBrokenPipe, AddFile, ChildAt
  <2>2. /\ child'[k].pc = "run" /\ child'[k].handled = child[k].handled + 1
        /\ child'[k].files = child[k].files
    BY <1>1, <1>3, <1>8, <2>1 DEF IgnoreLine, LeaveOut, AddToBrokenPipe, AddFile
  <2>3. child[k].handled < log[k].lines
    BY <1>2, <2>1 DEF LineReady
  <2>4. Whole(k)'
    <3>1. CASE AddFile(k)
      <4>1. child'[k].archive = Append(child[k].archive, NextFile(k))
        BY <1>1, <1>3, <3>1 DEF AddFile
      <4> QED BY <2>1, <4>1, AddedIsWhole DEF Whole, Logged
    <3>2. CASE ~AddFile(k)
      <4>1. child'[k].archive = child[k].archive
        BY <1>1, <1>3, <1>8, <3>2 DEF IgnoreLine, LeaveOut, AddToBrokenPipe
      <4> QED BY <2>1, <4>1 DEF Whole, Logged
    <3> QED BY <3>1, <3>2
  <2> QED BY <1>2, <2>1, <2>2, <2>3, <2>4 DEF Logged, Progress, Truth, Finished
<1>11. CASE SendHeader(k) \/ Drain(k)
  <2>1. /\ log' = log /\ thread' = thread /\ child'[k].pc = child[k].pc
        /\ child'[k].handled = child[k].handled /\ child'[k].files = child[k].files
        /\ child'[k].archive = child[k].archive /\ child'[k].killed = child[k].killed
        /\ child'[k].code = child[k].code
    BY <1>1, <1>3, <1>11 DEF SendHeader, Drain
  <2> QED BY <2>1 DEF Logged, Progress, Whole, Truth, Reported
<1>9. CASE LookupRaises(k) \/ EndOfLog(k) \/ CloseArchive(k)
  <2>1. /\ log' = log /\ thread' = thread /\ child[k].pc \in {"run", "finally"}
    BY <1>9 DEF LookupRaises, EndOfLog, CloseArchive, LeaveFinally, ChildAt
  <2>2. /\ child'[k].pc \in {"finally", "cleanup"} /\ child'[k].handled = child[k].handled
        /\ child'[k].files = child[k].files /\ child'[k].archive = child[k].archive
        /\ child'[k].killed = child[k].killed
    BY <1>1, <1>3, <1>9, <2>1 DEF LookupRaises, EndOfLog, CloseArchive, LeaveFinally
  <2>3. Progress(k)' /\ Whole(k)'
    BY <2>1, <2>2 DEF Logged, Progress, Whole
  <2>4. thread'[k] # "done"
    BY <2>1 DEF Logged, Truth
  <2>5. CASE LookupRaises(k)
    <3>1. child'[k].code # 0
      BY <1>1, <1>3, <2>5 DEF LookupRaises, CUST_EXIT_CODE
    <3> QED BY <2>3, <2>4, <3>1 DEF Logged, Truth, Reported
  <2>6. CASE EndOfLog(k)
    <3>1. child'[k].code = ReturnCode(k) /\ log[k].end # "running" /\ child[k].handled = log[k].lines
      BY <1>1, <1>3, <2>6 DEF EndOfLog
    <3> QED BY <1>2, <2>1, <2>2, <2>3, <2>4, <3>1 DEF Logged, Truth, Reported, ReturnCode
  <2>7. CASE CloseArchive(k)
    <3>1. child'[k].code = child[k].code /\ child[k].pc = "finally"
      BY <1>1, <1>3, <2>7 DEF CloseArchive, LeaveFinally, ChildAt
    <3> QED BY <2>1, <2>2, <2>3, <2>4, <3>1 DEF Logged, Truth, Reported, Finished
  <2> QED BY <1>9, <2>5, <2>6, <2>7
<1>10. CASE CloseRaises(k) \/ CleanUp(k) \/ MkdtempFails(k) \/ Kill(k)
  <2>1. log' = log /\ thread' = thread
    BY <1>10 DEF CloseRaises, CleanUp, MkdtempFails, Kill
  <2>2. PICK c \in Child : /\ Exit(k, c) /\ c.archive = child[k].archive
                           /\ c.files = child[k].files /\ c.handled = child[k].handled
                           /\ \/ c.killed \/ c.code # 0
                              \/ child[k].pc = "cleanup" /\ c = child[k]
    <3>1. CASE CloseRaises(k) \/ MkdtempFails(k)
      <4> DEFINE c == [child[k] EXCEPT !.code = CUST_EXIT_CODE]
      <4>1. Exit(k, c)
        BY <3>1 DEF CloseRaises, MkdtempFails
      <4>2. /\ c \in Child /\ c.archive = child[k].archive /\ c.files = child[k].files
            /\ c.handled = child[k].handled /\ c.code # 0
        BY <1>1 DEF Child, CUST_EXIT_CODE
      <4> QED BY <4>1, <4>2
    <3>2. CASE CleanUp(k)
      BY <1>1, <3>2 DEF CleanUp, ChildAt
    <3>3. CASE Kill(k)
      <4> DEFINE c == [child[k] EXCEPT !.code = 0, !.killed = TRUE]
      <4>1. Exit(k, c)
        BY <3>3 DEF Kill
      <4>2. /\ c \in Child /\ c.archive = child[k].archive /\ c.files = child[k].files
            /\ c.handled = child[k].handled /\ c.killed
        BY <1>1 DEF Child
      <4> QED BY <4>1, <4>2
    <3> QED BY <1>10, <3>1, <3>2, <3>3
  <2>3. /\ child'[k].pc = "exited" /\ child'[k].archive = c.archive /\ child'[k].files = c.files
        /\ child'[k].handled = c.handled /\ child'[k].code = c.code /\ child'[k].killed = c.killed
    BY <1>1, <2>2 DEF Exit, Child
  <2>4. Progress(k)' /\ Whole(k)'
    BY <2>1, <2>2, <2>3 DEF Logged, Progress, Whole
  <2>5. Truth(k)'
    BY <2>1, <2>2, <2>3 DEF Logged, Truth, Reported, Finished
  <2> QED BY <2>4, <2>5 DEF Logged
<1> QED
  BY <1>4, <1>5, <1>6, <1>7, <1>8, <1>9, <1>10, <1>11
     DEF StepOf, Serve, Work, RdiffBackup, Fault, Request, NotRestorable, Refuse, LogRestore,
         LogRestoreFails, CloseWriter, ReadOk, ReadFail, SendChunk, EndOfStream, Disconnect, WaitChild

LEMMA LogInit == ASSUME Init PROVE LInv
<1>1. ASSUME NEW k \in Restores PROVE Logged(k)
  <2>1. /\ thread[k] = "idle" /\ child[k] = NoChild
        /\ log[k].lines = 0 /\ log[k].end = "running"
    BY DEF Init
  <2>2. /\ NoChild.pc = "none" /\ NoChild.files = 0 /\ NoChild.handled = 0
        /\ NoChild.archive = <<>>
    BY DEF NoChild
  <2> QED BY <2>1, <2>2 DEF Logged, Progress, Whole, Truth, Finished
<1> QED BY <1>1, InvInit DEF LInv

LEMMA LogStep == ASSUME LInv, [Next]_vars PROVE LInv'
<1>1. IInv'
  BY InvStep DEF LInv
<1>2. SUFFICES ASSUME NEW p \in Restores PROVE Logged(p)'
  BY <1>1 DEF LInv
<1>3. CASE UNCHANGED vars
  BY <1>3 DEF LInv, vars, Logged, Progress, Whole, Truth, Reported
<1>4. CASE Next
  <2>1. PICK k \in Restores : StepOf(k)
    BY <1>4 DEF Next, StepOf
  <2>2. CASE p = k
    BY <2>1, <2>2, LogOwnStep DEF LInv, IInv
  <2>3. CASE p # k
    <3>1. Same(p) /\ log'[p] = log[p]
      BY <2>1, <2>3, OthersSame, LogOfOthers DEF LInv, IInv
    <3> QED BY <3>1 DEF LInv, Same, Logged, Progress, Whole, Truth, Reported
  <2> QED BY <2>2, <2>3
<1> QED BY <1>3, <1>4

LEMMA LogInvariant == Spec => []LInv
<1>1. Init => LInv
  BY LogInit
<1>2. LInv /\ [Next]_vars => LInv'
  BY LogStep
<1> QED BY <1>1, <1>2, PTL DEF Spec

\* A download whose end reports no error and whose child was not killed is the whole
\* truth, for any number of downloads, files and faults, and any size of pipe and
\* buffers: the exit code is 0 only after the log was read to its end and rdiff-backup
\* succeeded, a line is handled when the next one is there, the close of the archive
\* leaves nothing in the buffers, and the client that stayed has all of it.
THEOREM Success == Spec => []SuccessIsComplete
<1>1. LInv => SuccessIsComplete
  <2> SUFFICES ASSUME LInv, NEW k \in Restores, thread[k] = "done", ~cut[k],
                      ~child[k].killed, ~Reported(k)
               PROVE  /\ log[k].end = "ok"
                      /\ child[k].handled = child[k].files
                      /\ body[k] = child[k].archive
                      /\ \A n \in DOMAIN body[k] : body[k][n][2]
    BY DEF SuccessIsComplete
  <2>1. child[k].pc = "exited" /\ log[k].end = "ok" /\ child[k].handled = child[k].files
    BY DEF LInv, Logged, Truth, Progress, Finished
  <2>2. \A n \in DOMAIN child[k].archive : child[k].archive[n][2]
    BY <2>1 DEF LInv, Logged, Whole
  <2>3. /\ child[k].archive = body[k] \o (pipe[k] \o child[k].buffer)
        /\ pipe[k] = <<>> /\ child[k].buffer = <<>>
    BY <2>1 DEF LInv, IInv, Inv, InOrder, Finished
  <2>4. body[k] \in Seq(File)
    BY DEF LInv, IInv, TypeOK
  <2>5. body[k] \o (<<>> \o <<>>) = body[k]
    BY <2>4, NothingAdded
  <2>6. body[k] = child[k].archive
    BY <2>3, <2>5
  <2> QED BY <2>1, <2>2, <2>6
<1> QED BY <1>1, LogInvariant, PTL

-----------------------------------------------------------------------------
(***************************************************************************)
(* The pipe implements a download                                          *)
(***************************************************************************)
PhaseMap   == [k \in Restores |-> Phase(k)]
ArchiveMap == [k \in Restores |-> child[k].archive]
BrokenMap  == [k \in Restores |-> child[k].killed]

\* A step for a download changes the abstract state of that download only.
LEMMA MapOfStep ==
    ASSUME TypeOK, NEW k \in Restores, StepOf(k)
    PROVE  /\ PhaseMap' = [PhaseMap EXCEPT ![k] = Phase(k)']
           /\ ArchiveMap' = [ArchiveMap EXCEPT ![k] = child'[k].archive]
           /\ BrokenMap' = [BrokenMap EXCEPT ![k] = child'[k].killed]
<1>1. ASSUME NEW p \in Restores, p # k
      PROVE  thread'[p] = thread[p] /\ cut'[p] = cut[p] /\ child'[p] = child[p]
  BY <1>1, OthersSame DEF Same
<1>2. ASSUME NEW p \in Restores, p # k PROVE Phase(p)' = Phase(p)
  BY <1>1, <1>2 DEF Phase
<1>3. PhaseMap' = [PhaseMap EXCEPT ![k] = Phase(k)']
  BY <1>2 DEF PhaseMap
<1>4. ArchiveMap' = [ArchiveMap EXCEPT ![k] = child'[k].archive]
  BY <1>1 DEF ArchiveMap
<1>5. BrokenMap' = [BrokenMap EXCEPT ![k] = child'[k].killed]
  BY <1>1 DEF BrokenMap
<1> QED BY <1>3, <1>4, <1>5

\* A move of one phase to another that keeps archive and body is one of Download.
LEMMA MoveMaps ==
    ASSUME TypeOK, NEW k \in Restores, StepOf(k),
           child'[k].archive = child[k].archive, child'[k].killed = child[k].killed,
           body' = body
    PROVE  /\ Phase(k)' = Phase(k) => UNCHANGED D!vars
           /\ D!Move(k, Phase(k), Phase(k)')
<1>1. PhaseMap \in [Restores -> {Phase(p) : p \in Restores}] /\ PhaseMap[k] = Phase(k)
  BY DEF PhaseMap
<1>2. ArchiveMap[k] = child[k].archive /\ DOMAIN ArchiveMap = Restores
      /\ ArchiveMap = [p \in Restores |-> ArchiveMap[p]]
  BY DEF ArchiveMap
<1>3. PhaseMap' = [PhaseMap EXCEPT ![k] = Phase(k)'] /\ ArchiveMap' = ArchiveMap
  BY <1>2, MapOfStep
<1>5. BrokenMap' = BrokenMap
  <2>1. BrokenMap[k] = child[k].killed /\ BrokenMap = [p \in Restores |-> BrokenMap[p]]
    BY DEF BrokenMap
  <2> QED BY <2>1, MapOfStep
<1>4. Phase(k)' = Phase(k) => PhaseMap' = PhaseMap
  BY <1>1, <1>3
<1> QED BY <1>1, <1>3, <1>4, <1>5 DEF D!vars, D!Move, PhaseMap, ArchiveMap, BrokenMap

\* What a step that says nothing of the archive leaves as it is.
LEMMA ArchiveKept ==
    ASSUME TypeOK, NEW k \in Restores, StepOf(k), ~AddFile(k)
    PROVE  /\ child'[k].archive = child[k].archive
           /\ ~Kill(k) => child'[k].killed = child[k].killed
<1>1. child[k] \in Child /\ DOMAIN child = Restores
  BY DEF TypeOK
<1>2. ASSUME NEW c, Exit(k, c), c.archive = child[k].archive, c \in Child
      PROVE  child'[k].archive = child[k].archive /\ child'[k].killed = c.killed
  BY <1>1, <1>2 DEF Exit, Child
<1>3. CASE CloseRaises(k) \/ MkdtempFails(k)
  <2> DEFINE c == [child[k] EXCEPT !.code = CUST_EXIT_CODE]
  <2>1. Exit(k, c) /\ c \in Child /\ c.archive = child[k].archive /\ c.killed = child[k].killed
    BY <1>1, <1>3 DEF CloseRaises, MkdtempFails, Child
  <2> QED BY <1>2, <2>1
<1>4. CASE CleanUp(k)
  BY <1>1, <1>2, <1>4 DEF CleanUp
<1>5. CASE Kill(k)
  <2> DEFINE c == [child[k] EXCEPT !.code = 0, !.killed = TRUE]
  <2>1. Exit(k, c) /\ c \in Child /\ c.archive = child[k].archive
    BY <1>1, <1>5 DEF Kill, Child
  <2>2. child'[k].archive = child[k].archive
    BY <1>2, <2>1
  <2> QED BY <1>5, <2>2
<1>6. CASE Request(k) \/ NotRestorable(k) \/ LogRestore(k) \/ LogRestoreFails(k)
  BY <1>6 DEF Request, NotRestorable, LogRestore, LogRestoreFails, Refuse
<1>7. CASE \E a \in Asked[k] : Pipe(k, a[1], a[2])
  BY <1>1, <1>7 DEF Pipe, Child
<1>8. CASE Fork(k) \/ ChildStart(k)
  BY <1>1, <1>8 DEF Fork, ChildStart, Child
<1>9. CASE CloseWriter(k) \/ ReadOk(k) \/ ReadFail(k) \/ SendChunk(k) \/ EndOfStream(k)
           \/ Disconnect(k) \/ WaitChild(k) \/ RdiffBackup(k) \/ RestoreFails(k)
  BY <1>9 DEF CloseWriter, ReadOk, ReadFail, SendChunk, EndOfStream, Disconnect, WaitChild,
              RdiffBackup, LogLine, EndRestore, RestoreFails
<1>10. CASE IgnoreLine(k) \/ EndOfLog(k) \/ LookupRaises(k)
  BY <1>1, <1>10 DEF IgnoreLine, EndOfLog, LookupRaises, Child
<1>11. CASE LeaveOut(k) \/ AddToBrokenPipe(k) \/ CloseArchive(k)
  BY <1>1, <1>11 DEF LeaveOut, AddToBrokenPipe, CloseArchive, LeaveFinally, Child
<1>12. CASE SendHeader(k) \/ Drain(k)
  BY <1>1, <1>12 DEF SendHeader, Drain, Child
<1> QED
  BY <1>3, <1>4, <1>5, <1>6, <1>7, <1>8, <1>9, <1>10, <1>11, <1>12
     DEF StepOf, Serve, Work, Fault

\* Which step of the pipe is which one of the download.
LEMMA StepMaps ==
    ASSUME IInv, NEW k \in Restores, StepOf(k)
    PROVE  D!Next \/ UNCHANGED D!vars
<1>1. /\ TypeOK /\ Inv(k) /\ DOMAIN thread = Restores /\ DOMAIN cut = Restores
      /\ DOMAIN body = Restores /\ DOMAIN pipe = Restores
      /\ thread[k] \in ThreadStates /\ cut[k] \in BOOLEAN
      /\ body[k] \in Seq(File) /\ pipe[k] \in Seq(File) /\ child[k].buffer \in Seq(File)
      /\ child[k].killed \in BOOLEAN /\ child[k].pc \in ChildStates
  BY ChildFields DEF IInv, TypeOK
<1>2. /\ PhaseMap[k] = Phase(k) /\ ArchiveMap[k] = child[k].archive
      /\ BrokenMap[k] = child[k].killed
  BY DEF PhaseMap, ArchiveMap, BrokenMap
<1>5. /\ PhaseMap' = [PhaseMap EXCEPT ![k] = Phase(k)']
      /\ ArchiveMap' = [ArchiveMap EXCEPT ![k] = child'[k].archive]
      /\ BrokenMap' = [BrokenMap EXCEPT ![k] = child'[k].killed]
  BY <1>1, MapOfStep
<1>3. CASE AddFile(k)
  <2>1. PICK f \in File : f = NextFile(k)
    BY <1>1, <1>3, NextIsFile DEF AddFile
  <2>2. UNCHANGED <<thread, cut, body>> /\ child[k].pc = "run"
    BY <1>3 DEF AddFile, ChildAt
  <2>3. Phase(k) \in {"busy", "sending", "cut"} /\ Phase(k)' = Phase(k)
    BY <1>1, <2>2 DEF Phase, Inv, Control, Before, Finished, ThreadStates
  <2>4. child'[k].archive = Append(child[k].archive, f) /\ child'[k].killed = child[k].killed
    <3>1. child[k] \in Child /\ DOMAIN child = Restores
      BY <1>1 DEF TypeOK
    <3> QED BY <1>3, <2>1, <3>1 DEF AddFile, Child
  <2>5. PhaseMap' = PhaseMap
    <3>1. PhaseMap' = [PhaseMap EXCEPT ![k] = Phase(k)']
      BY <1>1, MapOfStep
    <3> QED BY <1>2, <2>3, <3>1 DEF PhaseMap
  <2>6. ArchiveMap' = [ArchiveMap EXCEPT ![k] = Append(@, f)]
    <3>1. ArchiveMap' = [ArchiveMap EXCEPT ![k] = child'[k].archive]
      BY <1>1, MapOfStep
    <3> QED BY <1>2, <2>4, <3>1
  <2>8. BrokenMap' = BrokenMap /\ ~BrokenMap[k]
    BY <1>1, <1>2, <1>5, <2>2, <2>4 DEF BrokenMap, Inv, Status
  <2>7. D!Put(k, f)
    BY <1>2, <2>2, <2>3, <2>5, <2>6, <2>8 DEF D!Put, PhaseMap, ArchiveMap, BrokenMap
  <2> QED BY <2>7 DEF D!Next
<1>6. CASE Kill(k)
  <2>1. ~AddFile(k)
    <3>1. child[k] \in Child /\ DOMAIN child = Restores
      BY <1>1 DEF TypeOK
    <3>2. child'[k].pc = "exited"
      BY <1>6, <3>1 DEF Kill, Exit, Child
    <3>3. AddFile(k) => child'[k].pc = "run"
      BY <3>1 DEF AddFile, ChildAt, Child
    <3> QED BY <3>2, <3>3
  <2>2. child'[k].archive = child[k].archive
    BY <1>1, <2>1, ArchiveKept
  <2>3. child'[k].killed = TRUE
    <3> DEFINE c == [child[k] EXCEPT !.code = 0, !.killed = TRUE]
    <3>1. child[k] \in Child /\ DOMAIN child = Restores
      BY <1>1 DEF TypeOK
    <3>2. Exit(k, c) /\ c \in Child /\ c.killed = TRUE
      BY <1>6, <3>1 DEF Kill, Child
    <3> QED BY <3>1, <3>2 DEF Exit, Child
  <2>4. UNCHANGED <<thread, cut, body>> /\ ~child[k].killed
    BY <1>1, <1>6 DEF Kill, Inv, Status
  <2>5. PhaseMap' = PhaseMap
    BY <1>2, <1>5, <2>4 DEF PhaseMap, Phase
  <2>6. ArchiveMap' = ArchiveMap
    BY <1>2, <1>5, <2>2 DEF ArchiveMap
  <2>7. BrokenMap' = [BrokenMap EXCEPT ![k] = TRUE] /\ ~BrokenMap[k]
    BY <1>2, <1>5, <2>3, <2>4
  <2>8. D!Break(k)
    BY <2>4, <2>5, <2>6, <2>7 DEF D!Break, PhaseMap, ArchiveMap, BrokenMap
  <2> QED BY <2>8 DEF D!Next
<1>4. CASE ~AddFile(k) /\ ~Kill(k)
  <2>1. child'[k].archive = child[k].archive /\ child'[k].killed = child[k].killed
    BY <1>1, <1>4, ArchiveKept
  <2>2. CASE SendChunk(k)
    <3>1. thread' = thread /\ cut' = cut /\ thread[k] = "stream" /\ pipe[k] # <<>>
      BY <2>2 DEF SendChunk
    <3>2. Phase(k) = "sending" /\ Phase(k)' = Phase(k)
      BY <3>1 DEF Phase
    <3>3. PhaseMap' = PhaseMap /\ ArchiveMap' = ArchiveMap /\ BrokenMap' = BrokenMap
      BY <1>2, <1>5, <2>1, <3>2 DEF PhaseMap, ArchiveMap, BrokenMap
    <3>4. ArchiveMap[k] = body[k] \o (pipe[k] \o child[k].buffer)
      BY <1>1, <1>2, <3>1 DEF Inv, InOrder, Control
    <3>5. Len(body[k]) < Len(ArchiveMap[k]) /\ ArchiveMap[k][Len(body[k]) + 1] = Head(pipe[k])
      BY <1>1, <3>1, <3>4, SendKeepsOrder
    <3>6. body' = [body EXCEPT ![k] = Append(@, ArchiveMap[k][Len(@) + 1])]
      BY <2>2, <3>5 DEF SendChunk
    <3>7. D!Send(k)
      BY <1>2, <3>2, <3>3, <3>5, <3>6 DEF D!Send, PhaseMap, ArchiveMap, BrokenMap
    <3> QED BY <3>7 DEF D!Next
  <2>3. CASE body' = body
    <3>1. Phase(k)' = Phase(k) => UNCHANGED D!vars
      BY <1>1, <2>1, <2>3, MoveMaps
    <3>2. D!Move(k, Phase(k), Phase(k)')
      BY <1>1, <2>1, <2>3, MoveMaps
    <3>3. CASE Request(k)
      <4>1. Phase(k) = "idle" /\ Phase(k)' = "busy"
        BY <1>1, <3>3 DEF Request, Goto, Phase
      <4> QED BY <3>2, <4>1 DEF D!Next, D!Ask
    <3>4. CASE NotRestorable(k) \/ LogRestoreFails(k) \/ ReadFail(k)
      <4>1. Phase(k) = "busy" /\ Phase(k)' = "refused"
        BY <1>1, <3>4 DEF NotRestorable, LogRestoreFails, ReadFail, Refuse, Goto, Phase
      <4>2. child[k].archive = <<>> \/ child[k].killed
        <5>1. CASE NotRestorable(k) \/ LogRestoreFails(k)
          BY <1>1, <5>1 DEF NotRestorable, LogRestoreFails, Refuse, Goto, Inv, Control, Status, Before
        <5>2. CASE ReadFail(k) /\ header[k] = "fail"
          BY <1>1, <5>2 DEF Inv, Status
        <5>3. CASE ReadFail(k) /\ AtEof(k)
          <6>1. thread[k] = "header" /\ header[k] = "" /\ k \notin writers[k]
            BY <5>3 DEF ReadFail, Goto, AtEof
          <6>2. child[k].pc \in Finished /\ ~cut[k]
            BY <1>1, <6>1 DEF Inv, Control, Ends, Before, Finished, ChildStates
          <6>3. ~child[k].killed => ~child[k].open
            BY <1>1, <6>1, <6>2 DEF Inv, Status, InOrder
          <6> QED BY <1>1, <6>3 DEF Inv, Status
        <5> QED BY <3>4, <5>1, <5>2, <5>3 DEF ReadFail
      <4>3. D!Refuse(k)
        BY <1>2, <3>2, <4>1, <4>2 DEF D!Refuse, ArchiveMap, BrokenMap
      <4> QED BY <4>3 DEF D!Next
    <3>5. CASE ReadOk(k)
      <4>1. Phase(k) = "busy" /\ Phase(k)' = "sending"
        BY <1>1, <3>5 DEF ReadOk, Goto, Phase
      <4> QED BY <3>2, <4>1 DEF D!Next, D!Accept
    <3>6. CASE EndOfStream(k)
      <4>1. thread[k] = "stream" /\ thread'[k] = "wait" /\ cut' = cut /\ pipe[k] = <<>>
        BY <1>1, <3>6 DEF EndOfStream, Goto, AtEof
      <4>2. ~cut[k] /\ (child[k].archive = body[k] \/ child[k].killed)
        <5>1. ~cut[k] /\ k \notin writers[k]
          BY <1>1, <3>6, <4>1 DEF Inv, Control, EndOfStream, AtEof
        <5>2. child[k].pc \in Finished
          BY <1>1, <4>1, <5>1 DEF Inv, Control, Ends, Before, Finished, ChildStates
        <5>3. ~child[k].killed => child[k].buffer = <<>>
          BY <1>1, <5>1, <5>2 DEF Inv, InOrder
        <5>4. child[k].archive = body[k] \o (pipe[k] \o child[k].buffer)
          BY <1>1, <4>1, <5>1 DEF Inv, InOrder
        <5>5. body[k] \o (<<>> \o <<>>) = body[k]
          BY <1>1, NothingAdded
        <5> QED BY <4>1, <5>1, <5>3, <5>4, <5>5
      <4>3. Phase(k) = "sending" /\ Phase(k)' = "complete"
        BY <4>1, <4>2 DEF Phase
      <4>4. D!Complete(k)
        BY <1>2, <3>2, <4>2, <4>3 DEF D!Complete, ArchiveMap, BrokenMap
      <4> QED BY <4>4 DEF D!Next
    <3>7. CASE Disconnect(k)
      <4>1. Phase(k) = "sending" /\ Phase(k)' = "cut"
        BY <1>1, <3>7 DEF Disconnect, Goto, Phase
      <4> QED BY <3>2, <4>1 DEF D!Next, D!Cut
    <3>8. CASE LogRestore(k) \/ Fork(k) \/ CloseWriter(k) \/ WaitChild(k)
      <4>1. Phase(k)' = Phase(k)
        BY <1>1, <3>8 DEF LogRestore, Fork, CloseWriter, WaitChild, Goto, Phase
      <4> QED BY <3>1, <4>1
    <3>9. CASE \E a \in Asked[k] : Pipe(k, a[1], a[2])
      <4>1. Phase(k)' = Phase(k)
        BY <1>1, <3>9 DEF Pipe, Goto, Phase
      <4> QED BY <3>1, <4>1
    <3>10. CASE UNCHANGED <<thread, cut>>
      BY <3>1, <3>10 DEF Phase
    <3>11. Work(k) \/ RdiffBackup(k) \/ RestoreFails(k) \/ MkdtempFails(k) \/ LookupRaises(k)
             \/ Kill(k) => UNCHANGED <<thread, cut>>
      BY DEF Work, RdiffBackup, LogLine, EndRestore, RestoreFails, MkdtempFails, LookupRaises, Kill,
             ChildStart, IgnoreLine, LeaveOut, AddFile, AddToBrokenPipe, SendHeader, Drain,
             EndOfLog, CloseArchive, LeaveFinally, CloseRaises, CleanUp
    <3> QED
      BY <2>2, <3>3, <3>4, <3>5, <3>6, <3>7, <3>8, <3>9, <3>10, <3>11 DEF StepOf, Serve, Fault, SendChunk
  <2>4. SendChunk(k) \/ body' = body
    BY <1>4 DEF StepOf, Serve, Work, RdiffBackup, Fault, Request, NotRestorable, Refuse, Pipe,
                LogRestore, LogRestoreFails, Fork, CloseWriter, ReadOk, ReadFail, EndOfStream,
                Disconnect, WaitChild, LogLine, EndRestore, RestoreFails, MkdtempFails,
                LookupRaises, Kill, ChildStart, IgnoreLine, LeaveOut, AddToBrokenPipe, SendHeader,
                Drain, EndOfLog, CloseArchive, LeaveFinally, CloseRaises, CleanUp
  <2> QED BY <2>2, <2>3, <2>4
<1> QED BY <1>3, <1>4, <1>6

LEMMA InitMaps == ASSUME Init PROVE D!Init
BY DEF Init, D!Init, Phase, NoChild

\* The fork, the buffers and the pipe implement the download of Download: what a
\* client gets is a prefix of the archive, all of it when the stream ends by itself,
\* and a refusal is never one of files that were archived; for a child that was killed
\* with files in its buffers only the prefix is left.
THEOREM Refinement == Spec => ImplementsDownload
<1>1. Init => D!Init
  BY InitMaps
<1>2. IInv /\ [Next]_vars => [D!Next]_(D!vars)
  <2> SUFFICES ASSUME IInv, [Next]_vars PROVE D!Next \/ UNCHANGED D!vars
    OBVIOUS
  <2>1. CASE UNCHANGED vars
    BY <2>1 DEF vars, D!vars, Phase
  <2>2. CASE Next
    BY <2>2, StepMaps DEF Next, StepOf
  <2> QED BY <2>1, <2>2
<1> QED BY <1>1, <1>2, Invariant, PTL DEF Spec, ImplementsDownload, D!Spec
=============================================================================
