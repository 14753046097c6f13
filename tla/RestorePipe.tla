---------------------------- MODULE RestorePipe ----------------------------
(***************************************************************************)
(* A download of files of an earlier backup.  The thread that serves it    *)
(* makes a pipe and forks; the child runs rdiff-backup into a temporary    *)
(* directory, follows its log, and writes an archive of the files that are *)
(* complete, which the thread streams to the client.  What the child        *)
(* writes stays in the buffers of the archiver and of the file object that *)
(* wraps the pipe until a later write, or the close, drains them.          *)
(*                                                                         *)
(* rdiffweb/core/restore.py, RdiffRepo.restore in librdiff.py and          *)
(* controller/page_restore.py.                                             *)
(***************************************************************************)
EXTENDS Naturals, Sequences

CONSTANTS
    Restores,       \* downloads; the child of a download has its name
    Server,         \* the server's own process
    Asked,          \* bound: what each asks for, directory or not and the kind of archive
    MaxFiles,       \* bound: files rdiff-backup restores for one download
    Capacity,       \* bound: files the pipe holds before a write has to wait
    BufferSize,     \* bound: files the child's buffers hold before a write drains them
    MaxFaults       \* bound: failing operations

ASSUME BoundsAssumption == /\ MaxFiles \in Nat /\ MaxFaults \in Nat
                            /\ Capacity \in Nat \ {0} /\ BufferSize \in Nat \ {0}
ASSUME AskedAssumption == Asked \in [Restores -> SUBSET (BOOLEAN \X {"none", "tar", "zip", "raw"})]
ASSUME ServerAssumption == Server \notin Restores

VARIABLES
    thread,             \* where the request that asked for each download is
    child,              \* the forked process
    log,                \* rdiff-backup: lines logged, and how it ended
    header, pipe,       \* unread content of the pipe: status line, files
    readers, writers,   \* processes that hold an end of the pipe
    body,               \* what the client has received
    cut,                \* the client went away before the end
    tmp,                \* the temporary directory exists
    faults              \* operations that failed so far

vars == <<thread, child, log, header, pipe, readers, writers, body, cut, tmp, faults>>
ends == <<readers, writers>>

Processes == Restores \cup {Server}

\* The n-th file logged, and whether rdiff-backup had finished writing it.
File == (1..MaxFiles) \X BOOLEAN

ThreadStates == {"idle", "asked", "logged", "piped", "forked", "header", "stream", "wait", "done", "refused"}
ChildStates  == {"none", "start", "run", "finally", "cleanup", "exited"}

Kinds == {"", "tar", "zip", "raw"}

CUST_EXIT_CODE == 65

Child == [pc : ChildStates, kind : Kinds, files : 0..MaxFiles,
          handled : 0..MaxFiles, open : BOOLEAN, told : BOOLEAN,
          archive : Seq(File), buffer : Seq(File),
          code : {0, 1, CUST_EXIT_CODE}, killed : BOOLEAN]

NoChild == [pc |-> "none", kind |-> "", files |-> 0, handled |-> 0, open |-> FALSE,
            told |-> FALSE, archive |-> <<>>, buffer |-> <<>>, code |-> 0, killed |-> FALSE]

Init ==
    /\ thread = [k \in Restores |-> "idle"]
    /\ child = [k \in Restores |-> NoChild]
    /\ log = [k \in Restores |-> [lines |-> 0, end |-> "running"]]
    /\ header = [k \in Restores |-> ""]
    /\ pipe = [k \in Restores |-> <<>>]
    /\ readers = [k \in Restores |-> {}]
    /\ writers = [k \in Restores |-> {}]
    /\ body = [k \in Restores |-> <<>>]
    /\ cut = [k \in Restores |-> FALSE]
    /\ tmp = [k \in Restores |-> FALSE]
    /\ faults = 0

-----------------------------------------------------------------------------
(***************************************************************************)
(* The thread of the server                                                *)
(***************************************************************************)
Goto(k, from, to) ==
    /\ thread[k] = from
    /\ thread' = [thread EXCEPT ![k] = to]

\* No archive of a single file unless asked for, and no raw directory.
ArchiveKind(isdir, kind) == IF kind # "none" THEN kind ELSE IF isdir THEN "zip" ELSE "raw"

Refuse(k, from) ==
    /\ Goto(k, from, "refused")
    /\ UNCHANGED <<child, log, header, pipe, ends, body, cut, tmp>>

\* RestorePage._raw: the kind is a known one and the user may read the repository.
Request(k) ==
    /\ Goto(k, "idle", "asked")
    /\ UNCHANGED <<child, log, header, pipe, ends, body, cut, tmp, faults>>

\* "Log activity": the message is committed before anything is restored.
LogRestore(k) ==
    /\ Goto(k, "asked", "logged")
    /\ UNCHANGED <<child, log, header, pipe, ends, body, cut, tmp, faults>>

LogRestoreFails(k) ==
    /\ faults < MaxFaults
    /\ faults' = faults + 1
    /\ Refuse(k, "asked")

\* The path is gone, or is a directory that was asked for as it is.
NotRestorable(k) == Refuse(k, "logged") /\ UNCHANGED faults

\* The path exists and os.pipe() made a pipe: both ends are the server's.
Pipe(k, isdir, kind) ==
    /\ Goto(k, "logged", "piped")
    /\ ~(isdir /\ kind = "raw")
    /\ child' = [child EXCEPT ![k].kind = ArchiveKind(isdir, kind),
                              ![k].files = IF isdir \/ MaxFiles = 0 THEN MaxFiles ELSE 1]
    /\ readers' = [readers EXCEPT ![k] = {Server}]
    /\ writers' = [writers EXCEPT ![k] = {Server}]
    /\ UNCHANGED <<log, header, pipe, body, cut, tmp, faults>>

\* What a child inherits: every end the server has open, of whatever download.
Inherited(held, k) == [p \in Restores |-> IF Server \in held[p] THEN held[p] \cup {k} ELSE held[p]]

Fork(k) ==
    /\ Goto(k, "piped", "forked")
    /\ child' = [child EXCEPT ![k].pc = "start"]
    /\ readers' = Inherited(readers, k)
    /\ writers' = Inherited(writers, k)
    /\ UNCHANGED <<log, header, pipe, body, cut, tmp, faults>>

\* Mutant: the parent keeps its writing end.
CloseWriterNot(k) ==
    /\ Goto(k, "forked", "header")
    /\ UNCHANGED <<child, log, header, pipe, ends, body, cut, tmp, faults>>

\* "Parent - Close unused end"
CloseWriter(k) ==
    /\ Goto(k, "forked", "header")
    /\ writers' = [writers EXCEPT ![k] = @ \ {Server}]
    /\ UNCHANGED <<child, log, header, pipe, readers, body, cut, tmp, faults>>

\* End of file: nothing unread, and no process left that could write.
AtEof(k) == header[k] = "" /\ pipe[k] = <<>> /\ writers[k] = {}

CloseReader(k) == readers' = [readers EXCEPT ![k] = @ \ {Server}]

\* fileobj.readline() returns "ok".
ReadOk(k) ==
    /\ header[k] = "ok"
    /\ Goto(k, "header", "stream")
    /\ header' = [header EXCEPT ![k] = ""]
    /\ UNCHANGED <<child, log, pipe, ends, body, cut, tmp, faults>>

\* Anything else raises RestoreException: nobody waits for the child.
ReadFail(k) ==
    /\ header[k] = "fail" \/ AtEof(k)
    /\ Goto(k, "header", "refused")
    /\ header' = [header EXCEPT ![k] = ""]
    /\ CloseReader(k)
    /\ UNCHANGED <<child, log, pipe, writers, body, cut, tmp, faults>>

\* _file_generator: the next chunk goes to the client.
SendChunk(k) ==
    /\ thread[k] = "stream"
    /\ pipe[k] # <<>>
    /\ body' = [body EXCEPT ![k] = Append(@, Head(pipe[k]))]
    /\ pipe' = [pipe EXCEPT ![k] = Tail(@)]
    /\ UNCHANGED <<thread, child, log, header, ends, cut, tmp, faults>>

\* The stream is closed at its end, or because the client went away.
EndOfStream(k) ==
    /\ AtEof(k)
    /\ Goto(k, "stream", "wait")
    /\ CloseReader(k)
    /\ UNCHANGED <<child, log, header, pipe, writers, body, cut, tmp, faults>>

Disconnect(k) ==
    /\ Goto(k, "stream", "wait")
    /\ CloseReader(k)
    /\ cut' = [cut EXCEPT ![k] = TRUE]
    /\ UNCHANGED <<child, log, header, pipe, writers, body, tmp, faults>>

\* os.waitpid
WaitChild(k) ==
    /\ child[k].pc = "exited"
    /\ Goto(k, "wait", "done")
    /\ UNCHANGED <<child, log, header, pipe, ends, body, cut, tmp, faults>>

\* exit_status >> 8: an error was logged.  A child killed by a signal has
\* its number in the low byte, so that the shift leaves nothing of it.
Reported(k) == child[k].code # 0

-----------------------------------------------------------------------------
(***************************************************************************)
(* rdiff-backup                                                            *)
(***************************************************************************)
LogLine(k) ==
    /\ child[k].pc = "run"
    /\ log[k].end = "running"
    /\ log[k].lines < child[k].files
    /\ log' = [log EXCEPT ![k].lines = @ + 1]
    /\ UNCHANGED <<thread, child, header, pipe, ends, body, cut, tmp, faults>>

EndRestore(k) ==
    /\ child[k].pc = "run"
    /\ log[k].end = "running"
    /\ log[k].lines = child[k].files
    /\ log' = [log EXCEPT ![k].end = "ok"]
    /\ UNCHANGED <<thread, child, header, pipe, ends, body, cut, tmp, faults>>

RestoreFails(k) ==
    /\ child[k].pc = "run"
    /\ log[k].end = "running"
    /\ faults < MaxFaults
    /\ log' = [log EXCEPT ![k].end = "failed"]
    /\ faults' = faults + 1
    /\ UNCHANGED <<thread, child, header, pipe, ends, body, cut, tmp>>

-----------------------------------------------------------------------------
(***************************************************************************)
(* The child                                                               *)
(***************************************************************************)
ChildAt(k, pc) == child[k].pc = pc

\* "Child - Close unused end", and mkdtemp.
ChildStart(k) ==
    /\ ChildAt(k, "start")
    /\ child' = [child EXCEPT ![k].pc = "run"]
    /\ readers' = [readers EXCEPT ![k] = @ \ {k}]
    /\ tmp' = [tmp EXCEPT ![k] = TRUE]
    /\ UNCHANGED <<thread, log, header, pipe, writers, body, cut, faults>>

\* os._exit: the ends of all pipes it held are closed.
Exit(k, c) ==
    /\ child' = [child EXCEPT ![k] = [c EXCEPT !.pc = "exited"]]
    /\ readers' = [p \in Restores |-> readers[p] \ {k}]
    /\ writers' = [p \in Restores |-> writers[p] \ {k}]

\* mkdtemp raises: nothing was written, not even a header.
MkdtempFails(k) ==
    /\ ChildAt(k, "start")
    /\ faults < MaxFaults
    /\ Exit(k, [child[k] EXCEPT !.code = CUST_EXIT_CODE])
    /\ faults' = faults + 1
    /\ UNCHANGED <<thread, log, header, pipe, body, cut, tmp>>

\* _yield_previous_lines: a line is handled when the next one, or the end, is there.
\* Mutant: a line is handled as soon as it is logged.
LineReadyAtOnce(k) == child[k].handled < log[k].lines
LineReady(k) == child[k].handled + (IF log[k].end = "running" THEN 1 ELSE 0) < log[k].lines

\* Whether the next file is all there: rdiff-backup went on to another, or is done.
NextFile(k) ==
    LET n == child[k].handled + 1 IN <<n, n < log[k].lines \/ log[k].end = "ok">>

\* Not a log line of a file, or the file cannot be found.
IgnoreLine(k) ==
    /\ ChildAt(k, "run") /\ LineReady(k)
    /\ child' = [child EXCEPT ![k].handled = @ + 1]
    /\ UNCHANGED <<thread, log, header, pipe, ends, body, cut, tmp, faults>>

\* The archive has no place for it ("./", a link in a zip), or reading it failed.
LeaveOut(k) ==
    /\ ChildAt(k, "run") /\ LineReady(k)
    /\ child' = [child EXCEPT ![k].handled = @ + 1, ![k].open = TRUE]
    /\ UNCHANGED <<thread, log, header, pipe, ends, body, cut, tmp, faults>>

\* The first file opens the archive; what is written goes to the buffers.
AddFile(k) ==
    /\ ChildAt(k, "run") /\ LineReady(k)
    /\ Len(child[k].buffer) < BufferSize
    /\ child' = [child EXCEPT ![k].handled = @ + 1, ![k].open = TRUE,
                              ![k].archive = Append(@, NextFile(k)),
                              ![k].buffer = Append(@, NextFile(k))]
    /\ UNCHANGED <<thread, log, header, pipe, ends, body, cut, tmp, faults>>

\* A write is under way: to the archive, or the last ones of its close.
Writing(k) == child[k].open /\ ((ChildAt(k, "run") /\ LineReady(k)) \/ ChildAt(k, "finally"))

\* What was written first, the status line, leaves the buffers.
SendHeader(k) ==
    /\ Writing(k) /\ ~child[k].told
    /\ readers[k] # {}
    /\ header' = [header EXCEPT ![k] = "ok"]
    /\ child' = [child EXCEPT ![k].told = TRUE]
    /\ UNCHANGED <<thread, log, pipe, ends, body, cut, tmp, faults>>

\* The rest of the file that was written next leaves them; it has to wait while
\* the pipe is full.
Drain(k) ==
    /\ Writing(k) /\ child[k].told /\ child[k].buffer # <<>>
    /\ readers[k] # {} /\ Len(pipe[k]) < Capacity
    /\ pipe' = [pipe EXCEPT ![k] = Append(@, Head(child[k].buffer))]
    /\ child' = [child EXCEPT ![k].buffer = Tail(@)]
    /\ UNCHANGED <<thread, log, header, ends, body, cut, tmp, faults>>

\* Nobody reads any more: BrokenPipeError is caught and the next file is tried.
AddToBrokenPipe(k) ==
    /\ ChildAt(k, "run") /\ LineReady(k)
    /\ readers[k] = {}
    /\ child' = [child EXCEPT ![k].handled = @ + 1, ![k].open = TRUE]
    /\ UNCHANGED <<thread, log, header, pipe, ends, body, cut, tmp, faults>>

\* Mutant: without the finally.
LookupRaisesOut(k) ==
    /\ ChildAt(k, "run")
    /\ faults < MaxFaults
    /\ Exit(k, [child[k] EXCEPT !.code = CUST_EXIT_CODE])
    /\ faults' = faults + 1
    /\ UNCHANGED <<thread, log, header, pipe, body, cut, tmp>>

\* os.listdir in _lookup_filename, or Popen, raises out of the loop.
LookupRaises(k) ==
    /\ ChildAt(k, "run")
    /\ LineReady(k) \/ log[k].lines = 0
    /\ faults < MaxFaults
    /\ child' = [child EXCEPT ![k].pc = "finally", ![k].code = CUST_EXIT_CODE]
    /\ faults' = faults + 1
    /\ UNCHANGED <<thread, log, header, pipe, ends, body, cut, tmp>>

\* proc.wait(): what rdiff-backup returned is what the child will return.
ReturnCode(k) == IF log[k].end = "failed" THEN 1 ELSE 0

EndOfLog(k) ==
    /\ ChildAt(k, "run")
    /\ log[k].end # "running" /\ child[k].handled = log[k].lines
    /\ child' = [child EXCEPT ![k].pc = "finally", ![k].code = ReturnCode(k)]
    /\ UNCHANGED <<thread, log, header, pipe, ends, body, cut, tmp, faults>>

\* tar and raw close the pipe, zip leaves that to the exit.
ClosesPipe(kind) == kind # "zip"

\* An archive ends with bytes of its own, a file sent as it is does not.
HasTrailer(kind) == kind # "raw"

\* Every byte written so far is in the pipe.
Drained(k) == child[k].told /\ child[k].buffer = <<>>

\* What all closes do; what is left in the buffers is lost with os._exit.
LeaveFinally(k) ==
    /\ ChildAt(k, "finally")
    /\ header' = IF child[k].open THEN header ELSE [header EXCEPT ![k] = "fail"]
    /\ writers' = IF child[k].open /\ ClosesPipe(child[k].kind) THEN [writers EXCEPT ![k] = @ \ {k}]
                  ELSE writers
    /\ child' = [child EXCEPT ![k].pc = "cleanup"]
    /\ UNCHANGED <<thread, log, pipe, readers, body, cut, tmp, faults>>

\* Mutant: a close that does not flush what was written.
CloseArchiveUnflushed(k) == LeaveFinally(k)

\* finally: the archive gets its last bytes and all of it is flushed, or the
\* status line says, flushed at once, that there is none.
CloseArchive(k) ==
    /\ LeaveFinally(k)
    /\ child[k].open =>
         /\ Drained(k)
         /\ HasTrailer(child[k].kind) => readers[k] # {} /\ Len(pipe[k]) < Capacity

\* Nobody reads any more: closing raises and what follows is not done.
CloseRaises(k) ==
    /\ ChildAt(k, "finally")
    /\ child[k].open /\ readers[k] = {}
    /\ HasTrailer(child[k].kind) \/ ~Drained(k)
    /\ Exit(k, [child[k] EXCEPT !.code = CUST_EXIT_CODE])
    /\ UNCHANGED <<thread, log, header, pipe, body, cut, tmp, faults>>

\* "Clean-up the directory."
CleanUp(k) ==
    /\ ChildAt(k, "cleanup")
    /\ tmp' = [tmp EXCEPT ![k] = FALSE]
    /\ Exit(k, child[k])
    /\ UNCHANGED <<thread, log, header, pipe, body, cut, faults>>

\* The system kills the child, and what is in its buffers is lost.
Kill(k) ==
    /\ child[k].pc \in {"start", "run", "finally", "cleanup"}
    /\ faults < MaxFaults
    /\ Exit(k, [child[k] EXCEPT !.code = 0, !.killed = TRUE])
    /\ faults' = faults + 1
    /\ UNCHANGED <<thread, log, header, pipe, body, cut, tmp>>

-----------------------------------------------------------------------------
Serve(k) ==
    \/ LogRestore(k) \/ Fork(k) \/ CloseWriter(k) \/ ReadOk(k) \/ ReadFail(k)
    \/ SendChunk(k) \/ EndOfStream(k) \/ WaitChild(k)

Work(k) ==
    \/ ChildStart(k) \/ IgnoreLine(k) \/ LeaveOut(k) \/ AddFile(k) \/ AddToBrokenPipe(k)
    \/ SendHeader(k) \/ Drain(k) \/ EndOfLog(k) \/ CloseArchive(k) \/ CloseRaises(k) \/ CleanUp(k)

RdiffBackup(k) == LogLine(k) \/ EndRestore(k)

Fault(k) == LogRestoreFails(k) \/ MkdtempFails(k) \/ RestoreFails(k) \/ LookupRaises(k) \/ Kill(k)

Next == \E k \in Restores :
    \/ Request(k) \/ NotRestorable(k)
    \/ \E a \in Asked[k] : Pipe(k, a[1], a[2])
    \/ Serve(k) \/ Disconnect(k) \/ Work(k) \/ RdiffBackup(k) \/ Fault(k)

Spec == Init /\ [][Next]_vars

\* Threads and processes keep running and the client reads or goes away.
Fairness == \A k \in Restores : /\ WF_vars(Serve(k))
                                /\ WF_vars(Work(k))
                                /\ WF_vars(RdiffBackup(k))

FairSpec == Spec /\ Fairness

-----------------------------------------------------------------------------
(***************************************************************************)
(* Properties                                                              *)
(***************************************************************************)
\* The variables have the types of the objects, pipes and processes they model.
TypeOK ==
    /\ thread \in [Restores -> ThreadStates]
    /\ child \in [Restores -> Child]
    /\ log \in [Restores -> [lines : 0..MaxFiles, end : {"running", "ok", "failed"}]]
    /\ header \in [Restores -> {"", "ok", "fail"}]
    /\ pipe \in [Restores -> Seq(File)]
    /\ readers \in [Restores -> SUBSET Processes]
    /\ writers \in [Restores -> SUBSET Processes]
    /\ body \in [Restores -> Seq(File)]
    /\ cut \in [Restores -> BOOLEAN]
    /\ tmp \in [Restores -> BOOLEAN]
    /\ faults \in 0..MaxFaults

\* A download that ended without a log of an error (_wrap_close.close), and whose
\* child the system did not kill, is the whole truth: rdiff-backup succeeded, every
\* file it logged was looked at, no file was archived before rdiff-backup had finished
\* writing it, and what was archived got through the buffers and the pipe.
SuccessIsComplete ==
    \A k \in Restores :
        (thread[k] = "done" /\ ~cut[k] /\ ~child[k].killed /\ ~Reported(k)) =>
            /\ log[k].end = "ok"
            /\ child[k].handled = child[k].files
            /\ body[k] = child[k].archive
            /\ \A n \in DOMAIN body[k] : body[k][n][2]

\* A client that stays gets files that were archived, in the order they were and
\* without gaps; it gets all of them, and one that is refused misses none, unless the
\* child was killed with some of them in its buffers: the pipe implements a download.
Phase(k) ==
    CASE thread[k] = "idle" -> "idle"
      [] thread[k] \in {"asked", "logged", "piped", "forked", "header"} -> "busy"
      [] thread[k] = "stream" -> "sending"
      [] thread[k] = "refused" -> "refused"
      [] OTHER -> IF cut[k] THEN "cut" ELSE "complete"

D == INSTANCE Download WITH phase   <- [k \in Restores |-> Phase(k)],
                            archive <- [k \in Restores |-> child[k].archive],
                            broken  <- [k \in Restores |-> child[k].killed]

ImplementsDownload == D!Spec

\* The temporary directory is deleted with the child ("This location will be
\* deleted after restore"), but for a client that went away or a killed child.
LeftBehind(k) == tmp[k] /\ child[k].pc = "exited"

RemovedUnlessCut ==
    \A k \in Restores : LeftBehind(k) => cut[k] \/ child[k].killed

\* Another child holds the read end of k's pipe: a full pipe blocks for ever.
ReadElsewhere(k) == readers[k] \ {Server, k} # {}

\* A thread gets free again, whatever fails and whoever goes away; but for a
\* pipe whose read end was inherited by the child of another download.
ThreadIsFreed ==
    \A k \in Restores :
        thread[k] = "piped" ~> (thread[k] \in {"done", "refused"} \/ ReadElsewhere(k))
=============================================================================
