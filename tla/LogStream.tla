----------------------------- MODULE LogStream ------------------------------
(***************************************************************************)
(* InvocationLogStreamer.Stream (vm/vm/logs.go): the runner's goroutine    *)
(* receives messages and writes each into a synchronous pipe, an uploader  *)
(* goroutine puts what it reads from the pipe into the logs bucket, and a  *)
(* watcher closes the connection when the context ends.                    *)
(***************************************************************************)
EXTENDS VmLink

VARIABLES
    receiver,           \* "off", "receive", "write", "await" or "back"
    held,               \* the message the receiver has taken last
    streamErr,          \* whether the receive loop ended with an error
    uploader,           \* "off", "read", "exit" (result sent) or "gone"
    uploadErr,          \* what PutObject returned
    watcher,            \* "off", "wait" or "gone"
    log,                \* messages read from the pipe, and so far uploaded
    stored              \* whether the object is in the logs bucket

streamVars == <<receiver, held, streamErr, uploader, uploadErr, watcher, log, stored>>

NoMessage == [type |-> "none", of |-> "system", n |-> 0]

StreamTypeOK ==
    /\ receiver \in {"off", "receive", "write", "await", "back"}
    /\ held \in Messages \cup {NoMessage}
    /\ streamErr \in BOOLEAN
    /\ uploader \in {"off", "read", "exit", "gone"}
    /\ uploadErr \in BOOLEAN
    /\ watcher \in {"off", "wait", "gone"}
    /\ log \in Seq(Messages)
    /\ stored \in BOOLEAN

StreamInit ==
    /\ receiver = "off"
    /\ held = NoMessage
    /\ streamErr = FALSE
    /\ uploader = "off"
    /\ uploadErr = FALSE
    /\ watcher = "off"
    /\ log = <<>>
    /\ stored = FALSE

\* The call of Stream: both goroutines are started before the loop.
StreamBegins ==
    /\ receiver' = "receive" /\ uploader' = "read" /\ watcher' = "wait"
    /\ UNCHANGED <<held, streamErr, uploadErr, log, stored>>

\* What Stream returns: an error of the loop wins over one of the upload.
StreamFailed == streamErr \/ uploadErr

-----------------------------------------------------------------------------
\* The receive loop; leaving it closes streamDone and the pipe's writing end.
Receive ==
    /\ receiver = "receive" /\ wire # <<>>
    /\ held' = Head(wire)
    /\ wire' = Tail(wire)
    /\ receiver' = "write"
    /\ UNCHANGED <<kind, ctx, machine, conn, command,
                   streamErr, uploader, uploadErr, watcher, log, stored>>

\* Closed here, at once or after what was buffered; closed there, after all.
ReceiveFails ==
    /\ receiver = "receive"
    /\ \/ conn = "closed"
       \/ machine = "stopped" /\ wire = <<>>
    /\ streamErr' = TRUE
    /\ receiver' = "await"
    /\ UNCHANGED <<linkVars, held, uploader, uploadErr, watcher, log, stored>>

AfterWrite == receiver' = IF held.type = "done" THEN "await" ELSE "receive"

\* The pipe has no buffer: the write ends when the uploader has read it.
WriteLine ==
    /\ receiver = "write" /\ uploader = "read"
    /\ log' = Append(log, held)
    /\ AfterWrite
    /\ UNCHANGED <<linkVars, held, streamErr, uploader, uploadErr, watcher, stored>>

\* The reader is closed: the error is only printed, and the loop goes on.
WriteFails ==
    /\ receiver = "write" /\ uploader = "gone"
    /\ AfterWrite
    /\ UNCHANGED <<linkVars, held, streamErr, uploader, uploadErr, watcher, log, stored>>

AwaitUpload ==
    /\ receiver = "await" /\ uploader \in {"exit", "gone"}
    /\ receiver' = "back"
    /\ UNCHANGED <<linkVars, held, streamErr, uploader, uploadErr, watcher, log, stored>>

-----------------------------------------------------------------------------
\* PutObject is ended by MinIO or the context, before or between two reads;
\* the parts it had sent are dropped.
UploadFails ==
    /\ uploader = "read"
    /\ uploader' = "exit"
    /\ uploadErr' = TRUE
    /\ log' = <<>>
    /\ UNCHANGED <<linkVars, receiver, held, streamErr, watcher, stored>>

\* The pipe ends: with an error nothing is stored, without one it may be.
UploadEnds ==
    /\ uploader = "read" /\ receiver = "await"
    /\ uploader' = "exit"
    /\ stored' = ~streamErr
    /\ uploadErr' = streamErr
    /\ log' = IF streamErr THEN <<>> ELSE log
    /\ UNCHANGED <<linkVars, receiver, held, streamErr, watcher>>

\* Mutant of CloseReader: errChan has no buffer, so the result waits to be taken.
CloseReaderAfterHandover ==
    /\ uploader = "exit" /\ receiver = "back"
    /\ uploader' = "gone"
    /\ UNCHANGED <<linkVars, receiver, held, streamErr, uploadErr, watcher, log, stored>>

\* The deferred pr.Close, after the result is in the buffered channel.
CloseReader ==
    /\ uploader = "exit"
    /\ uploader' = "gone"
    /\ UNCHANGED <<linkVars, receiver, held, streamErr, uploadErr, watcher, log, stored>>

-----------------------------------------------------------------------------
\* streamDone
StreamClosed == receiver \in {"await", "back"}

WatcherHangsUp ==
    /\ watcher = "wait" /\ ctx = "done"
    /\ watcher' = "gone"
    /\ CloseConn
    /\ UNCHANGED <<kind, ctx, machine, command, wire,
                   receiver, held, streamErr, uploader, uploadErr, log, stored>>

WatcherEnds ==
    /\ watcher = "wait" /\ StreamClosed
    /\ watcher' = "gone"
    /\ UNCHANGED <<linkVars, receiver, held, streamErr, uploader, uploadErr, log, stored>>

ReceiverStep ==
    Receive \/ ReceiveFails \/ WriteLine \/ WriteFails \/ AwaitUpload
UploaderStep == UploadFails \/ UploadEnds \/ CloseReader
WatcherStep == WatcherHangsUp \/ WatcherEnds
StreamNext == ReceiverStep \/ UploaderStep \/ WatcherStep
=============================================================================
