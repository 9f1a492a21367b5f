-------------------------------- MODULE Writer --------------------------------
(***************************************************************************)
(* drain() and _Writer of saturate/writer.py: drain takes finished rows    *)
(* from the results and puts them in a bounded queue; the writer task      *)
(* takes whatever waits there and has one thread append it to the sink.    *)
(* However the reading ends, a cleanup task hands over what is left and    *)
(* waits for the last flush, while drain waits for it in turn.             *)
(*                                                                         *)
(* Rows are numbered in the order they finish.  An action is what a task   *)
(* does between two awaits, or one call of the sink in the thread.         *)
(***************************************************************************)
EXTENDS Naturals, Sequences

CONSTANTS
  NumRows,     \* how many rows the run may finish
  QueueSize,   \* WRITER_QUEUE
  Timer,       \* has the sink a flush interval?
  Twice        \* may the caller cancel again while drain waits?

ASSUME WriterAssumption ==
  /\ NumRows \in Nat /\ QueueSize \in Nat \ {0} /\ Timer \in BOOLEAN /\ Twice \in BOOLEAN

VARIABLES
  finished, results, stream,         \* the run: rows finished, those waiting to be taken
  drain, holding, cut, caller, here, \* drain; was its reading cancelled by the writer
  cleanup, todo,                     \* the cleanup task, and the rows it has to hand over
  queue, next, ended,                \* the writer's queue, its pending get, the end taken
  writer, batch, oldest, failure,    \* the writer task; is there a row not yet flushed
  appended, buf, stored,             \* the sink: what it was given, holds, has written
  logged, broken, first, outcome     \* what went wrong, and what the caller got

run     == <<finished, results, stream>>
reading == <<drain, holding, cut, caller, here>>
closing == <<cleanup, todo>>
channel == <<queue, next, ended>>
working == <<writer, batch, oldest, failure>>
sink    == <<appended, buf, stored>>
history == <<logged, broken, first, outcome>>
vars == <<run, reading, closing, channel, working, sink, history>>

Rows == 1..NumRows
None    == 0             \* no row, no get
END     == NumRows + 1   \* _END
Pending == NumRows + 2   \* a get that waits for a row

Init ==
  /\ finished = 0 /\ results = <<>> /\ stream = "open"
  /\ drain = "take" /\ holding = None /\ cut = FALSE /\ caller = "none" /\ here = FALSE
  /\ cleanup = "none" /\ todo = <<>>
  /\ queue = <<>> /\ next = Pending /\ ended = FALSE
  /\ writer = "next" /\ batch = <<>> /\ oldest = FALSE /\ failure = FALSE
  /\ appended = <<>> /\ buf = {} /\ stored = {}
  /\ logged = FALSE /\ broken = FALSE /\ first = "none" /\ outcome = "none"
Room == Len(queue) < QueueSize

\* What fails first, of drain's caller and the writing.
Note(what) == first' = IF first = "none" THEN what ELSE first

-----------------------------------------------------------------------------
(* The run, as drain sees it through Results (Pipeline).                    *)

RowFinishes ==
  /\ stream = "open" /\ finished < NumRows
  /\ finished' = finished + 1 /\ results' = Append(results, finished + 1)
  /\ UNCHANGED <<stream, reading, closing, channel, working, sink, history>>

\* The input ended, or the run failed: the error is through's to raise.
StreamEnds ==
  /\ stream = "open" /\ stream' = "closed"
  /\ UNCHANGED <<finished, results, reading, closing, channel, working, sink, history>>

-----------------------------------------------------------------------------
(* drain.                                                                   *)

\* put() does not wait while there is room.
Take ==
  /\ drain = "take" /\ results # <<>> /\ results' = Tail(results)
  /\ \/ Room /\ queue' = Append(queue, Head(results)) /\ UNCHANGED <<drain, holding>>
     \/ ~Room /\ drain' = "put" /\ holding' = Head(results) /\ UNCHANGED queue
  /\ UNCHANGED <<finished, stream, cut, caller, here, closing, next, ended, working, sink, history>>

Put ==
  /\ drain = "put" /\ Room
  /\ queue' = Append(queue, holding) /\ drain' = "take" /\ holding' = None
  /\ UNCHANGED <<run, cut, caller, here, closing, next, ended, working, sink, history>>

\* The reading is left: cleanup is made, and drain waits for it (_wait_out).
Leave(error) ==
  /\ drain' = "waiting" /\ caller' = error
  /\ cleanup' = IF error = "cancel" THEN "stop" ELSE "end"

SeeEnd ==
  /\ drain = "take" /\ results = <<>> /\ stream = "closed" /\ Leave("none")
  /\ UNCHANGED <<run, holding, cut, here, todo, channel, working, sink, history>>

\* Any other iterable of finished rows may raise.
StreamRaises ==
  /\ drain = "take" /\ results = <<>> /\ stream = "open" /\ stream' = "raised"
  /\ Leave("error") /\ Note("error")
  /\ UNCHANGED <<finished, results, holding, cut, here, todo, channel, working, sink,
                 logged, broken, outcome>>

\* The writer's reading.cancel() is delivered: the scope ends the reading.
CutShort ==
  /\ drain \in {"take", "put"} /\ cut /\ Leave("none") /\ holding' = None
  /\ UNCHANGED <<run, cut, here, todo, channel, working, sink, history>>

\* The caller cancels drain: while it reads, its row goes to the cleanup; while it
\* waits, once is remembered and twice ends the waiting.  A cancel that arrives with the one
\* the cleanup or a failed write causes (cut) is merged with it by anyio and left out.
Cancel ==
  /\ \/ /\ drain \in {"take", "put"} /\ ~cut /\ Leave("cancel")
        /\ UNCHANGED <<here, outcome>>
     \/ /\ drain = "waiting" /\ caller # "cancel" /\ ~here /\ here' = TRUE
        /\ UNCHANGED <<drain, caller, cleanup, outcome>>
     \/ /\ drain = "waiting" /\ (caller = "cancel" \/ here) /\ Twice
        /\ drain' = "over" /\ outcome' = "cancel" /\ UNCHANGED <<caller, cleanup, here>>
  /\ Note("cancel")
  /\ UNCHANGED <<run, holding, cut, todo, channel, working, sink, logged, broken>>

\* The cleanup is done: drain raises or returns.
DrainEnds ==
  /\ drain = "waiting" /\ cleanup = "done" /\ drain' = "over"
  /\ outcome' = IF here THEN "cancel"
                ELSE IF caller # "none" THEN caller
                ELSE IF failure THEN "write" ELSE "returned"
  /\ logged' = (logged \/ (~here /\ caller # "none" /\ failure))
  /\ UNCHANGED <<run, holding, cut, caller, here, closing, channel, working, sink, broken, first>>

-----------------------------------------------------------------------------
(* _close, in a task of its own.                                            *)

StoppedForgetful == results                \* mutant: not the row drain holds
Stopped == IF holding = None THEN results ELSE <<holding>> \o results

\* After stop() no row finishes; the row that drain held and the ones that wait are left.
RunStopped ==
  /\ cleanup = "stop" /\ cleanup' = "end" /\ stream' = "closed"
  /\ todo' = Stopped /\ results' = <<>> /\ holding' = None
  /\ UNCHANGED <<finished, drain, cut, caller, here, channel, working, sink, history>>

HandOver ==
  /\ cleanup = "end" /\ todo # <<>> /\ Room
  /\ queue' = Append(queue, Head(todo)) /\ todo' = Tail(todo)
  /\ UNCHANGED <<run, reading, cleanup, next, ended, working, sink, history>>

\* finish(): no more rows.
SendEnd ==
  /\ cleanup = "end" /\ todo = <<>> /\ Room
  /\ queue' = Append(queue, END) /\ cleanup' = "wait"
  /\ UNCHANGED <<run, reading, todo, next, ended, working, sink, history>>

CleanupDone ==
  /\ cleanup = "wait" /\ writer = "done" /\ cleanup' = "done"
  /\ UNCHANGED <<run, reading, todo, channel, working, sink, history>>

-----------------------------------------------------------------------------
(* The writer task (_run, _next_batch).                                     *)

\* The pending get takes a row, also while a timed flush runs.
GetRow ==
  /\ next = Pending /\ queue # <<>> /\ next' = Head(queue) /\ queue' = Tail(queue)
  /\ UNCHANGED <<run, reading, closing, ended, working, sink, history>>

\* What the writer does next: ask for rows, or, after the end, the last flush.
GoOn(end, get) ==
  /\ writer' = (IF end THEN "last" ELSE "next")
  /\ next' = IF end \/ get # None THEN get ELSE Pending

Waiting == <<next>> \o queue
HasEnd(s) == \E k \in DOMAIN s : s[k] = END
\* [d for d in batch if d is not _END]: the end is the last to be put (EndIsLast).
RowsOf(s) == IF HasEnd(s) THEN SubSeq(s, 1, Len(s) - 1) ELSE s

\* Every row that waits is taken; after a failure they are dropped.
NextBatch ==
  /\ writer = "next" /\ next \notin {None, Pending}
  /\ queue' = <<>> /\ ended' = HasEnd(Waiting)
  /\ \/ /\ failure \/ RowsOf(Waiting) = <<>>
        /\ GoOn(ended', None) /\ UNCHANGED <<batch, oldest>>
     \/ /\ ~failure /\ RowsOf(Waiting) # <<>>
        /\ batch' = RowsOf(Waiting) /\ oldest' = TRUE /\ writer' = "append" /\ next' = None
  /\ UNCHANGED <<run, reading, closing, failure, sink, history>>

QuietNever == FALSE                        \* mutant: no timer, only rows make the sink flush
\* The oldest row not yet flushed is flush_interval_s old and no row has come.
Quiet ==
  /\ Timer /\ writer = "next" /\ next = Pending /\ oldest /\ ~failure
  /\ writer' = "flush"
  /\ UNCHANGED <<run, reading, closing, channel, batch, oldest, failure, sink, history>>

-----------------------------------------------------------------------------
(* The calls of the sink, in the writer's thread (_append, _flush, _finish; *)
(* _call).                                                                  *)

\* The next row of the batch is given to the sink, which may flush: it is full.
AppendRow ==
  /\ writer = "append" /\ appended' = Append(appended, Head(batch)) /\ batch' = Tail(batch)
  /\ \/ buf' = buf \cup {Head(batch)} /\ UNCHANGED stored
     \/ buf' = {} /\ stored' = stored \cup buf \cup {Head(batch)}
  /\ IF batch' = <<>> THEN GoOn(ended, next) ELSE UNCHANGED <<writer, next>>
  /\ UNCHANGED <<run, reading, closing, queue, ended, oldest, failure, history>>

CallFailedAlone ==                         \* mutant: the reading is not cancelled
  /\ failure' = TRUE /\ broken' = TRUE /\ Note("write") /\ batch' = <<>>
  /\ UNCHANGED <<cut, logged, outcome>> /\ GoOn(ended, next)

\* A call raised: reading stops, and the rows of the batch are not tried any more.
CallFailed ==
  /\ failure' = TRUE /\ broken' = TRUE /\ Note("write") /\ batch' = <<>>
  /\ cut' = (cut \/ drain \in {"take", "put"}) /\ GoOn(ended, next)
  /\ UNCHANGED <<logged, outcome>>

\* The sink did not take the row, or took it and could not flush.
AppendFails ==
  /\ writer = "append" /\ CallFailed
  /\ \/ UNCHANGED sink
     \/ /\ appended' = Append(appended, Head(batch)) /\ buf' = buf \cup {Head(batch)}
        /\ UNCHANGED stored
  /\ UNCHANGED <<run, drain, holding, caller, here, closing, queue, ended, oldest>>

Flushed == stored' = stored \cup buf /\ buf' = {} /\ oldest' = FALSE /\ UNCHANGED appended

FlushWorks ==
  /\ writer = "flush" /\ Flushed /\ GoOn(ended, next)
  /\ UNCHANGED <<run, reading, closing, queue, ended, batch, failure, history>>

FlushFails ==
  /\ writer = "flush" /\ CallFailed
  /\ UNCHANGED <<run, drain, holding, caller, here, closing, queue, ended, oldest, sink>>

LastFlushSkipped ==                        \* mutant: no last flush after a failure of the caller
  /\ writer = "last" /\ writer' = "done"
  /\ IF caller = "none" THEN Flushed ELSE UNCHANGED <<sink, oldest>>
  /\ UNCHANGED <<run, reading, closing, channel, batch, failure, history>>

LastFlushWorks ==
  /\ writer = "last" /\ writer' = "done" /\ Flushed
  /\ UNCHANGED <<run, reading, closing, channel, batch, failure, history>>

\* After another failure it is only logged.
LastFlushFails ==
  /\ writer = "last" /\ writer' = "done" /\ broken' = TRUE /\ Note("write")
  /\ \/ caller = "none" /\ ~failure /\ failure' = TRUE /\ UNCHANGED logged
     \/ (caller # "none" \/ failure) /\ logged' = TRUE /\ UNCHANGED failure
  /\ UNCHANGED <<run, reading, closing, channel, batch, oldest, sink, outcome>>

-----------------------------------------------------------------------------
Drain   == Take \/ Put \/ SeeEnd \/ CutShort \/ DrainEnds
Cleanup == RunStopped \/ HandOver \/ SendEnd \/ CleanupDone
Works   == NextBatch \/ AppendRow \/ AppendFails \/ FlushWorks \/ FlushFails
           \/ LastFlushWorks \/ LastFlushFails

Over == drain = "over" /\ cleanup = "done" /\ UNCHANGED vars

Next == RowFinishes \/ StreamEnds \/ StreamRaises \/ Drain \/ Cancel
        \/ Cleanup \/ GetRow \/ Quiet \/ Works \/ Over

\* Tasks that can go on do, time passes, and a sink bounds its own I/O; rows need not
\* finish, the stream need not end, and nobody has to cancel.
Fairness == /\ WF_vars(Drain) /\ WF_vars(Cleanup) /\ WF_vars(GetRow)
            /\ WF_vars(Quiet) /\ WF_vars(Works)

Spec == Init /\ [][Next]_vars /\ Fairness

-----------------------------------------------------------------------------
(* Properties.                                                              *)

TypeOK ==
  /\ finished \in 0..NumRows /\ results \in Seq(Rows)
  /\ stream \in {"open", "closed", "raised"}
  /\ drain \in {"take", "put", "waiting", "over"} /\ holding \in Rows \cup {None}
  /\ cut \in BOOLEAN /\ caller \in {"none", "cancel", "error"} /\ here \in BOOLEAN
  /\ cleanup \in {"none", "stop", "end", "wait", "done"} /\ todo \in Seq(Rows)
  /\ queue \in Seq(Rows \cup {END}) /\ Len(queue) <= QueueSize
  /\ next \in 0..Pending /\ ended \in BOOLEAN
  /\ writer \in {"next", "append", "flush", "last", "done"} /\ batch \in Seq(Rows)
  /\ oldest \in BOOLEAN /\ failure \in BOOLEAN
  /\ appended \in Seq(Rows) /\ buf \subseteq Rows /\ stored \subseteq Rows
  /\ logged \in BOOLEAN /\ broken \in BOOLEAN
  /\ first \in {"none", "cancel", "error", "write"}
  /\ outcome \in {"none", "cancel", "error", "write", "returned"}

\* The sink is given the rows in the order they finished, each once and without gaps,
\* whatever is cancelled or fails: the row that drain holds, the pending get and the rows
\* of the cleanup keep their places.
InOrder == appended = [k \in 1..Len(appended) |-> k]
\* finish() puts the end after every row, and nothing is put behind it.
EndIsLast == \A k \in DOMAIN Waiting : Waiting[k] = END => k = Len(Waiting)
\* The rows' places hold in every state of the queue, the pending get and the cleanup.
RowsInOrder == TypeOK /\ InOrder /\ EndIsLast

\* "Finished rows are always written": once the cleanup is done and no call of the sink
\* has failed, every row that finished is stored, also after a cancel, and a drain that
\* returns has stored them all.
Stored == stored = 1..finished /\ results = <<>>
NothingLost == (cleanup = "done" /\ ~broken) \/ outcome = "returned" => Stored

\* The reading always comes to an end: after its last row, an error, a failed write or a
\* cancel, drain ends and the rows left over are dealt with, and nobody waits for room in
\* the queue for ever.
DrainAlwaysEnds ==
  (stream # "open" \/ caller # "none" \/ failure) ~> (drain = "over" /\ cleanup = "done")

\* A stream that goes quiet cannot hold a row back: every row that finished is stored, or
\* a call failed, also when no other row ever comes.
RowsGetStored == \A r \in Rows : (finished >= r) ~> (r \in stored \/ broken)

\* "The first failure is the error", and "if two things fail, the first one is the error
\* you see; later ones are logged": a write that failed before the cancel is not hushed up.
WriteFailureShows == drain = "over" /\ first = "write" => outcome = "write" \/ logged
=============================================================================
