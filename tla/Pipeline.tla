------------------------------ MODULE Pipeline ------------------------------
(***************************************************************************)
(* through() of saturate/pipeline.py: a reader thread pulls rows from the  *)
(* input, the feeder starts a task per row when there is room, each row    *)
(* task builds a request, waits for a slot, sends it and publishes what it *)
(* got in `results`, and the caller of through() takes it from there.      *)
(*                                                                         *)
(* The event loop runs one task at a time, so an action is what a task     *)
(* does between two awaits.  A cancel scope delivers its cancellation only *)
(* to a task whose await is still pending: a task whose await has already  *)
(* been answered resumes first, and may still publish or fail.  "doomed"   *)
(* is a task that will resume with the cancellation.                       *)
(***************************************************************************)
EXTENDS Naturals, Sequences, FiniteSets

CONSTANTS
  NumRows,       \* how many rows the input yields before it ends
  FailFast,      \* through(fail_fast=): 0 turns the check off
  Backlog,       \* places for rows started but not yet taken
  PrepareLimit,  \* places for request bodies built but not yet sent
  ReadAhead,     \* READ_AHEAD, rows the reader may be ahead of the feeder
  PrepThreads,   \* does to_request run in a thread (prepare_workers > 0)?
  LeaveEarly     \* may the caller stop or leave before its first await?

ASSUME ConstantsAssumption ==
  /\ NumRows \in Nat /\ FailFast \in Nat
  /\ PrepareLimit \in Nat \ {0} /\ ReadAhead \in Nat \ {0}
  /\ Backlog \in Nat \ {0} /\ Backlog >= FailFast   \* through() refuses less
  /\ PrepThreads \in BOOLEAN /\ LeaveEarly \in BOOLEAN

VARIABLES
  \* the reader thread
  reader, read, ending, room, stopped,
  \* the feeder, and the cancel scope it shares with the row tasks
  feeder, fed, cancelled,
  \* the row tasks and what they share
  pc, holding, prepare, backlog, held, succeeded, discarding, failure,
  \* the results queue and its reader, the body of the `async with`
  results, taken, caller, callerError, raised

readerVars == <<reader, read, ending>>
scopeVars  == <<room, stopped, feeder, cancelled>>   \* what _Run.stop touches
failVars   == <<held, succeeded, discarding, failure>>
callerVars == <<taken, caller, callerError, raised>>
vars == <<readerVars, scopeVars, fed, pc, holding, prepare, backlog, failVars,
          results, callerVars>>

Rows == 1..NumRows
END  == 0          \* the object that closes the results queue

\* A row task's await: pending, answered (the task resumes with it), or to be
\* answered by the scope's cancellation.
Waits   == {"building", "admission", "inflight"}
Answers == {"built", "admitted", "ok", "error", "fatal"}
Active  == {"started", "doomed"} \cup Waits \cup Answers
States  == Active \cup {"unfed", "placed", "published", "dropped", "cancelled",
                        "aborted"}
FeederStates == {"created", "get", "backlog", "prepare", "doomed", "joining",
                 "closed"}

Init ==
  /\ reader = "off" /\ read = 0 /\ ending = "none"
  /\ room = ReadAhead /\ stopped = FALSE
  /\ feeder = "created" /\ fed = 0 /\ cancelled = FALSE
  /\ pc = [r \in Rows |-> "unfed"] /\ holding = {}
  /\ prepare = PrepareLimit /\ backlog = Backlog
  /\ held = <<>> /\ succeeded = FALSE /\ discarding = FALSE /\ failure = "none"
  /\ results = <<>> /\ taken = <<>>
  /\ caller = "inside" /\ callerError = "none" /\ raised = "nothing"

-----------------------------------------------------------------------------
(* The reader thread (_Reader._read).  The rows it handed over and the      *)
(* feeder has not taken are fed+1..read; `ending` is the _End behind them.  *)
StopSeen   == stopped

\* The loop's first half: wait for room, then look whether it was stopped.
ReaderAcquire ==
  /\ reader = "acquire" /\ room > 0
  /\ room' = room - 1
  /\ reader' = IF StopSeen THEN "done" ELSE "next"
  /\ UNCHANGED <<read, ending, stopped, feeder, cancelled, fed, pc, holding,
                 prepare, backlog, failVars, results, callerVars>>

\* next(source) yields a row, ends, or raises.
ReaderNext ==
  /\ reader = "next"
  /\ \/ /\ read < NumRows
        /\ read' = read + 1 /\ reader' = "acquire" /\ UNCHANGED ending
     \/ /\ read = NumRows
        /\ ending' = "end" /\ reader' = "done" /\ UNCHANGED read
     \/ /\ ending' = "error" /\ reader' = "done" /\ UNCHANGED read
  /\ UNCHANGED <<scopeVars, fed, pc, holding, prepare, backlog, failVars,
                 results, callerVars>>

-----------------------------------------------------------------------------
(* _Run: stop, fail and publish.  Each takes `p`, the row tasks' states as  *)
(* the calling task leaves them, and determines pc' from it.                *)

FeederBlocked ==
  \/ feeder = "get" /\ fed = read /\ ending = "none"
  \/ feeder = "backlog" /\ backlog = 0
  \/ feeder = "prepare" /\ prepare = 0

\* mutant: stop() ends the reading and leaves the row tasks alone
RunStopReaderOnly(p) ==
  /\ pc' = p
  /\ IF feeder = "created" THEN UNCHANGED scopeVars
     ELSE /\ stopped' = TRUE /\ room' = room + 1 /\ cancelled' = TRUE
          /\ feeder' = IF FeederBlocked THEN "doomed" ELSE feeder

\* Before _produce has run there is neither a reader nor a scope to stop.
RunStop(p) ==
  IF feeder = "created"
    THEN pc' = p /\ UNCHANGED scopeVars
    ELSE /\ stopped' = TRUE /\ room' = room + 1
         /\ cancelled' = TRUE
         /\ feeder' = IF FeederBlocked THEN "doomed" ELSE feeder
         /\ pc' = [r \in Rows |-> IF p[r] \in Waits THEN "doomed" ELSE p[r]]

RunFail(e, p) ==
  /\ failure' = IF failure = "none" THEN e ELSE failure
  /\ RunStop(p)

GoesOn(p) == pc' = p /\ UNCHANGED <<scopeVars, failure>>

\* A task that awaits in a cancelled scope is cancelled there.
Await(w) == IF cancelled THEN "doomed" ELSE w

GiveUpDueNever(h) == FALSE                           \* mutant: nobody counts the held errors
GiveUpDue(h)      == Len(h) >= FailFast

\* _give_up_fail_fast, h being the held errors: their places come back.
GiveUpFailFast(h, p) ==
  /\ held' = <<>> /\ discarding' = TRUE
  /\ backlog' = backlog + Len(h)
  /\ RunFail("fail_fast",
       [r \in Rows |-> IF \E i \in DOMAIN h : h[i] = r THEN "dropped" ELSE p[r]])
  /\ UNCHANGED <<results, succeeded>>

DiscardLeak(r) ==                    \* mutant: the discarded row keeps its place
  /\ GoesOn([pc EXCEPT ![r] = "dropped"])
  /\ UNCHANGED <<backlog, results, held, succeeded, discarding>>

Discard(r) ==
  /\ backlog' = backlog + 1
  /\ GoesOn([pc EXCEPT ![r] = "dropped"])
  /\ UNCHANGED <<results, held, succeeded, discarding>>

GivenUpNever == FALSE                \* mutant: publish() does not look
GivenUp      == discarding

FlushForgets(h, r) == <<r>>          \* mutant: the errors held back are lost
Flush(h, r)        == h \o <<r>>

\* publish(), for a row that finished; err: with an error.
Publish(r, err) ==
  IF GivenUp THEN Discard(r)
  ELSE IF err /\ FailFast > 0 /\ ~succeeded    \* held back until a success
    THEN IF GiveUpDue(Append(held, r))
           THEN GiveUpFailFast(Append(held, r), pc)
           ELSE /\ held' = Append(held, r)
                /\ GoesOn([pc EXCEPT ![r] = "published"])
                /\ UNCHANGED <<backlog, results, succeeded, discarding>>
    ELSE /\ results' = results \o Flush(held, r) /\ held' = <<>>
         /\ succeeded' = (succeeded \/ FailFast > 0)
         /\ GoesOn([pc EXCEPT ![r] = "published"])
         /\ UNCHANGED <<backlog, discarding>>

\* A FatalTransportError: the row gives its place back and the run fails.
Abort(r) ==
  /\ backlog' = backlog + 1
  /\ RunFail("fatal", [pc EXCEPT ![r] = "aborted"])
  /\ UNCHANGED <<results, held, succeeded, discarding>>

-----------------------------------------------------------------------------
(* The row task (_row).  `holding` are the rows whose admitted() has not    *)
(* run: they hold a place in the prepare limit.                             *)

Admitted(r) ==
  /\ holding' = holding \ {r}
  /\ prepare' = prepare + (IF r \in holding THEN 1 ELSE 0)

\* The body is built: the gate may raise at once, or the row waits for its slot.
Post(r) ==
  \/ /\ GoesOn([pc EXCEPT ![r] = Await("admission")])
     /\ UNCHANGED <<holding, prepare, backlog, held, succeeded, discarding, results>>
  \/ Abort(r) /\ Admitted(r)

\* The task's first step: to_request on the loop, or handed to a thread.
RowBegin(r) ==
  /\ pc[r] = "started"
  /\ IF PrepThreads
       THEN /\ GoesOn([pc EXCEPT ![r] = Await("building")])
            /\ UNCHANGED <<holding, prepare, backlog, held, succeeded, discarding,
                           results>>
       ELSE \/ Post(r)
            \/ Publish(r, TRUE) /\ Admitted(r)      \* to_request raised
  /\ UNCHANGED <<readerVars, fed, callerVars>>

\* A pending await is answered: by the prepare thread, by the breaker and the
\* window, by the endpoint (with parse's verdict on what it replied).
RowAnswered(r) ==
  /\ \E a \in CASE pc[r] = "building"  -> {"built", "error"}
                [] pc[r] = "admission" -> {"admitted", "fatal"}
                [] pc[r] = "inflight"  -> {"ok", "error", "fatal"}
                [] OTHER               -> {} :
       pc' = [pc EXCEPT ![r] = a]
  /\ UNCHANGED <<readerVars, scopeVars, fed, holding, prepare, backlog, failVars,
                 results, callerVars>>

RowResume(r) ==
  /\ \/ pc[r] = "built" /\ Post(r)
     \/ /\ pc[r] = "admitted" /\ Admitted(r)
        /\ GoesOn([pc EXCEPT ![r] = Await("inflight")])
        /\ UNCHANGED <<backlog, held, succeeded, discarding, results>>
     \/ pc[r] = "ok" /\ Publish(r, FALSE) /\ Admitted(r)
     \/ pc[r] = "error" /\ Publish(r, TRUE) /\ Admitted(r)
     \/ pc[r] = "fatal" /\ Abort(r) /\ Admitted(r)
  /\ UNCHANGED <<readerVars, fed, callerVars>>

RowCancelled(r) ==
  /\ pc[r] = "doomed" /\ pc' = [pc EXCEPT ![r] = "cancelled"]
  /\ Admitted(r)
  /\ UNCHANGED <<readerVars, scopeVars, fed, backlog, failVars, results, callerVars>>

-----------------------------------------------------------------------------
(* The feeder (_produce and _feed).                                         *)

ReaderStop == stopped' = TRUE /\ room' = room + 1

FeederStart ==
  /\ feeder = "created" /\ feeder' = "get" /\ reader' = "acquire"
  /\ UNCHANGED <<read, ending, room, stopped, cancelled, fed, pc, holding, prepare,
                 backlog, failVars, results, callerVars>>

\* A row from the reader: it may read one more.
FeederGet ==
  /\ feeder = "get" /\ fed < read
  /\ fed' = fed + 1 /\ room' = room + 1 /\ feeder' = "backlog"
  /\ UNCHANGED <<readerVars, stopped, cancelled, pc, holding, prepare, backlog,
                 failVars, results, callerVars>>

EndOvertakes == ending # "none"      \* mutant: the end overtakes rows in the queue
EndReached   == fed = read /\ ending # "none"

\* The end of the input: the rows already started finish first.
FeederEnd ==
  /\ feeder = "get" /\ EndReached
  /\ failure' = IF ending = "error" /\ failure = "none" THEN "input" ELSE failure
  /\ feeder' = "joining" /\ ReaderStop
  /\ UNCHANGED <<readerVars, cancelled, fed, pc, holding, prepare, backlog, held,
                 succeeded, discarding, results, callerVars>>

FeederBacklog ==
  /\ feeder = "backlog" /\ backlog > 0
  /\ backlog' = backlog - 1 /\ pc' = [pc EXCEPT ![fed] = "placed"]
  /\ feeder' = Await("prepare")
  /\ UNCHANGED <<readerVars, room, stopped, cancelled, fed, holding, prepare,
                 failVars, results, callerVars>>

FeederPrepare ==
  /\ feeder = "prepare" /\ prepare > 0
  /\ prepare' = prepare - 1 /\ holding' = holding \cup {fed}
  /\ pc' = [pc EXCEPT ![fed] = "started"]
  /\ feeder' = "get"
  /\ UNCHANGED <<readerVars, room, stopped, cancelled, fed, backlog, failVars,
                 results, callerVars>>

FeederCancelled ==
  /\ cancelled /\ (feeder = "doomed" \/ FeederBlocked)
  /\ feeder' = "joining" /\ ReaderStop
  /\ UNCHANGED <<readerVars, cancelled, fed, pc, holding, prepare, backlog, failVars,
                 results, callerVars>>

\* _produce's finally: publish_held, unless the run failed for all rows; the end.
PublishHeld ==
  IF discarding \/ failure \in {"fatal", "fail_fast"}
    THEN results' = Append(results, END) /\ UNCHANGED held
    ELSE results' = results \o held \o <<END>> /\ held' = <<>>

ProduceEndsEarly ==                  \* mutant: does not wait for the row tasks
  /\ feeder = "joining" /\ feeder' = "closed" /\ PublishHeld
  /\ UNCHANGED <<readerVars, room, stopped, cancelled, fed, pc, holding, prepare,
                 backlog, succeeded, discarding, failure, callerVars>>

\* The group waits for every row task before the finally.
ProduceEnds ==
  /\ feeder = "joining" /\ \A r \in Rows : pc[r] \notin Active
  /\ feeder' = "closed" /\ PublishHeld
  /\ UNCHANGED <<readerVars, room, stopped, cancelled, fed, pc, holding, prepare,
                 backlog, succeeded, discarding, failure, callerVars>>

Feeder == \/ FeederStart \/ FeederGet \/ FeederEnd \/ FeederBacklog
          \/ FeederPrepare \/ FeederCancelled \/ ProduceEnds

-----------------------------------------------------------------------------
(* The caller: the body of `async with through(...) as results`.            *)

\* The finished rows waiting in `results`: END, once there, stays last.
Waiting == IF feeder = "closed" THEN SubSeq(results, 1, Len(results) - 1) ELSE results

\* Results.__anext__ returns a row: its place in the backlog comes back.
Take ==
  /\ caller \in {"inside", "stopped"} /\ Waiting # <<>>
  /\ taken' = Append(taken, Head(results)) /\ results' = Tail(results)
  /\ backlog' = backlog + 1
  /\ UNCHANGED <<readerVars, scopeVars, fed, pc, holding, prepare, failVars,
                 caller, callerError, raised>>

\* Results.take_waiting.
TakeWaiting ==
  /\ caller \in {"inside", "stopped"} /\ Waiting # <<>>
  /\ taken' = taken \o Waiting
  /\ results' = IF feeder = "closed" THEN <<END>> ELSE <<>>
  /\ backlog' = backlog + Len(Waiting)
  /\ UNCHANGED <<readerVars, scopeVars, fed, pc, holding, prepare, failVars,
                 caller, callerError, raised>>

\* A caller that never awaited can stop or leave before _produce ran; a cancel
\* arrives at an await.
MayStop(e) == feeder # "created" \/ (LeaveEarly /\ e # "cancel")

\* Results.stop: stops the run, then waits for `finished`.
StopCalled ==
  /\ caller = "inside" /\ MayStop("none")
  /\ caller' = "stopping" /\ RunStop(pc)
  /\ UNCHANGED <<readerVars, fed, holding, prepare, backlog, failVars, results,
                 taken, callerError, raised>>

StopReturns ==
  /\ caller = "stopping" /\ feeder = "closed" /\ caller' = "stopped"
  /\ UNCHANGED <<readerVars, scopeVars, fed, pc, holding, prepare, backlog, failVars,
                 results, taken, callerError, raised>>

\* The body ends, raises, or is cancelled (also while it waits in stop()).
Leave(e) ==
  /\ \/ caller \in {"inside", "stopped"}
     \/ caller = "stopping" /\ e = "cancel"
  /\ MayStop(e)
  /\ caller' = "left" /\ callerError' = e /\ RunStop(pc)
  /\ UNCHANGED <<readerVars, fed, holding, prepare, backlog, failVars, results,
                 taken, raised>>

\* raise_first_failure.
FirstFailure ==
  CASE callerError = "cancel"                      -> "cancel"
    [] callerError # "cancel" /\ failure # "none"  -> failure
    [] OTHER                                       -> callerError

\* The outer task group waits for _produce; then the error is raised.
ThroughReturns ==
  /\ caller = "left" /\ feeder = "closed"
  /\ caller' = "returned" /\ raised' = FirstFailure
  /\ UNCHANGED <<readerVars, scopeVars, fed, pc, holding, prepare, backlog, failVars,
                 results, taken, callerError>>

Caller == \/ Take \/ TakeWaiting \/ StopCalled \/ StopReturns \/ ThroughReturns
          \/ \E e \in {"none", "error", "cancel"} : Leave(e)

RowLoop(r) == RowBegin(r) \/ RowResume(r) \/ RowCancelled(r)
Reader     == ReaderAcquire \/ ReaderNext

\* The run is over; the reader may be left behind, stuck in next().
Over == /\ caller = "returned" /\ reader = "done"
        /\ UNCHANGED vars

Next == \/ Reader \/ Feeder \/ Caller \/ Over
        \/ \E r \in Rows : RowLoop(r) \/ RowAnswered(r)

\* The event loop runs what can run.  A run has finitely many steps of its own, so
\* this is as good as fairness to each task.
LoopFairness ==
  WF_vars(Feeder \/ StopReturns \/ ThroughReturns \/ \E r \in Rows : RowLoop(r))

Spec == Init /\ [][Next]_vars /\ LoopFairness

\* What the loop does not control: the input yields or ends, every wait of a row
\* is answered (threads, window and endpoint are bounded), the caller reads on.
EnvironmentFairness == WF_vars(Reader \/ Take \/ \E r \in Rows : RowAnswered(r))

-----------------------------------------------------------------------------
(* Properties.                                                              *)

SeqRows(s) == {s[i] : i \in DOMAIN s}

\* The types; the limits' bounds are in PrepareAccounting and BacklogAccounting.
TypeOK ==
  /\ reader \in {"off", "acquire", "next", "done"} /\ read \in 0..NumRows
  /\ ending \in {"none", "end", "error"} /\ room \in Nat /\ stopped \in BOOLEAN
  /\ feeder \in FeederStates /\ fed \in 0..NumRows /\ fed <= read
  /\ cancelled \in BOOLEAN /\ pc \in [Rows -> States]
  /\ holding \in SUBSET Rows /\ prepare \in Nat /\ backlog \in Nat
  /\ held \in Seq(Rows) /\ succeeded \in BOOLEAN /\ discarding \in BOOLEAN
  /\ failure \in {"none", "input", "fatal", "fail_fast"}
  /\ results \in Seq(Rows \cup {END}) /\ taken \in Seq(Rows)
  /\ caller \in {"inside", "stopping", "stopped", "left", "returned"}
  /\ callerError \in {"none", "error", "cancel"}
  /\ raised \in {"nothing", "none", "error", "cancel", "input", "fatal", "fail_fast"}

\* The backlog's places are conserved: each is free, or is kept by one row that
\* was started (a cancelled one included: it is thrown away with the run), held
\* back or waiting to be taken.  A place released twice would let more rows start
\* than the sink's room; a place lost would end in a feeder that waits for ever.
PlacedStates == Active \cup {"placed", "cancelled"}
Placed == {r \in Rows : pc[r] \in PlacedStates}
OtherPlaces == backlog + Len(held) + Len(Waiting)
BacklogAccounting == Cardinality(Placed) + OtherPlaces = Backlog

\* A place in the prepare limit is kept by exactly the rows whose body is not in
\* flight yet; failing, cancelled and fatal rows give it back once.
NotSentStates == {"started", "building", "admission", "built", "admitted", "error",
                  "fatal", "doomed"}
PrepareAccounting ==
  /\ prepare + Cardinality(holding) = PrepareLimit
  /\ \A r \in holding : pc[r] \in NotSentStates

\* The reader is never more than ReadAhead rows ahead of the feeder, although a
\* stop gives it room it does not have, to wake it.
ReadAheadBound ==
  read - fed + (IF reader = "next" THEN 1 ELSE 0) <= ReadAhead

\* The three limits of a run together: rows started, bodies held before they are sent, and
\* rows read ahead, over every way a row or the run can end.
PlacesConserved == TypeOK /\ BacklogAccounting /\ PrepareAccounting /\ ReadAheadBound

\* Every finished row is in exactly one place: held back, waiting, or taken.
NoFinishedRowLost ==
  LET all == held \o Waiting \o taken IN
  /\ SeqRows(all) = {r \in Rows : pc[r] = "published"}
  /\ \A i, j \in DOMAIN all : i # j => all[i] # all[j]

\* Once fail_fast gave up, nothing was stored and nothing will be.
FailFastStoresNothing ==
  discarding => held = <<>> /\ Waiting = <<>> /\ taken = <<>>

\* "No row starts or finishes after this returns": when `finished` is set no task
\* is left, and END is the last thing in the queue, so no row hides behind it.
NothingAfterFinished ==
  feeder = "closed" => /\ \A r \in Rows : pc[r] \notin Active
                       /\ \A i \in DOMAIN results : results[i] = END <=> i = Len(results)

\* A run nobody stopped finishes every row the reader read, an input that raises
\* included; and an input that ends was read to its end.
CompleteUnlessStopped ==
  feeder = "closed" /\ ~cancelled =>
     /\ ending # "none"
     /\ \A r \in 1..read : pc[r] = "published"
     /\ ending = "end" => read = NumRows

\* When the run is over, every finished row can be read, unless the endpoint was
\* gone: the errors fail_fast still held back are then left to the next run.
FinishedRowsReadable ==
  feeder = "closed" /\ failure # "fatal" => held = <<>>

\* What a run that is over leaves its caller: all of the input, when nobody stopped it, and
\* every row that finished, whoever stopped it.
RunEndsWhole == CompleteUnlessStopped /\ FinishedRowsReadable

\* The error through() raises is the first one the run recorded.
FirstFailureKept == [][failure # "none" => failure' = failure]_vars

\* The run finishes as long as its caller keeps reading: the errors fail_fast
\* holds back never take the last place a row needs.
Completes ==
  EnvironmentFairness => <>(feeder = "closed" \/ caller \notin {"inside", "stopped"})

\* Once stopped, through() returns whatever the input, the endpoint and the sink
\* do: an input stuck in next() and a request in flight never hold up the exit.
StoppedRunReturns == (caller = "left" /\ cancelled) ~> (caller = "returned")
=============================================================================
