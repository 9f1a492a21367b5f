---------------------------- MODULE Writer_proofs ----------------------------
(***************************************************************************)
(* Theorems about Writer, for every number of rows and every size of the   *)
(* queue.  The invariant WInv sees drain, the queue, the pending get, the  *)
(* batch and the sink as one conveyor belt of numbered rows: as long as no *)
(* call of the sink has failed, the rows on it are those that finished, in *)
(* order and without a gap, and the end of the queue is behind them all.   *)
(***************************************************************************)
EXTENDS Writer, SequenceTheorems, TLAPS

\* finish() has put the end; the cleanup has seen the last of the results.
Sent == cleanup \in {"wait", "done"}
Left == cleanup \in {"end", "wait", "done"}

\* What the queue, the pending get and drain hold.
EndQueued == IF Sent /\ queue # <<>> THEN 1 ELSE 0
NextRow   == IF next \in Rows THEN 1 ELSE 0
Held      == IF holding # None THEN 1 ELSE 0

\* The number of the last row before each place.
AtBatch   == Len(appended)
AtNext    == AtBatch + Len(batch)
AtQueue   == AtNext + NextRow
AtHeld    == AtQueue + Len(queue) - EndQueued
AtTodo    == AtHeld + Held
AtResults == AtTodo + Len(todo)

\* The first n of s are the rows after from.
\* The first n of s are the rows after from.
Run(s, n, from) == \A k \in 1..n : s[k] = from + k

\* From the batch back to the results, every row is in its place.
Conveyor == ~failure =>
  /\ Run(batch, Len(batch), AtBatch)
  /\ next \in Rows => next = AtNext + 1
  /\ Run(queue, Len(queue) - EndQueued, AtQueue)
  /\ holding # None => holding = AtHeld + 1
  /\ Run(todo, Len(todo), AtTodo)
  /\ Run(results, Len(results), AtResults)
  /\ finished = AtResults + Len(results)

\* The end is behind every row, wherever it is.
EndPlace ==
  /\ \A k \in 1..Len(queue) : queue[k] = END <=> Sent /\ k = Len(queue)
  /\ next = END => Sent /\ queue = <<>> /\ ~ended
  /\ ended => Sent /\ queue = <<>> /\ next = None
  /\ Sent => todo = <<>> /\ (queue # <<>> \/ next = END \/ ended)

\* What each phase of the three tasks holds.
Phases ==
  /\ writer \in {"last", "done"} => ended /\ batch = <<>>
  /\ writer \in {"next", "flush"} => ~ended /\ batch = <<>> /\ next # None
  /\ writer = "append" => batch # <<>> /\ next = None /\ ~failure
  /\ cleanup = "done" => writer = "done"
  /\ cleanup \in {"none", "stop"} => todo = <<>>
  /\ drain = "put" => holding # None
  /\ drain = "take" => holding = None
  /\ drain \in {"take", "put"} <=> cleanup = "none"
  /\ cleanup = "none" => caller = "none"

\* What a failure, or none, means for the others.
Failures ==
  /\ cut => failure
  /\ failure => broken
  /\ broken /\ (caller = "none" \/ writer # "done") => failure
  /\ ~broken /\ Left => stream # "open" /\ results = <<>> /\ holding = None
  /\ outcome = "returned" => drain = "over" /\ caller = "none" /\ ~failure /\ cleanup = "done"

\* What the sink has been given it holds or has written.
SinkOK ==
  /\ InOrder
  /\ stored \cup buf = 1..Len(appended)
  /\ ~broken /\ writer = "done" => buf = {}

WInv == TypeOK /\ EndPlace /\ Phases /\ Failures /\ SinkOK /\ Conveyor

-----------------------------------------------------------------------------
(* Runs of consecutive rows.                                                *)

LEMMA AppendRun ==
  ASSUME NEW S, NEW s \in Seq(S), NEW b \in Nat, Run(s, Len(s), b),
         NEW x \in S, x = b + Len(s) + 1
  PROVE  Append(s, x) \in Seq(S) /\ Len(Append(s, x)) = Len(s) + 1
         /\ Run(Append(s, x), Len(s) + 1, b)
BY AppendProperties DEF Run

LEMMA TailRun ==
  ASSUME NEW S, NEW s \in Seq(S), s # <<>>, NEW b \in Nat, NEW n \in 1..Len(s), Run(s, n, b)
  PROVE  Head(s) = b + 1 /\ Head(s) \in S /\ Tail(s) \in Seq(S) /\ Len(Tail(s)) = Len(s) - 1
         /\ Run(Tail(s), n - 1, b + 1)
<1>1. Head(s) = s[1]
  OBVIOUS
<1>2. \A i \in 1 .. Len(s) - 1 : Tail(s)[i] = s[i+1]
  BY HeadTailProperties
<1>3. QED
  BY <1>1, <1>2, HeadTailProperties DEF Run

USE WriterAssumption DEF Rows, None, END, Pending, run, reading, closing, channel, working,
                         sink, history

-----------------------------------------------------------------------------
(* Steps that leave a part of the invariant alone.                          *)

LEMMA BeltStill ==
  ASSUME Conveyor, failure' \in BOOLEAN, ~ failure' => ~ failure, EndQueued' = EndQueued,
         UNCHANGED <<finished, results, holding, todo, queue, next, batch, appended>>
  PROVE  Conveyor'
<1>1. /\ AtBatch' = AtBatch /\ AtNext' = AtNext /\ AtQueue' = AtQueue /\ AtHeld' = AtHeld
      /\ AtTodo' = AtTodo /\ AtResults' = AtResults
  BY DEF AtBatch, AtNext, AtQueue, AtHeld, AtTodo, AtResults, NextRow, Held
<1>2. QED
  BY <1>1 DEF Conveyor, Run

LEMMA EndStill ==
  ASSUME EndPlace, Sent' = Sent, UNCHANGED <<queue, next, ended, todo>>
  PROVE  EndPlace'
BY DEF EndPlace

LEMMA SinkStill ==
  ASSUME SinkOK, UNCHANGED <<appended, stored, buf>>, ~broken' => ~broken, writer' = "done" => writer = "done"
  PROVE  SinkOK'
BY DEF SinkOK, InOrder

\* put() of a row, by drain or by the cleanup.
LEMMA QueueGrows ==
  ASSUME WInv, Room, ~Sent, NEW x \in Rows, queue' = Append(queue, x)
  PROVE  /\ queue' \in Seq(Rows \cup {END})
         /\ Len(queue') = Len(queue) + 1 /\ Len(queue') <= QueueSize
         /\ \A k \in 1..Len(queue') : queue'[k] # END
         /\ AtQueue \in Nat /\ (~failure /\ x = AtQueue + Len(queue) + 1 => Run(queue', Len(queue'), AtQueue))
<1>1. queue \in Seq(Rows \cup {END}) /\ x \in Rows \cup {END} /\ Len(queue) < QueueSize /\ Len(queue) \in Nat
  BY DEF WInv, TypeOK, Room
<1>2. /\ Append(queue, x) \in Seq(Rows \cup {END})
      /\ Len(Append(queue, x)) = Len(queue) + 1
      /\ \A k \in 1..Len(queue) : Append(queue, x)[k] = queue[k]
      /\ Append(queue, x)[Len(queue) + 1] = x
  BY <1>1, AppendProperties
<1>3. \A k \in 1..Len(queue) : queue[k] # END
  BY DEF WInv, EndPlace
<1>4. \A k \in 1..Len(queue') : queue'[k] # END
  BY <1>1, <1>2, <1>3
<1>5. AtQueue \in Nat
  BY DEF WInv, TypeOK, AtQueue, AtNext, AtBatch, NextRow
<1>6. ASSUME ~failure, x = AtQueue + Len(queue) + 1
      PROVE  Run(queue', Len(queue'), AtQueue)
  <2>1. Run(queue, Len(queue), AtQueue)
    BY <1>6, <1>1 DEF WInv, Conveyor, EndQueued
  <2>2. QED
    BY <1>1, <1>2, <1>5, <1>6, <2>1 DEF Run
<1>7. QED
  BY <1>1, <1>2, <1>4, <1>5, <1>6

-----------------------------------------------------------------------------
(* One lemma for each action.                                               *)

LEMMA StreamEndsStep ==
  ASSUME WInv, StreamEnds PROVE WInv'
<1>1. TypeOK'
  BY DEF WInv, TypeOK, StreamEnds
<1>2. EndPlace'
  BY EndStill DEF WInv, Phases, Sent, StreamEnds
<1>3. Phases'
  BY DEF WInv, Phases, EndPlace, TypeOK, Sent, StreamEnds
<1>4. Failures'
  BY DEF WInv, Failures, Phases, TypeOK, Left, StreamEnds
<1>5. SinkOK'
  BY SinkStill DEF WInv, Failures, StreamEnds
<1>6. Conveyor'
  BY BeltStill DEF WInv, Phases, TypeOK, EndQueued, Sent, StreamEnds
<1>7. QED
  BY <1>1, <1>2, <1>3, <1>4, <1>5, <1>6 DEF WInv

LEMMA StreamRaisesStep ==
  ASSUME WInv, StreamRaises PROVE WInv'
<1>1. TypeOK'
  BY DEF WInv, TypeOK, StreamRaises, Leave, Note
<1>2. EndPlace'
  BY EndStill DEF WInv, Phases, Sent, StreamRaises, Leave, Note
<1>3. Phases'
  BY DEF WInv, Phases, EndPlace, TypeOK, Sent, StreamRaises, Leave, Note
<1>4. Failures'
  BY DEF WInv, Failures, Phases, TypeOK, Left, StreamRaises, Leave, Note
<1>5. SinkOK'
  BY SinkStill DEF WInv, Failures, StreamRaises, Leave, Note
<1>6. Conveyor'
  BY BeltStill DEF WInv, Phases, TypeOK, EndQueued, Sent, StreamRaises, Leave, Note
<1>7. QED
  BY <1>1, <1>2, <1>3, <1>4, <1>5, <1>6 DEF WInv

LEMMA SeeEndStep ==
  ASSUME WInv, SeeEnd PROVE WInv'
<1>1. TypeOK'
  BY DEF WInv, TypeOK, SeeEnd, Leave
<1>2. EndPlace'
  BY EndStill DEF WInv, Phases, Sent, SeeEnd, Leave
<1>3. Phases'
  BY DEF WInv, Phases, EndPlace, TypeOK, Sent, SeeEnd, Leave
<1>4. Failures'
  BY DEF WInv, Failures, Phases, TypeOK, Left, SeeEnd, Leave
<1>5. SinkOK'
  BY SinkStill DEF WInv, Failures, SeeEnd, Leave
<1>6. Conveyor'
  BY BeltStill DEF WInv, Phases, TypeOK, EndQueued, Sent, SeeEnd, Leave
<1>7. QED
  BY <1>1, <1>2, <1>3, <1>4, <1>5, <1>6 DEF WInv

LEMMA DrainEndsStep ==
  ASSUME WInv, DrainEnds PROVE WInv'
<1>1. TypeOK'
  BY DEF WInv, TypeOK, DrainEnds
<1>2. EndPlace'
  BY EndStill DEF WInv, Phases, Sent, DrainEnds
<1>3. Phases'
  BY DEF WInv, Phases, EndPlace, TypeOK, Sent, DrainEnds
<1>4. Failures'
  BY DEF WInv, Failures, Phases, TypeOK, Left, DrainEnds
<1>5. SinkOK'
  BY SinkStill DEF WInv, Failures, DrainEnds
<1>6. Conveyor'
  BY BeltStill DEF WInv, Phases, TypeOK, EndQueued, Sent, DrainEnds
<1>7. QED
  BY <1>1, <1>2, <1>3, <1>4, <1>5, <1>6 DEF WInv

LEMMA CleanupDoneStep ==
  ASSUME WInv, CleanupDone PROVE WInv'
<1>1. TypeOK'
  BY DEF WInv, TypeOK, CleanupDone
<1>2. EndPlace'
  BY EndStill DEF WInv, Phases, Sent, CleanupDone
<1>3. Phases'
  BY DEF WInv, Phases, EndPlace, TypeOK, Sent, CleanupDone
<1>4. Failures'
  BY DEF WInv, Failures, Phases, TypeOK, Left, CleanupDone
<1>5. SinkOK'
  BY SinkStill DEF WInv, Failures, CleanupDone
<1>6. Conveyor'
  BY BeltStill DEF WInv, Phases, TypeOK, EndQueued, Sent, CleanupDone
<1>7. QED
  BY <1>1, <1>2, <1>3, <1>4, <1>5, <1>6 DEF WInv

LEMMA QuietStep ==
  ASSUME WInv, Quiet PROVE WInv'
<1>1. TypeOK'
  BY DEF WInv, TypeOK, Quiet
<1>2. EndPlace'
  BY EndStill DEF WInv, Phases, Sent, Quiet
<1>3. Phases'
  BY DEF WInv, Phases, EndPlace, TypeOK, Sent, Quiet
<1>4. Failures'
  BY DEF WInv, Failures, Phases, TypeOK, Left, Quiet
<1>5. SinkOK'
  BY SinkStill DEF WInv, Failures, Quiet
<1>6. Conveyor'
  BY BeltStill DEF WInv, Phases, TypeOK, EndQueued, Sent, Quiet
<1>7. QED
  BY <1>1, <1>2, <1>3, <1>4, <1>5, <1>6 DEF WInv

LEMMA CutShortStep ==
  ASSUME WInv, CutShort PROVE WInv'
<1>1. TypeOK'
  BY DEF WInv, TypeOK, CutShort, Leave
<1>2. EndPlace'
  BY EndStill DEF WInv, Phases, Sent, CutShort, Leave
<1>3. Phases'
  BY DEF WInv, Phases, EndPlace, TypeOK, Sent, CutShort, Leave
<1>4. Failures'
  BY DEF WInv, Failures, Phases, TypeOK, Left, CutShort, Leave
<1>5. SinkOK'
  BY SinkStill DEF WInv, Failures, CutShort, Leave
<1>6. Conveyor'
  BY DEF WInv, Failures, Conveyor, CutShort, Leave
<1>7. QED
  BY <1>1, <1>2, <1>3, <1>4, <1>5, <1>6 DEF WInv

LEMMA CancelStep ==
  ASSUME WInv, Cancel PROVE WInv'
<1>0. Sent' = Sent
  BY DEF WInv, Phases, Sent, Cancel, Leave, Note
<1>1. TypeOK'
  <2>1. drain' \in {"take", "put", "waiting", "over"} /\ caller' \in {"none", "cancel", "error"}
        /\ cleanup' \in {"none", "stop", "end", "wait", "done"}
    BY DEF WInv, TypeOK, Cancel, Leave, Note
  <2>2. here' \in BOOLEAN
    BY DEF WInv, TypeOK, Cancel, Leave, Note
  <2>3. first' \in {"none", "cancel", "error", "write"}
        /\ outcome' \in {"none", "cancel", "error", "write", "returned"}
    BY DEF WInv, TypeOK, Cancel, Leave, Note
  <2>4. QED
    BY <2>1, <2>2, <2>3 DEF WInv, TypeOK, Cancel
<1>2. EndPlace'
  BY <1>0, EndStill DEF WInv, Cancel
<1>3. Phases'
  BY DEF WInv, Phases, EndPlace, TypeOK, Sent, Cancel, Leave, Note
<1>4. Failures'
  BY DEF WInv, Failures, Phases, TypeOK, Left, Cancel, Leave, Note
<1>5. SinkOK'
  BY SinkStill DEF WInv, Failures, Cancel, Leave, Note
<1>6. Conveyor'
  BY <1>0, BeltStill DEF WInv, TypeOK, EndQueued, Cancel
<1>7. QED
  BY <1>1, <1>2, <1>3, <1>4, <1>5, <1>6 DEF WInv

LEMMA FlushWorksStep ==
  ASSUME WInv, FlushWorks PROVE WInv'
<1>0. UNCHANGED next
  BY DEF WInv, Phases, FlushWorks, GoOn, Flushed
<1>1. TypeOK'
  <2>1. stored' \subseteq Rows /\ buf' \subseteq Rows
    BY DEF WInv, TypeOK, FlushWorks, GoOn, Flushed
  <2>2. writer' \in {"next", "append", "flush", "last", "done"} /\ oldest' \in BOOLEAN
    BY DEF WInv, TypeOK, FlushWorks, GoOn, Flushed
  <2>3. QED
    BY <1>0, <2>1, <2>2 DEF WInv, TypeOK, FlushWorks, Flushed
<1>2. EndPlace'
  BY <1>0, EndStill DEF WInv, Sent, FlushWorks, GoOn, Flushed
<1>3. Phases'
  BY DEF WInv, Phases, EndPlace, TypeOK, Sent, FlushWorks, GoOn, Flushed
<1>4. Failures'
  BY DEF WInv, Failures, Phases, TypeOK, Left, FlushWorks, GoOn, Flushed
<1>5. SinkOK'
  <2>1. stored' \cup buf' = stored \cup buf /\ buf' = {} /\ UNCHANGED appended
    BY DEF FlushWorks, GoOn, Flushed
  <2>2. QED
    BY <2>1 DEF WInv, SinkOK, InOrder
<1>6. Conveyor'
  BY <1>0, BeltStill DEF WInv, TypeOK, EndQueued, Sent, FlushWorks, GoOn, Flushed
<1>7. QED
  BY <1>1, <1>2, <1>3, <1>4, <1>5, <1>6 DEF WInv

LEMMA FlushFailsStep ==
  ASSUME WInv, FlushFails PROVE WInv'
<1>0. UNCHANGED next
  BY DEF WInv, Phases, FlushFails, CallFailed, Note, GoOn
<1>1. TypeOK'
  BY DEF WInv, TypeOK, FlushFails, CallFailed, Note, GoOn
<1>2. EndPlace'
  BY <1>0, EndStill DEF WInv, Sent, FlushFails, CallFailed, Note, GoOn
<1>3. Phases'
  BY DEF WInv, Phases, EndPlace, TypeOK, Sent, FlushFails, CallFailed, Note, GoOn
<1>4. Failures'
  BY DEF WInv, Failures, Phases, TypeOK, Left, FlushFails, CallFailed, Note, GoOn
<1>5. SinkOK'
  BY SinkStill DEF WInv, Failures, FlushFails, CallFailed, Note, GoOn
<1>6. Conveyor'
  BY DEF Conveyor, FlushFails, CallFailed, Note, GoOn
<1>7. QED
  BY <1>1, <1>2, <1>3, <1>4, <1>5, <1>6 DEF WInv

LEMMA LastFlushWorksStep ==
  ASSUME WInv, LastFlushWorks PROVE WInv'
<1>1. TypeOK'
  <2>1. stored' \subseteq Rows /\ buf' \subseteq Rows
    BY DEF WInv, TypeOK, LastFlushWorks, Flushed
  <2>2. writer' \in {"next", "append", "flush", "last", "done"} /\ oldest' \in BOOLEAN
    BY DEF WInv, TypeOK, LastFlushWorks, Flushed
  <2>3. QED
    BY <2>1, <2>2 DEF WInv, TypeOK, LastFlushWorks, Flushed
<1>2. EndPlace'
  BY EndStill DEF WInv, Phases, Sent, LastFlushWorks, Flushed
<1>3. Phases'
  BY DEF WInv, Phases, EndPlace, TypeOK, Sent, LastFlushWorks, Flushed
<1>4. Failures'
  BY DEF WInv, Failures, Phases, TypeOK, Left, LastFlushWorks, Flushed
<1>5. SinkOK'
  <2>1. stored' \cup buf' = stored \cup buf /\ buf' = {} /\ UNCHANGED appended
    BY DEF LastFlushWorks, Flushed
  <2>2. QED
    BY <2>1 DEF WInv, SinkOK, InOrder
<1>6. Conveyor'
  BY BeltStill DEF WInv, Phases, TypeOK, EndQueued, Sent, LastFlushWorks, Flushed
<1>7. QED
  BY <1>1, <1>2, <1>3, <1>4, <1>5, <1>6 DEF WInv

LEMMA LastFlushFailsStep ==
  ASSUME WInv, LastFlushFails PROVE WInv'
<1>1. TypeOK'
  <2>1. failure' \in BOOLEAN /\ logged' \in BOOLEAN
    BY DEF WInv, TypeOK, LastFlushFails
  <2>2. first' \in {"none", "cancel", "error", "write"}
    BY DEF WInv, TypeOK, LastFlushFails, Note
  <2>3. QED
    BY <2>1, <2>2 DEF WInv, TypeOK, LastFlushFails
<1>2. EndPlace'
  BY EndStill DEF WInv, Phases, Sent, LastFlushFails, Note
<1>3. Phases'
  BY DEF WInv, Phases, EndPlace, TypeOK, Sent, LastFlushFails, Note
<1>4. Failures'
  BY DEF WInv, Failures, Phases, TypeOK, Left, LastFlushFails, Note
<1>5. SinkOK'
  BY DEF WInv, SinkOK, InOrder, LastFlushFails
<1>6. Conveyor'
  <2>1. failure' = TRUE \/ failure' = failure
    BY DEF LastFlushFails
  <2>2. failure' \in BOOLEAN /\ (~failure' => ~failure)
    BY <2>1 DEF WInv, TypeOK
  <2>3. QED
    BY <2>2, BeltStill DEF WInv, EndQueued, Sent, LastFlushFails
<1>7. QED
  BY <1>1, <1>2, <1>3, <1>4, <1>5, <1>6 DEF WInv

LEMMA RowFinishesStep ==
  ASSUME WInv, RowFinishes PROVE WInv'
<1>1. TypeOK'
  BY DEF WInv, TypeOK, RowFinishes
<1>2. EndPlace'
  BY EndStill DEF WInv, Sent, RowFinishes
<1>3. Phases'
  BY DEF WInv, Phases, EndPlace, TypeOK, Sent, RowFinishes
<1>4. Failures'
  BY DEF WInv, Failures, Phases, TypeOK, Left, RowFinishes
<1>5. SinkOK'
  BY SinkStill DEF WInv, Failures, RowFinishes
<1>6. Conveyor'
  <2>1. SUFFICES ASSUME ~failure PROVE Conveyor'
    BY DEF Conveyor, RowFinishes
  <2>2. /\ UNCHANGED <<AtBatch, AtNext, AtQueue, AtHeld, AtTodo, AtResults, EndQueued>>
        /\ AtResults \in Nat
    BY DEF WInv, TypeOK, Sent, RowFinishes, AtBatch, AtNext, AtQueue, AtHeld, AtTodo,
       AtResults, NextRow, Held, EndQueued
  <2>3. Len(results') = Len(results) + 1 /\ Run(results', Len(results'), AtResults')
    BY <2>1, <2>2, AppendRun DEF WInv, TypeOK, Conveyor, RowFinishes
  <2>4. QED
    BY <2>1, <2>2, <2>3 DEF WInv, TypeOK, Conveyor, RowFinishes
<1>7. QED
  BY <1>1, <1>2, <1>3, <1>4, <1>5, <1>6 DEF WInv

LEMMA TakeStep ==
  ASSUME WInv, Take PROVE WInv'
<1>0. /\ results \in Seq(Rows) /\ results # <<>> /\ Head(results) \in Rows
      /\ Tail(results) \in Seq(Rows) /\ Len(Tail(results)) = Len(results) - 1
      /\ queue \in Seq(Rows \cup {END})
      /\ ~Sent /\ ~Sent' /\ todo = <<>> /\ holding = None
  BY HeadTailProperties DEF WInv, TypeOK, Phases, Sent, Take
<1>q. \/ queue' = Append(queue, Head(results)) /\ Room /\ UNCHANGED <<drain, holding>>
      \/ UNCHANGED queue /\ drain' = "put" /\ holding' = Head(results)
  BY DEF Take
<1>1. TypeOK'
  <2>1. queue' \in Seq(Rows \cup {END}) /\ Len(queue') <= QueueSize
    <3>1. CASE UNCHANGED queue
      BY <3>1 DEF WInv, TypeOK
    <3>2. CASE queue' = Append(queue, Head(results)) /\ Room
      BY <1>0, <3>2, QueueGrows
    <3>3. QED
      BY <1>q, <3>1, <3>2
  <2>2. drain' \in {"take", "put", "waiting", "over"} /\ holding' \in Rows \cup {None}
    BY <1>0, <1>q DEF WInv, TypeOK
  <2>3. QED
    BY <1>0, <2>1, <2>2 DEF WInv, TypeOK, Take
<1>2. EndPlace'
  <2>1. \A k \in 1..Len(queue') : queue'[k] # END
    <3>1. CASE UNCHANGED queue
      BY <1>0, <3>1 DEF WInv, EndPlace
    <3>2. CASE queue' = Append(queue, Head(results)) /\ Room
      BY <1>0, <3>2, QueueGrows
    <3>3. QED
      BY <1>q, <3>1, <3>2
  <2>2. QED
    BY <1>0, <2>1 DEF WInv, EndPlace, Sent, Take
<1>3. Phases'
  BY <1>0, <1>q DEF WInv, Phases, Take
<1>4. Failures'
  BY DEF WInv, Failures, Phases, TypeOK, Left, Take, Room
<1>5. SinkOK'
  BY DEF WInv, SinkOK, InOrder, Take, Room
<1>6. Conveyor'
  <2>1. SUFFICES ASSUME ~failure PROVE Conveyor'
    BY DEF Conveyor, Take
  <2>2. /\ AtQueue \in Nat /\ UNCHANGED <<AtBatch, AtNext, AtQueue>>
        /\ EndQueued = 0 /\ EndQueued' = 0
        /\ AtHeld = AtQueue + Len(queue) /\ AtTodo = AtHeld /\ AtResults = AtHeld
        /\ AtHeld' = AtQueue + Len(queue')
        /\ AtTodo' = AtHeld' + Held' /\ AtResults' = AtTodo'
    BY <1>0 DEF WInv, TypeOK, Take, AtBatch, AtNext, AtQueue, AtHeld, AtTodo, AtResults,
       NextRow, Held, EndQueued
  <2>3. /\ Head(results) = AtResults + 1
        /\ Run(results', Len(results'), AtResults + 1)
    <3>1. Run(results, Len(results), AtResults) /\ AtResults \in Nat /\ Len(results) \in 1..Len(results)
      BY <1>0, <2>1, <2>2 DEF WInv, TypeOK, Conveyor
    <3>2. results' = Tail(results)
      BY DEF Take
    <3>3. QED
      BY <1>0, <3>1, <3>2, TailRun
  <2>t. Run(todo', Len(todo'), AtTodo') /\ Len(todo) = 0 /\ Len(queue') \in Nat
    BY <1>0, <1>1 DEF Run, TypeOK, Take
  <2>4. CASE queue' = Append(queue, Head(results)) /\ Room /\ UNCHANGED <<drain, holding>>
    <3>1. Len(queue') = Len(queue) + 1 /\ Run(queue', Len(queue'), AtQueue)
      BY <1>0, <2>1, <2>2, <2>3, <2>4, QueueGrows
    <3>2. Held' = 0 /\ AtResults' = AtResults + 1
      BY <1>0, <2>2, <2>4, <3>1 DEF Held, WInv, TypeOK
    <3>3. QED
      BY <1>0, <2>1, <2>2, <2>3, <2>t, <2>4, <3>1, <3>2 DEF WInv, TypeOK, Conveyor, Take
  <2>5. CASE holding' = Head(results) /\ UNCHANGED queue
    <3>1. Held' = 1 /\ AtResults' = AtResults + 1 /\ holding' = AtHeld' + 1
      BY <1>0, <2>2, <2>3, <2>5 DEF Held, WInv, TypeOK
    <3>2. QED
      BY <1>0, <2>1, <2>2, <2>3, <2>t, <2>5, <3>1 DEF WInv, TypeOK, Conveyor, Take
  <2>6. QED
    BY <2>4, <2>5 DEF Take
<1>7. QED
  BY <1>1, <1>2, <1>3, <1>4, <1>5, <1>6 DEF WInv

LEMMA PutStep ==
  ASSUME WInv, Put PROVE WInv'
<1>0. /\ ~Sent /\ ~Sent' /\ todo = <<>> /\ holding \in Rows
      /\ queue' = Append(queue, holding) /\ Room
  BY DEF WInv, TypeOK, Phases, Sent, Put
<1>q. /\ queue' \in Seq(Rows \cup {END})
      /\ Len(queue') = Len(queue) + 1 /\ Len(queue') <= QueueSize
      /\ \A k \in 1..Len(queue') : queue'[k] # END
  BY <1>0, QueueGrows
<1>1. TypeOK'
  BY <1>q DEF WInv, TypeOK, Put
<1>2. EndPlace'
  BY <1>0, <1>q DEF WInv, EndPlace, Put
<1>3. Phases'
  BY DEF WInv, Phases, EndPlace, TypeOK, Sent, Put, Room
<1>4. Failures'
  BY DEF WInv, Failures, Phases, TypeOK, Left, Put, Room
<1>5. SinkOK'
  BY DEF WInv, SinkOK, InOrder, Put, Room
<1>6. Conveyor'
  <2>1. SUFFICES ASSUME ~failure PROVE Conveyor'
    BY DEF Conveyor, Put
  <2>2. /\ AtQueue \in Nat /\ UNCHANGED <<AtBatch, AtNext, AtQueue>>
        /\ EndQueued = 0 /\ EndQueued' = 0 /\ Held = 1 /\ Held' = 0 /\ Len(queue) \in Nat
        /\ AtHeld = AtQueue + Len(queue)
        /\ AtHeld' = AtQueue + Len(queue')
        /\ UNCHANGED <<AtTodo, AtResults>>
    BY <1>0, <1>q DEF WInv, TypeOK, Put, AtBatch, AtNext, AtQueue, AtHeld, AtTodo, AtResults,
       NextRow, Held, EndQueued
  <2>3. holding = AtQueue + Len(queue) + 1
    BY <1>0, <2>1, <2>2 DEF WInv, Conveyor
  <2>4. Run(queue', Len(queue'), AtQueue)
    BY <1>0, <2>1, <2>2, <2>3, QueueGrows
  <2>5. QED
    BY <1>0, <1>q, <2>1, <2>2, <2>4 DEF WInv, Conveyor, Put
<1>7. QED
  BY <1>1, <1>2, <1>3, <1>4, <1>5, <1>6 DEF WInv

LEMMA HandOverStep ==
  ASSUME WInv, HandOver PROVE WInv'
<1>0. /\ ~Sent /\ ~Sent' /\ todo \in Seq(Rows) /\ todo # <<>>
      /\ queue' = Append(queue, Head(todo)) /\ Room
  BY DEF WInv, TypeOK, Sent, HandOver
<1>t. /\ Head(todo) \in Rows /\ Tail(todo) \in Seq(Rows)
      /\ Len(Tail(todo)) = Len(todo) - 1 /\ Len(todo) \in 1..Len(todo)
  BY <1>0, HeadTailProperties
<1>q. /\ queue' \in Seq(Rows \cup {END})
      /\ Len(queue') = Len(queue) + 1 /\ Len(queue') <= QueueSize
      /\ \A k \in 1..Len(queue') : queue'[k] # END
  BY <1>0, <1>t, QueueGrows
<1>1. TypeOK'
  BY <1>t, <1>q DEF WInv, TypeOK, HandOver
<1>2. EndPlace'
  BY <1>0, <1>q DEF WInv, EndPlace, HandOver
<1>3. Phases'
  BY DEF WInv, Phases, EndPlace, TypeOK, Sent, HandOver, Room
<1>4. Failures'
  BY DEF WInv, Failures, Phases, TypeOK, Left, HandOver, Room
<1>5. SinkOK'
  BY DEF WInv, SinkOK, InOrder, HandOver, Room
<1>6. Conveyor'
  <2>1. SUFFICES ASSUME ~failure PROVE Conveyor'
    BY DEF Conveyor, HandOver
  <2>2. holding = None
    BY <1>0, <2>1 DEF WInv, EndPlace, Phases, Failures, TypeOK, Left, HandOver
  <2>3. /\ AtQueue \in Nat /\ UNCHANGED <<AtBatch, AtNext, AtQueue>>
        /\ EndQueued = 0 /\ EndQueued' = 0 /\ Held = 0 /\ Held' = 0 /\ Len(queue) \in Nat
        /\ AtTodo = AtQueue + Len(queue)
        /\ AtTodo' = AtTodo + 1 /\ AtResults' = AtResults
    BY <1>0, <1>t, <1>q, <2>2 DEF WInv, TypeOK, HandOver, AtBatch, AtNext, AtQueue, AtHeld,
       AtTodo, AtResults, NextRow, Held, EndQueued
  <2>4. Head(todo) = AtTodo + 1 /\ Run(todo', Len(todo'), AtTodo + 1)
    <3>1. Run(todo, Len(todo), AtTodo) /\ AtTodo \in Nat /\ todo' = Tail(todo)
      BY <2>1, <2>3 DEF WInv, Conveyor, HandOver
    <3>2. QED
      BY <1>0, <1>t, <3>1, TailRun
  <2>5. Run(queue', Len(queue'), AtQueue)
    BY <1>0, <1>t, <2>1, <2>3, <2>4, QueueGrows
  <2>6. QED
    BY <1>0, <1>q, <2>1, <2>2, <2>3, <2>4, <2>5 DEF WInv, Conveyor, HandOver
<1>7. QED
  BY <1>1, <1>2, <1>3, <1>4, <1>5, <1>6 DEF WInv

LEMMA SendEndStep ==
  ASSUME WInv, SendEnd PROVE WInv'
<1>0. /\ ~Sent /\ Sent' /\ todo = <<>> /\ queue' = Append(queue, END) /\ UNCHANGED todo
      /\ queue \in Seq(Rows \cup {END}) /\ Len(queue) < QueueSize /\ Len(queue) \in Nat
  BY DEF WInv, TypeOK, Sent, Room, SendEnd
<1>q. /\ queue' \in Seq(Rows \cup {END}) /\ queue' # <<>>
      /\ Len(queue') = Len(queue) + 1 /\ Len(queue') <= QueueSize
      /\ \A k \in 1..Len(queue) : queue'[k] = queue[k]
      /\ queue'[Len(queue')] = END
  <2>1. END \in Rows \cup {END}
    OBVIOUS
  <2>2. QED
    BY <1>0, <2>1, AppendProperties
<1>1. TypeOK'
  BY <1>q DEF WInv, TypeOK, SendEnd
<1>2. EndPlace'
  <2>1. \A k \in 1..Len(queue) : queue[k] # END
    BY <1>0 DEF WInv, EndPlace
  <2>2. \A k \in 1..Len(queue') : queue'[k] = END <=> k = Len(queue')
    BY <1>0, <1>q, <2>1
  <2>3. QED
    BY <1>0, <1>q, <2>2 DEF WInv, EndPlace, SendEnd
<1>3. Phases'
  BY DEF WInv, Phases, EndPlace, TypeOK, Sent, SendEnd, Room
<1>4. Failures'
  BY DEF WInv, Failures, Phases, TypeOK, Left, SendEnd, Room
<1>5. SinkOK'
  BY DEF WInv, SinkOK, InOrder, SendEnd, Room
<1>6. Conveyor'
  <2>1. SUFFICES ASSUME ~failure PROVE Conveyor'
    BY DEF Conveyor, SendEnd
  <2>2. /\ AtQueue \in Nat /\ UNCHANGED <<AtBatch, AtNext, AtQueue, AtHeld, AtTodo, AtResults>>
        /\ EndQueued = 0 /\ EndQueued' = 1
    BY <1>0, <1>q DEF WInv, TypeOK, SendEnd, AtBatch, AtNext, AtQueue, AtHeld, AtTodo,
       AtResults, NextRow, Held, EndQueued
  <2>3. Run(queue', Len(queue') - 1, AtQueue)
    BY <1>0, <1>q, <2>1, <2>2 DEF WInv, Conveyor, Run
  <2>4. QED
    BY <1>0, <1>q, <2>1, <2>2, <2>3 DEF WInv, Conveyor, SendEnd
<1>7. QED
  BY <1>1, <1>2, <1>3, <1>4, <1>5, <1>6 DEF WInv

LEMMA ConsRun ==
  ASSUME NEW S, NEW s \in Seq(S), NEW x \in S, NEW b \in Nat
  PROVE  /\ <<x>> \o s \in Seq(S) /\ Len(<<x>> \o s) = Len(s) + 1
         /\ (<<x>> \o s)[1] = x
         /\ \A k \in 1..Len(s) : (<<x>> \o s)[k + 1] = s[k]
         /\ (x = b + 1 /\ Run(s, Len(s), b + 1) => Run(<<x>> \o s, Len(s) + 1, b))
<1>1. <<x>> \in Seq(S) /\ Len(<<x>>) = 1 /\ <<x>>[1] = x
  OBVIOUS
<1>2. /\ <<x>> \o s \in Seq(S) /\ Len(<<x>> \o s) = Len(s) + 1
      /\ \A i \in 1 .. 1 + Len(s) :
             (<<x>> \o s)[i] = IF i <= 1 THEN <<x>>[i] ELSE s[i - 1]
  BY <1>1, ConcatProperties
<1>3. (<<x>> \o s)[1] = x /\ \A k \in 1..Len(s) : (<<x>> \o s)[k + 1] = s[k]
  BY <1>1, <1>2
<1>4. ASSUME x = b + 1, Run(s, Len(s), b + 1) PROVE Run(<<x>> \o s, Len(s) + 1, b)
  <2>1. SUFFICES ASSUME NEW k \in 1..Len(s) + 1 PROVE (<<x>> \o s)[k] = b + k
    BY DEF Run
  <2>2. CASE k = 1
    BY <1>3, <1>4, <2>2
  <2>3. CASE k # 1
    <3>1. k - 1 \in 1..Len(s) /\ (<<x>> \o s)[k] = s[k - 1]
      BY <1>3, <2>3
    <3>2. QED
      BY <1>4, <3>1 DEF Run
  <2>4. QED
    BY <2>2, <2>3
<1>5. QED
  BY <1>2, <1>3, <1>4

LEMMA RunStoppedStep ==
  ASSUME WInv, RunStopped PROVE WInv'
<1>0. /\ ~Sent /\ ~Sent' /\ todo = <<>> /\ results \in Seq(Rows) /\ Len(results) \in Nat
  BY DEF WInv, TypeOK, Phases, Sent, RunStopped
<1>t. todo' \in Seq(Rows) /\ Len(todo') = Held + Len(results)
  <2>1. CASE holding = None
    BY <1>0, <2>1 DEF Held, RunStopped, Stopped
  <2>2. CASE holding # None
    <3>1. holding \in Rows /\ todo' = <<holding>> \o results
      BY <2>2 DEF WInv, TypeOK, RunStopped, Stopped
    <3>2. QED
      BY <1>0, <2>2, <3>1, ConsRun DEF Held
  <2>3. QED
    BY <2>1, <2>2
<1>1. TypeOK'
  BY <1>t DEF WInv, TypeOK, RunStopped
<1>2. EndPlace'
  BY <1>0 DEF WInv, EndPlace, RunStopped
<1>3. Phases'
  BY DEF WInv, Phases, EndPlace, TypeOK, Sent, RunStopped, Stopped
<1>4. Failures'
  BY DEF WInv, Failures, Phases, TypeOK, Left, RunStopped, Stopped
<1>5. SinkOK'
  BY DEF WInv, SinkOK, InOrder, RunStopped, Stopped
<1>6. Conveyor'
  <2>1. SUFFICES ASSUME ~failure PROVE Conveyor'
    BY DEF Conveyor, RunStopped
  <2>2. /\ AtHeld \in Nat /\ UNCHANGED <<AtBatch, AtNext, AtQueue, AtHeld>>
        /\ UNCHANGED EndQueued /\ Held' = 0
        /\ AtTodo = AtHeld + Held /\ AtResults = AtTodo
        /\ AtTodo' = AtHeld /\ AtResults' = AtHeld + Len(todo')
    BY <1>0, <1>t DEF WInv, TypeOK, RunStopped, AtBatch, AtNext, AtQueue, AtHeld, AtTodo,
       AtResults, NextRow, Held, EndQueued
  <2>3. Run(todo', Len(todo'), AtTodo')
    <3>1. CASE holding = None
      BY <1>0, <2>1, <2>2, <3>1 DEF WInv, Conveyor, Held, RunStopped, Stopped
    <3>2. CASE holding # None
      <4>1. holding \in Rows /\ todo' = <<holding>> \o results /\ Held = 1
        BY <3>2 DEF WInv, TypeOK, RunStopped, Stopped, Held
      <4>2. holding = AtHeld + 1 /\ Run(results, Len(results), AtHeld + 1)
        BY <2>1, <2>2, <3>2, <4>1 DEF WInv, Conveyor
      <4>3. Run(<<holding>> \o results, Len(results) + 1, AtHeld)
        BY <1>0, <2>2, <4>1, <4>2, ConsRun
      <4>4. QED
        BY <1>0, <1>t, <2>2, <4>1, <4>3
    <3>3. QED
      BY <3>1, <3>2
  <2>4. Len(results') = 0 /\ Run(results', Len(results'), AtResults') /\ holding' = None
    BY DEF Run, RunStopped
  <2>5. finished' = AtResults' + Len(results')
    BY <1>0, <1>t, <2>1, <2>2, <2>4 DEF WInv, Conveyor, Held, RunStopped
  <2>6. QED
    BY <2>1, <2>2, <2>3, <2>4, <2>5 DEF WInv, Conveyor, RunStopped
<1>7. QED
  BY <1>1, <1>2, <1>3, <1>4, <1>5, <1>6 DEF WInv

LEMMA GetRowStep ==
  ASSUME WInv, GetRow PROVE WInv'
<1>0. /\ queue \in Seq(Rows \cup {END}) /\ queue # <<>> /\ next = Pending /\ UNCHANGED cleanup
      /\ next' = Head(queue) /\ queue' = Tail(queue) /\ ~ended /\ (Sent' <=> Sent)
  BY DEF WInv, TypeOK, EndPlace, Sent, GetRow
<1>q. /\ Head(queue) \in Rows \cup {END} /\ Head(queue) = queue[1]
      /\ queue' \in Seq(Rows \cup {END}) /\ Len(queue') = Len(queue) - 1
      /\ \A k \in 1..Len(queue') : queue'[k] = queue[k + 1]
      /\ Len(queue) \in Nat \ {0} /\ (queue' = <<>> <=> Len(queue) = 1)
  <2>1. /\ Head(queue) \in Rows \cup {END} /\ Head(queue) = queue[1]
        /\ queue' \in Seq(Rows \cup {END}) /\ Len(queue') = Len(queue) - 1
        /\ \A k \in 1..Len(queue') : queue'[k] = queue[k + 1]
    BY <1>0, HeadTailProperties
  <2>2. Len(queue) \in Nat /\ (Len(queue) = 0 <=> queue = <<>>)
        /\ (Len(queue') = 0 <=> queue' = <<>>)
    BY <1>0, <2>1, EmptySeq, LenProperties
  <2>3. QED
    BY <1>0, <2>1, <2>2
<1>e. /\ next' = END <=> Sent /\ Len(queue) = 1
      /\ \A k \in 1..Len(queue') : queue'[k] = END <=> Sent /\ k = Len(queue')
  <2>1. \A k \in 1..Len(queue) : queue[k] = END <=> Sent /\ k = Len(queue)
    BY DEF WInv, EndPlace
  <2>2. 1 \in 1..Len(queue)
    BY <1>q
  <2>3. next' = END <=> Sent /\ Len(queue) = 1
    BY <1>0, <1>q, <2>1, <2>2
  <2>4. ASSUME NEW k \in 1..Len(queue') PROVE queue'[k] = END <=> Sent /\ k = Len(queue')
    <3>1. k + 1 \in 1..Len(queue) /\ (k = Len(queue') <=> k + 1 = Len(queue))
      BY <1>q
    <3>2. QED
      BY <1>q, <2>1, <3>1
  <2>5. QED
    BY <2>3, <2>4
<1>1. TypeOK'
  <2>1. next' \in 0..Pending /\ Len(queue') <= QueueSize
    BY <1>0, <1>q DEF WInv, TypeOK
  <2>2. QED
    BY <1>q, <2>1 DEF WInv, TypeOK, GetRow
<1>2. EndPlace'
  <2>1. Sent => todo = <<>>
    BY DEF WInv, EndPlace
  <2>2. Sent' => queue' # <<>> \/ next' = END
    BY <1>0, <1>q, <1>e
  <2>3. QED
    BY <1>0, <1>q, <1>e, <2>1, <2>2 DEF EndPlace, GetRow
<1>3. Phases'
  BY <1>0, <1>q DEF WInv, Phases, GetRow
<1>4. Failures'
  BY DEF WInv, Failures, Phases, TypeOK, Left, GetRow
<1>5. SinkOK'
  BY DEF WInv, SinkOK, InOrder, GetRow
<1>6. Conveyor'
  <2>1. SUFFICES ASSUME ~failure PROVE Conveyor'
    BY DEF Conveyor, GetRow
  <2>2. /\ AtNext \in Nat /\ UNCHANGED <<AtBatch, AtNext>>
        /\ AtQueue = AtNext /\ AtQueue' = AtNext + NextRow'
        /\ EndQueued \in Nat /\ EndQueued' \in Nat
        /\ AtHeld = AtNext + Len(queue) - EndQueued
        /\ AtHeld' = AtNext + NextRow' + Len(queue') - EndQueued'
    BY <1>0 DEF WInv, TypeOK, GetRow, AtBatch, AtNext, AtQueue, AtHeld, AtTodo, AtResults,
       NextRow, Held, EndQueued
  <2>3. Run(queue, Len(queue) - EndQueued, AtNext)
    BY <2>1, <2>2 DEF WInv, Conveyor
  <2>4. CASE next' = END
    <3>0. Sent /\ Len(queue) = 1 /\ queue' = <<>> /\ Len(queue') = 0
      BY <1>q, <1>e, <2>4
    <3>1. EndQueued = 1 /\ EndQueued' = 0 /\ NextRow' = 0
      BY <1>0, <2>4, <3>0 DEF EndQueued, NextRow
    <3>2. AtHeld' = AtHeld /\ Run(queue', Len(queue') - EndQueued', AtQueue')
      <4>1. AtHeld' = AtHeld /\ Len(queue') - EndQueued' = 0
        BY <2>2, <3>0, <3>1
      <4>2. QED
        BY <4>1 DEF Run
    <3>3. UNCHANGED <<AtTodo, AtResults>>
      BY <3>2 DEF AtTodo, AtResults, Held, GetRow
    <3>4. next' \notin Rows
      BY <2>4
    <3>5. QED
      BY <2>1, <2>2, <3>2, <3>3, <3>4 DEF WInv, Conveyor, GetRow
  <2>5. CASE next' # END
    <3>1. next' \in Rows /\ NextRow' = 1
      BY <1>0, <1>q, <2>5 DEF NextRow
    <3>2. EndQueued' = EndQueued /\ Len(queue) - EndQueued \in 1..Len(queue)
      <4>1. CASE Sent
        <5>1. Len(queue) # 1 /\ queue' # <<>>
          BY <1>q, <1>e, <2>5, <4>1
        <5>2. EndQueued = 1 /\ EndQueued' = 1
          BY <1>0, <4>1, <5>1 DEF EndQueued
        <5>3. QED
          BY <1>q, <5>1, <5>2
      <4>2. CASE ~Sent
        <5>1. EndQueued = 0 /\ EndQueued' = 0
          BY <1>0, <4>2 DEF EndQueued
        <5>2. QED
          BY <1>q, <5>1
      <4>3. QED
        BY <4>1, <4>2
    <3>3. /\ next' = AtNext + 1
          /\ Run(queue', Len(queue) - EndQueued - 1, AtNext + 1)
      BY <1>0, <2>2, <2>3, <3>2, TailRun
    <3>4. AtHeld' = AtHeld /\ Len(queue') - EndQueued' = Len(queue) - EndQueued - 1
      BY <1>q, <2>2, <3>1, <3>2
    <3>5. UNCHANGED <<AtTodo, AtResults>>
      BY <3>4 DEF AtTodo, AtResults, Held, GetRow
    <3>6. QED
      BY <2>1, <2>2, <3>1, <3>3, <3>4, <3>5 DEF WInv, Conveyor, GetRow
  <2>6. QED
    BY <2>4, <2>5
<1>7. QED
  BY <1>1, <1>2, <1>3, <1>4, <1>5, <1>6 DEF WInv

\* Everything that waits for the writer, in place.
LEMMA WaitingIs ==
  ASSUME WInv, writer = "next", next # Pending
  PROVE  /\ Waiting \in Seq(Rows \cup {END}) /\ Len(Waiting) = Len(queue) + 1
         /\ \A k \in DOMAIN Waiting : Waiting[k] = END <=> Sent /\ k = Len(Waiting)
         /\ HasEnd(Waiting) <=> Sent
         /\ RowsOf(Waiting) \in Seq(Rows)
         /\ Len(RowsOf(Waiting)) = NextRow + Len(queue) - EndQueued
         /\ ~failure => Run(RowsOf(Waiting), Len(RowsOf(Waiting)), AtBatch)
<1>1. /\ next \in Rows \cup {END} /\ queue \in Seq(Rows \cup {END}) /\ batch = <<>>
      /\ ~ended /\ Len(queue) \in Nat /\ (Len(queue) = 0 <=> queue = <<>>)
      /\ \A k \in 1..Len(queue) : queue[k] = END <=> Sent /\ k = Len(queue)
      /\ (next = END => Sent /\ queue = <<>>) /\ (Sent => queue # <<>> \/ next = END)
  BY EmptySeq, LenProperties DEF WInv, TypeOK, Phases, EndPlace
<1>2. /\ Waiting \in Seq(Rows \cup {END}) /\ Len(Waiting) = Len(queue) + 1
      /\ Waiting[1] = next /\ \A k \in 1..Len(queue) : Waiting[k + 1] = queue[k]
  BY <1>1, ConsRun DEF Waiting
<1>3. ASSUME NEW k \in 1..Len(Waiting)
      PROVE  Waiting[k] = END <=> Sent /\ k = Len(Waiting)
  <2>1. CASE k = 1
    <3>1. Waiting[k] = next /\ (k = Len(Waiting) <=> Len(queue) = 0)
      BY <1>1, <1>2, <2>1
    <3>2. QED
      BY <1>1, <3>1
  <2>2. CASE k # 1
    <3>1. k - 1 \in 1..Len(queue) /\ Waiting[k] = queue[k - 1]
          /\ (k = Len(Waiting) <=> k - 1 = Len(queue))
      BY <1>1, <1>2, <1>3, <2>2
    <3>2. QED
      BY <1>1, <3>1
  <2>3. QED
    BY <2>1, <2>2
<1>4. DOMAIN Waiting = 1..Len(Waiting) /\ Len(Waiting) \in 1..Len(Waiting)
  BY <1>1, <1>2, LenProperties
<1>5. HasEnd(Waiting) <=> Sent
  BY <1>3, <1>4 DEF HasEnd
<1>6. ASSUME NEW k \in 1..Len(Waiting), Sent => k # Len(Waiting) PROVE Waiting[k] \in Rows
  <2>1. Waiting[k] \in Rows \cup {END}
    BY <1>2, <1>6, ElementOfSeq
  <2>2. QED
    BY <1>3, <1>6, <2>1
<1>7. /\ RowsOf(Waiting) \in Seq(Rows)
      /\ Len(RowsOf(Waiting)) = Len(Waiting) - (IF Sent THEN 1 ELSE 0)
      /\ \A k \in 1..Len(RowsOf(Waiting)) : RowsOf(Waiting)[k] = Waiting[k]
  <2>1. CASE Sent
    <3>1. \A i \in 1..Len(Waiting) - 1 : Waiting[i] \in Rows
      BY <1>1, <1>2, <1>6
    <3>2. RowsOf(Waiting) = SubSeq(Waiting, 1, Len(Waiting) - 1)
      BY <1>5, <2>1 DEF RowsOf
    <3>3. Len(Waiting) - 1 \in Nat
      BY <1>1, <1>2
    <3>4. /\ SubSeq(Waiting, 1, Len(Waiting) - 1) \in Seq(Rows)
          /\ Len(SubSeq(Waiting, 1, Len(Waiting) - 1)) = Len(Waiting) - 1
          /\ \A i \in 1..Len(Waiting) - 1 : SubSeq(Waiting, 1, Len(Waiting) - 1)[i] = Waiting[i]
      <4>1. DEFINE n == Len(Waiting) - 1
      <4>2. n \in Int /\ n >= 0 /\ \A i \in 1..n : Waiting[i] \in Rows
        BY <3>1, <3>3
      <4> HIDE DEF n
      <4>3. /\ SubSeq(Waiting, 1, n) \in Seq(Rows)
            /\ Len(SubSeq(Waiting, 1, n)) = (IF 1 <= n THEN n - 1 + 1 ELSE 0)
            /\ \A i \in 1 .. n - 1 + 1 : SubSeq(Waiting, 1, n)[i] = Waiting[1 + i - 1]
        BY <4>2, SubSeqProperties
      <4>4. Len(SubSeq(Waiting, 1, n)) = n
        BY <4>2, <4>3
      <4>5. \A i \in 1..n : SubSeq(Waiting, 1, n)[i] = Waiting[i]
        BY <4>2, <4>3
      <4>6. QED
        BY <4>3, <4>4, <4>5 DEF n
    <3>5. QED
      BY <2>1, <3>2, <3>4
  <2>2. CASE ~Sent
    <3>1. RowsOf(Waiting) = Waiting
      BY <1>5, <2>2 DEF RowsOf
    <3>2. \A i \in 1..Len(Waiting) : Waiting[i] \in Rows
      BY <1>6, <2>2
    <3>3. Waiting \in Seq(Rows)
      BY <1>2, <1>4, <3>2, IsASeq
    <3>4. QED
      BY <1>1, <1>2, <2>2, <3>1, <3>3
  <2>3. QED
    BY <2>1, <2>2
<1>8. Len(RowsOf(Waiting)) = NextRow + Len(queue) - EndQueued
  <2>1. CASE next = END
    <3>1. Sent /\ queue = <<>> /\ Len(queue) = 0 /\ NextRow = 0 /\ EndQueued = 0
      BY <1>1, <2>1 DEF NextRow, EndQueued
    <3>2. QED
      BY <1>2, <1>7, <3>1
  <2>2. CASE next # END
    <3>1. NextRow = 1 /\ EndQueued = (IF Sent THEN 1 ELSE 0)
      BY <1>1, <2>2 DEF NextRow, EndQueued
    <3>2. QED
      BY <1>1, <1>2, <1>7, <3>1
  <2>3. QED
    BY <2>1, <2>2
<1>9. ASSUME ~failure PROVE Run(RowsOf(Waiting), Len(RowsOf(Waiting)), AtBatch)
  <2>1. /\ AtBatch \in Nat /\ AtNext = AtBatch /\ AtQueue = AtBatch + NextRow
        /\ (next \in Rows => next = AtBatch + 1)
        /\ Run(queue, Len(queue) - EndQueued, AtBatch + NextRow)
    BY <1>1, <1>9 DEF WInv, TypeOK, Conveyor, AtBatch, AtNext, AtQueue, NextRow
  <2>2. SUFFICES ASSUME NEW k \in 1..Len(RowsOf(Waiting)) PROVE Waiting[k] = AtBatch + k
    BY <1>7 DEF Run
  <2>3. next \in Rows /\ NextRow = 1 /\ EndQueued \in {0, 1}
    <3>1. CASE next = END
      BY <1>1, <1>8, <3>1 DEF NextRow, EndQueued
    <3>2. QED
      BY <1>1, <3>1 DEF NextRow, EndQueued
  <2>4. CASE k = 1
    BY <1>2, <2>1, <2>3, <2>4
  <2>5. CASE k # 1
    <3>1. k - 1 \in 1..Len(queue) - EndQueued /\ k - 1 \in 1..Len(queue)
      BY <1>1, <1>8, <2>3, <2>5
    <3>2. Waiting[k] = queue[k - 1]
      BY <1>2, <3>1
    <3>3. queue[k - 1] = AtBatch + 1 + (k - 1)
      BY <2>1, <2>3, <3>1 DEF Run
    <3>4. QED
      BY <2>1, <3>2, <3>3
  <2>6. QED
    BY <2>4, <2>5
<1>10. QED
  BY <1>2, <1>3, <1>4, <1>5, <1>7, <1>8, <1>9

LEMMA NextBatchStep ==
  ASSUME WInv, NextBatch PROVE WInv'
<1>0. /\ writer = "next" /\ next # Pending /\ queue' = <<>> /\ batch = <<>> /\ ended' = HasEnd(Waiting)
      /\ (Sent' <=> Sent)
  BY DEF WInv, Phases, Sent, NextBatch
<1>w. /\ RowsOf(Waiting) \in Seq(Rows) /\ ended' \in BOOLEAN /\ (ended' <=> Sent)
      /\ Len(RowsOf(Waiting)) = NextRow + Len(queue) - EndQueued
      /\ (~failure => Run(RowsOf(Waiting), Len(RowsOf(Waiting)), AtBatch))
  BY <1>0, WaitingIs DEF HasEnd
<1>n. /\ batch' = <<>> \/ (batch' = RowsOf(Waiting) /\ batch' # <<>>)
      /\ writer' = "append" => ~failure /\ next' = None /\ batch' # <<>>
      /\ writer' # "append" => /\ writer' = (IF ended' THEN "last" ELSE "next")
                               /\ next' = (IF ended' THEN None ELSE Pending) /\ batch' = <<>>
      /\ writer' \in {"next", "append", "last"} /\ oldest' \in BOOLEAN
      /\ ~failure => batch' = RowsOf(Waiting)
  <2>1. CASE (failure \/ RowsOf(Waiting) = <<>>) /\ GoOn(ended', None) /\ UNCHANGED <<batch, oldest>>
    <3>1. writer' = (IF ended' THEN "last" ELSE "next") /\ next' = (IF ended' THEN None ELSE Pending)
      BY <2>1 DEF GoOn
    <3>2. oldest' \in BOOLEAN
      BY <2>1 DEF WInv, TypeOK
    <3>3. batch' = <<>> /\ (~failure => batch' = RowsOf(Waiting))
      BY <1>0, <2>1
    <3>4. writer' \in {"next", "last"} /\ writer' # "append"
      BY <3>1
    <3>5. QED
      BY <3>1, <3>2, <3>3, <3>4
  <2>2. CASE /\ ~failure /\ RowsOf(Waiting) # <<>> /\ batch' = RowsOf(Waiting)
             /\ oldest' = TRUE /\ writer' = "append" /\ next' = None
    BY <2>2
  <2>3. QED
    BY <2>1, <2>2 DEF NextBatch
<1>1. TypeOK'
  <2>1. queue' \in Seq(Rows \cup {END}) /\ Len(queue') = 0
    BY <1>0
  <2>2. batch' \in Seq(Rows)
    <3>1. <<>> \in Seq(Rows)
      OBVIOUS
    <3>2. QED
      BY <1>w, <1>n, <3>1
  <2>3. next' \in 0..Pending
    BY <1>n
  <2>4. QED
    BY <1>w, <1>n, <2>1, <2>2, <2>3 DEF WInv, TypeOK, NextBatch
<1>2. EndPlace'
  <2>1. Sent => todo = <<>>
    BY DEF WInv, EndPlace
  <2>2. next' # END /\ (ended' => next' = None) /\ Len(queue') = 0
    BY <1>0, <1>n
  <2>3. QED
    BY <1>0, <1>w, <2>1, <2>2 DEF EndPlace, NextBatch
<1>3. Phases'
  <2>1. cleanup # "done" /\ UNCHANGED <<drain, cleanup, todo, holding, caller, failure>>
    BY <1>0 DEF WInv, Phases, NextBatch
  <2>2. QED
    BY <1>0, <1>n, <2>1 DEF WInv, Phases
<1>4. Failures'
  BY <1>0, <1>n DEF WInv, Failures, Left, NextBatch
<1>5. SinkOK'
  BY <1>n, SinkStill DEF WInv, NextBatch
<1>6. Conveyor'
  <2>1. SUFFICES ASSUME ~failure PROVE Conveyor'
    BY DEF Conveyor, NextBatch
  <2>2. batch' = RowsOf(Waiting) /\ next' \notin Rows
    BY <1>n, <2>1
  <2>3. /\ AtBatch' = AtBatch /\ AtNext' = AtBatch + Len(batch') /\ AtQueue' = AtNext'
        /\ Len(queue') = 0 /\ EndQueued' = 0 /\ AtHeld' = AtNext' /\ AtHeld = AtNext'
    <3>1. Len(batch) = 0 /\ Len(queue') = 0 /\ EndQueued' = 0 /\ NextRow' = 0
          /\ AtBatch' = AtBatch /\ AtBatch \in Nat
      BY <1>0, <2>2 DEF WInv, TypeOK, NextBatch, AtBatch, NextRow, EndQueued
    <3>2. Len(batch') = NextRow + Len(queue) - EndQueued /\ Len(queue) \in Nat
          /\ NextRow \in Nat /\ EndQueued \in Nat
      BY <1>w, <2>2 DEF WInv, TypeOK, NextRow, EndQueued
    <3>3. QED
      BY <3>1, <3>2 DEF AtNext, AtQueue, AtHeld
  <2>4. UNCHANGED <<AtTodo, AtResults>>
    BY <2>3 DEF AtTodo, AtResults, Held, NextBatch
  <2>5. Run(batch', Len(batch'), AtBatch') /\ Run(queue', Len(queue') - EndQueued', AtQueue')
    BY <1>w, <2>1, <2>2, <2>3 DEF Run
  <2>6. QED
    BY <2>1, <2>2, <2>3, <2>4, <2>5 DEF WInv, Conveyor, NextBatch
<1>7. QED
  BY <1>1, <1>2, <1>3, <1>4, <1>5, <1>6 DEF WInv

\* The next row of the batch is the one after the rows the sink was given.
LEMMA HeadOfBatch ==
  ASSUME WInv, writer = "append"
  PROVE  /\ batch \in Seq(Rows) /\ Len(batch) \in Nat \ {0}
         /\ Head(batch) = Len(appended) + 1 /\ Head(batch) \in Rows
         /\ Tail(batch) \in Seq(Rows) /\ Len(Tail(batch)) = Len(batch) - 1
         /\ (Tail(batch) = <<>> <=> Len(Tail(batch)) = 0)
         /\ Run(Tail(batch), Len(Tail(batch)), Len(appended) + 1)
         /\ appended \in Seq(Rows) /\ Len(appended) \in Nat
         /\ Append(appended, Head(batch)) \in Seq(Rows)
         /\ Len(Append(appended, Head(batch))) = Len(appended) + 1
         /\ Append(appended, Head(batch)) = [k \in 1..Len(appended) + 1 |-> k]
<1>1. /\ batch \in Seq(Rows) /\ batch # <<>> /\ Run(batch, Len(batch), Len(appended))
      /\ appended \in Seq(Rows) /\ Len(appended) \in Nat
  BY DEF WInv, TypeOK, Phases, Conveyor, AtBatch
<1>2. Len(batch) \in Nat \ {0} /\ Len(batch) \in 1..Len(batch)
  BY <1>1, EmptySeq
<1>3. /\ Head(batch) = Len(appended) + 1 /\ Head(batch) \in Rows
      /\ Tail(batch) \in Seq(Rows) /\ Len(Tail(batch)) = Len(batch) - 1
      /\ Run(Tail(batch), Len(batch) - 1, Len(appended) + 1)
  BY <1>1, <1>2, TailRun
<1>4. Tail(batch) = <<>> <=> Len(Tail(batch)) = 0
  BY <1>3, EmptySeq
<1>5. /\ Append(appended, Head(batch)) \in Seq(Rows)
      /\ Len(Append(appended, Head(batch))) = Len(appended) + 1
      /\ \A i \in 1..Len(appended) : Append(appended, Head(batch))[i] = appended[i]
      /\ Append(appended, Head(batch))[Len(appended) + 1] = Head(batch)
  BY <1>1, <1>3, AppendProperties
<1>6. Append(appended, Head(batch)) = [k \in 1..Len(appended) + 1 |-> k]
  <2>1. \A i \in 1..Len(appended) : appended[i] = i
    BY DEF WInv, SinkOK, InOrder
  <2>2. \A i \in 1..Len(appended) + 1 : Append(appended, Head(batch))[i] = i
    BY <1>1, <1>3, <1>5, <2>1
  <2>3. DOMAIN Append(appended, Head(batch)) = 1..Len(appended) + 1
    BY <1>5, LenProperties
  <2>4. DEFINE n == Len(appended) + 1
               a == Append(appended, Head(batch))
               t == [k \in 1..n |-> k]
  <2>5. n \in Nat /\ a \in Seq(Nat) /\ t \in Seq(Nat) /\ Len(t) = n /\ Len(a) = n
    BY <1>1, <1>5
  <2>6. \A i \in 1..Len(a) : a[i] = t[i]
    BY <2>2, <2>5
  <2> HIDE DEF a, t
  <2>7. a = t
    BY <2>5, <2>6, SeqEqual
  <2>8. QED
    BY <2>7 DEF a, t
<1>7. QED
  BY <1>1, <1>2, <1>3, <1>4, <1>5, <1>6

LEMMA AppendRowStep ==
  ASSUME WInv, AppendRow PROVE WInv'
<1>0. writer = "append" /\ batch' = Tail(batch) /\ appended' = Append(appended, Head(batch))
      /\ next = None /\ ~failure
  BY DEF WInv, Phases, AppendRow
<1>g. IF batch' = <<>> THEN /\ writer' = (IF ended THEN "last" ELSE "next")
                            /\ next' = (IF ended THEN None ELSE Pending)
                        ELSE UNCHANGED <<writer, next>>
  BY <1>0 DEF AppendRow, GoOn
<1>s. /\ stored' \cup buf' = stored \cup buf \cup {Head(batch)}
      /\ stored' \subseteq Rows /\ buf' \subseteq Rows
  <2>1. stored' \cup buf' = stored \cup buf \cup {Head(batch)}
    BY DEF AppendRow
  <2>2. stored \subseteq Rows /\ buf \subseteq Rows
    BY DEF WInv, TypeOK
  <2>3. Head(batch) \in Rows
    BY <1>0, HeadOfBatch
  <2>4. ASSUME NEW x \in stored' \cup buf' PROVE x \in Rows
    BY <2>1, <2>2, <2>3
  <2>5. QED
    BY <2>1, <2>4
<1>1. TypeOK'
  <2>1. appended' \in Seq(Rows) /\ batch' \in Seq(Rows)
    BY <1>0, HeadOfBatch
  <2>2. next' \in 0..Pending /\ writer' \in {"next", "append", "flush", "last", "done"}
    BY <1>0, <1>g DEF WInv, TypeOK
  <2>3. QED
    BY <1>s, <2>1, <2>2 DEF WInv, TypeOK, AppendRow
<1>2. EndPlace'
  <2>1. next' # END /\ (ended => next' = None)
    BY <1>0, <1>g
  <2>2. QED
    BY <1>0, <2>1 DEF WInv, EndPlace, Sent, AppendRow
<1>3. Phases'
  <2>1. cleanup # "done" /\ UNCHANGED <<drain, cleanup, todo, holding, caller, failure, ended>>
    BY <1>0 DEF WInv, Phases, AppendRow
  <2>2. QED
    BY <1>0, <1>g, <2>1 DEF WInv, Phases
<1>4. Failures'
  BY <1>0, <1>g DEF WInv, Failures, Left, AppendRow
<1>5. SinkOK'
  <2>1. InOrder' /\ Len(appended') = Len(appended) + 1
    BY <1>0, HeadOfBatch DEF InOrder
  <2>2. stored' \cup buf' = 1..Len(appended')
    BY <1>0, <1>s, <2>1, HeadOfBatch DEF WInv, SinkOK
  <2>3. writer' # "done"
    BY <1>0, <1>g
  <2>4. QED
    BY <2>1, <2>2, <2>3 DEF SinkOK
<1>6. Conveyor'
  <2>1. AtBatch' = AtBatch + 1 /\ Run(batch', Len(batch'), AtBatch') /\ AtNext' = AtNext
    BY <1>0, HeadOfBatch DEF AtBatch, AtNext
  <2>2. next' \notin Rows /\ NextRow' = NextRow
    BY <1>0, <1>g DEF NextRow
  <2>3. UNCHANGED <<AtQueue, AtHeld, AtTodo, AtResults, EndQueued>>
    BY <2>1, <2>2 DEF AtQueue, AtHeld, AtTodo, AtResults, EndQueued, Sent, Held, AppendRow
  <2>4. QED
    BY <1>0, <2>1, <2>2, <2>3 DEF WInv, Conveyor, AppendRow
<1>7. QED
  BY <1>1, <1>2, <1>3, <1>4, <1>5, <1>6 DEF WInv

LEMMA AppendFailsStep ==
  ASSUME WInv, AppendFails PROVE WInv'
<1>0. writer = "append" /\ next = None /\ failure' /\ broken' /\ batch' = <<>>
      /\ writer' = (IF ended THEN "last" ELSE "next")
      /\ next' = (IF ended THEN None ELSE Pending)
  BY DEF WInv, Phases, AppendFails, CallFailed, GoOn
<1>s. \/ UNCHANGED <<appended, buf, stored>>
      \/ /\ appended' = Append(appended, Head(batch)) /\ stored' = stored
         /\ buf' = buf \cup {Head(batch)}
  BY DEF AppendFails
<1>1. TypeOK'
  <2>1. appended' \in Seq(Rows) /\ stored' \subseteq Rows /\ buf' \subseteq Rows
    <3>1. stored \subseteq Rows /\ buf \subseteq Rows /\ appended \in Seq(Rows)
      BY DEF WInv, TypeOK
    <3>2. Head(batch) \in Rows /\ Append(appended, Head(batch)) \in Seq(Rows)
      BY <1>0, HeadOfBatch
    <3>3. QED
      BY <1>s, <3>1, <3>2
  <2>2. next' \in 0..Pending /\ writer' \in {"next", "append", "flush", "last", "done"}
    BY <1>0
  <2>3. failure' \in BOOLEAN /\ broken' \in BOOLEAN /\ cut' \in BOOLEAN /\ batch' \in Seq(Rows)
        /\ first' \in {"none", "cancel", "error", "write"}
    BY DEF WInv, TypeOK, AppendFails, CallFailed, Note
  <2>4. QED
    BY <2>1, <2>2, <2>3 DEF WInv, TypeOK, AppendFails, CallFailed
<1>2. EndPlace'
  <2>1. next' # END /\ (ended => next' = None)
    BY <1>0
  <2>2. QED
    BY <1>0, <2>1 DEF WInv, EndPlace, Sent, AppendFails
<1>3. Phases'
  <2>1. cleanup # "done" /\ UNCHANGED <<drain, cleanup, todo, holding, caller, ended>>
    BY <1>0 DEF WInv, Phases, AppendFails
  <2>2. QED
    BY <1>0, <2>1 DEF WInv, Phases
<1>4. Failures'
  <2>1. outcome # "returned"
    BY <1>0 DEF WInv, Failures, Phases
  <2>2. QED
    BY <1>0, <2>1 DEF Failures, AppendFails, CallFailed
<1>5. SinkOK'
  <2>1. InOrder' /\ stored' \cup buf' = 1..Len(appended')
    <3>1. CASE UNCHANGED <<appended, buf, stored>>
      BY <3>1 DEF WInv, SinkOK, InOrder
    <3>2. CASE appended' = Append(appended, Head(batch)) /\ stored' = stored /\ buf' = buf \cup {Head(batch)}
      <4>1. InOrder' /\ Len(appended') = Len(appended) + 1
        BY <1>0, <3>2, HeadOfBatch DEF InOrder
      <4>2. stored' \cup buf' = stored \cup buf \cup {Head(batch)}
        BY <3>2
      <4>3. stored' \cup buf' = 1..Len(appended')
        BY <1>0, <4>1, <4>2, HeadOfBatch DEF WInv, SinkOK
      <4>4. QED
        BY <4>1, <4>3
    <3>3. QED
      BY <1>s, <3>1, <3>2
  <2>2. QED
    BY <1>0, <2>1 DEF SinkOK
<1>6. Conveyor'
  BY <1>0 DEF Conveyor
<1>7. QED
  BY <1>1, <1>2, <1>3, <1>4, <1>5, <1>6 DEF WInv

-----------------------------------------------------------------------------
LEMMA WriterInit == Init => WInv
<1>1. SUFFICES ASSUME Init PROVE WInv
  OBVIOUS
<1>2. TypeOK
  <2>1. <<>> \in Seq(Rows) /\ <<>> \in Seq(Rows \cup {END}) /\ Len(<<>>) <= QueueSize
    OBVIOUS
  <2>2. 0 \in 0..NumRows /\ Pending \in 0..Pending
    OBVIOUS
  <2>3. QED
    BY <1>1, <2>1, <2>2 DEF Init, TypeOK
<1>3. EndPlace
  BY <1>1 DEF Init, EndPlace, Sent
<1>4. Phases
  BY <1>1 DEF Init, Phases
<1>5. Failures
  BY <1>1 DEF Init, Failures, Left
<1>6. SinkOK
  BY <1>1 DEF Init, SinkOK, InOrder
<1>7. Conveyor
  BY <1>1 DEF Init, Conveyor, Run, AtBatch, AtNext, AtQueue, AtHeld, AtTodo, AtResults, NextRow,
         Held, EndQueued, Sent
<1>8. QED
  BY <1>2, <1>3, <1>4, <1>5, <1>6, <1>7 DEF WInv

LEMMA WriterStuck == ASSUME WInv, UNCHANGED vars PROVE WInv'
<1>1. TypeOK'
  BY DEF WInv, TypeOK, vars
<1>2. EndPlace'
  BY EndStill DEF WInv, Sent, vars
<1>3. Phases'
  BY DEF WInv, Phases, vars
<1>4. Failures'
  BY DEF WInv, Failures, Left, vars
<1>5. SinkOK'
  BY SinkStill DEF WInv, vars
<1>6. Conveyor'
  BY BeltStill DEF WInv, TypeOK, EndQueued, Sent, vars
<1>7. QED
  BY <1>1, <1>2, <1>3, <1>4, <1>5, <1>6 DEF WInv

\* WInv holds in every state of the writer, for every number of rows, queue size, timer
\* and caller.
THEOREM WriterInvariant == Spec => []WInv
<1>1. WInv /\ [Next]_vars => WInv'
  <2>1. SUFFICES ASSUME WInv, [Next]_vars PROVE WInv'
    OBVIOUS
  <2>2. CASE Drain
    BY <2>1, <2>2, TakeStep, PutStep, SeeEndStep, CutShortStep, DrainEndsStep DEF Drain
  <2>3. CASE Cleanup
    BY <2>1, <2>3, RunStoppedStep, HandOverStep, SendEndStep, CleanupDoneStep DEF Cleanup
  <2>4. CASE Works
    BY <2>1, <2>4, NextBatchStep, AppendRowStep, AppendFailsStep, FlushWorksStep,
       FlushFailsStep, LastFlushWorksStep, LastFlushFailsStep DEF Works
  <2>5. CASE RowFinishes \/ StreamEnds \/ StreamRaises \/ Cancel \/ GetRow \/ Quiet
    BY <2>1, <2>5, RowFinishesStep, StreamEndsStep, StreamRaisesStep, CancelStep, GetRowStep,
       QuietStep
  <2>6. CASE Over \/ UNCHANGED vars
    BY <2>1, <2>6, WriterStuck DEF Over
  <2>7. QED
    BY <2>1, <2>2, <2>3, <2>4, <2>5, <2>6 DEF Next
<1>2. QED
  BY <1>1, WriterInit, PTL DEF Spec

\* The sink is given the finished rows in order, each once and without gaps, and the end
\* of the queue is behind every row: drain, _close and _Writer never overtake a row.
THEOREM WriterKeepsOrder == Spec => []RowsInOrder
<1>1. WInv => RowsInOrder
  <2>1. SUFFICES ASSUME WInv PROVE EndIsLast
    BY DEF WInv, SinkOK, RowsInOrder
  <2>2. SUFFICES ASSUME NEW k \in DOMAIN Waiting, Waiting[k] = END PROVE k = Len(Waiting)
    BY DEF EndIsLast
  <2>3. next \in 0..Pending /\ queue \in Seq(Rows \cup {END}) /\ Len(queue) \in Nat
    BY <2>1 DEF WInv, TypeOK
  <2>4. next \in Nat /\ queue \in Seq(Nat)
    BY <2>3
  <2>5. /\ Waiting \in Seq(Nat) /\ Len(Waiting) = Len(queue) + 1 /\ Waiting[1] = next
        /\ \A i \in 1..Len(queue) : Waiting[i + 1] = queue[i]
    BY <2>4, ConsRun DEF Waiting
  <2>6. k \in 1..Len(queue) + 1
    BY <2>2, <2>5, LenProperties
  <2>7. CASE k = 1
    <3>1. queue = <<>> /\ Len(queue) = 0
      BY <2>1, <2>2, <2>5, <2>7 DEF WInv, EndPlace
    <3>2. QED
      BY <2>5, <2>7, <3>1
  <2>8. CASE k # 1
    <3>1. k - 1 \in 1..Len(queue) /\ queue[k - 1] = END
      BY <2>2, <2>3, <2>5, <2>6, <2>8
    <3>2. k - 1 = Len(queue)
      BY <2>1, <3>1 DEF WInv, EndPlace
    <3>3. QED
      BY <2>3, <2>5, <2>6, <3>2
  <2>9. QED
    BY <2>7, <2>8
<1>2. QED
  BY <1>1, WriterInvariant, PTL

\* When the cleanup is done and no call of the sink failed, or drain returned, every row
\* that finished is stored: no cancel and no full queue loses one.
THEOREM WriterLosesNothing == Spec => []NothingLost
<1>1. WInv => NothingLost
  <2>1. SUFFICES ASSUME WInv, (cleanup = "done" /\ ~broken) \/ outcome = "returned" PROVE Stored
    BY DEF NothingLost
  <2>2. cleanup = "done" /\ ~broken /\ ~failure
    BY <2>1 DEF WInv, Failures, TypeOK
  <2>3. /\ writer = "done" /\ batch = <<>> /\ next = None /\ queue = <<>> /\ todo = <<>>
        /\ results = <<>> /\ holding = None /\ buf = {}
    BY <2>1, <2>2 DEF WInv, Phases, EndPlace, Failures, SinkOK, Left
  <2>4. finished = Len(appended)
    BY <2>1, <2>2, <2>3 DEF WInv, TypeOK, Conveyor, AtBatch, AtNext, AtQueue, AtHeld, AtTodo,
       AtResults, NextRow, Held, EndQueued
  <2>5. QED
    BY <2>1, <2>3, <2>4 DEF WInv, SinkOK, Stored
<1>2. QED
  BY <1>1, WriterInvariant, PTL
==============================================================================
