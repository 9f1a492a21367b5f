------------------------------- MODULE Storage -------------------------------
(***************************************************************************)
(* The output of one shard over its runs: ParquetSink of saturate/sink.py, *)
(* the writer thread that drives it (writer.py), the resume filter         *)
(* skip_done (source.py) and the accounting of _pump (__init__.py).  Runs  *)
(* end, fail and crash at any point and the next one resumes.              *)
(*                                                                         *)
(* A part is written first and its manifest second.  A write is tried      *)
(* Attempts times under one name; an attempt that raises may have landed,  *)
(* and the removal of what it left may fail too.                           *)
(***************************************************************************)
EXTENDS Integers, Sequences, FiniteSets

CONSTANTS
  Ids,          \* the ids of rows
  Input,        \* the ids the input yields, in order; an id may come twice
  Failing,      \* the ids whose request or parse may fail
  Unfit,        \* the ids whose result may not fit the pinned column types
  FlushEvery,   \* ParquetSink(flush_every=)
  Attempts,     \* _write(attempts=)
  MaxFaults,    \* bound: failing writes that leave nothing behind
  MaxDoubts,    \* bound: a failed write whose part landed, an unreadable part
  MaxRestarts,  \* bound: crashes, failing runs and runs to retry errors
  MaxTroubles   \* bound: the troubles in all

ASSUME StorageAssumption ==
  /\ IsFiniteSet(Ids) /\ Input \in Seq(Ids)
  /\ Failing \subseteq Ids /\ Unfit \subseteq Ids
  /\ FlushEvery \in Nat \ {0} /\ Attempts \in Nat \ {0}
  /\ MaxFaults \in Nat /\ MaxDoubts \in Nat /\ MaxRestarts \in Nat
  /\ MaxTroubles \in Nat

VARIABLES
  parts, marker,                        \* storage: the parts, in write order
  run, failed, base,                    \* the run; the parts there were before it
  retry, skip, pos, seen, flight,       \* retry_errors, skip_done, the rows in flight
  buf, demoted, writer, tries, landed,  \* the sink's buffer and the flush
  stats,                                \* Stats
  faults, doubts, restarts              \* spent of the bounds

storage == <<parts, marker>>
reader  == <<retry, skip, pos, seen, flight>>
flush   == <<writer, tries, landed>>
spent   == <<faults, doubts, restarts>>
vars == <<storage, run, failed, base, reader, buf, demoted, flush, stats, spent>>

Rec(i, e) == [id |-> i, error |-> e]
NoStats   == [total |-> 0, prior |-> 0, deduped |-> 0, processed |-> 0, failed |-> 0]

\* rows_unaccounted
Unaccounted == stats.total - stats.prior - stats.deduped - stats.processed - stats.failed

Init ==
  /\ parts = <<>> /\ marker = FALSE
  /\ run = "idle" /\ failed = FALSE /\ base = 0
  /\ retry = FALSE /\ skip = {} /\ pos = 1 /\ seen = {} /\ flight = {}
  /\ buf = {} /\ demoted = 0 /\ writer = "idle" /\ tries = 0 /\ landed = FALSE
  /\ stats = NoStats /\ faults = 0 /\ doubts = 0 /\ restarts = 0

\* Room for one more trouble.
Room == faults + doubts + restarts < MaxTroubles

-----------------------------------------------------------------------------
(* existing_ids and skip_done.                                              *)

OkIn(p)     == {r.id : r \in {x \in p.recs : ~x.error}}
FailedIn(p) == {r.id : r \in {x \in p.recs : x.error}}

\* The manifests that can be read; those of noIndex cannot.
Covered(noIndex) == {k \in DOMAIN parts : parts[k].indexed} \ noIndex

ScannedNever(noIndex, lost) == {}          \* mutant: manifests only
\* Every part without a readable manifest is scanned; those of lost are unreadable.
Scanned(noIndex, lost) == (DOMAIN parts \ Covered(noIndex)) \ lost

ExistingAll(read, retryErrors) ==          \* mutant: an error is a record, always
  UNION {OkIn(parts[k]) \cup FailedIn(parts[k]) : k \in read}
Existing(read, retryErrors) ==
  UNION {OkIn(parts[k]) \cup (IF retryErrors THEN {} ELSE FailedIn(parts[k])) : k \in read}

\* A run starts: the first one, one that resumes, or, after a complete one, one that
\* retries its errors.
StartRun ==
  /\ run = "idle"
  /\ retry' \in BOOLEAN
  /\ \/ ~marker /\ UNCHANGED restarts
     \/ marker /\ retry' /\ Room /\ restarts < MaxRestarts /\ restarts' = restarts + 1
  /\ \E noIndex \in SUBSET DOMAIN parts :
       \E lost \in SUBSET (DOMAIN parts \ Covered(noIndex)) :
         /\ doubts + Cardinality(lost) <= MaxDoubts
         /\ doubts' = doubts + Cardinality(lost)
         /\ skip' = Existing(Covered(noIndex) \cup Scanned(noIndex, lost), retry')
  /\ run' = "reading" /\ base' = Len(parts)
  /\ UNCHANGED <<storage, failed, pos, seen, flight, buf, demoted, flush, stats, faults>>

Reading == run = "reading" /\ ~failed

SeenNothing(i) == FALSE                    \* mutant: no dedup within the run
Seen(i)        == i \in seen

\* The next row of the input is skipped, dropped as a repeat, or goes into flight.
ReadRow ==
  /\ Reading /\ pos <= Len(Input) /\ pos' = pos + 1
  /\ LET i == Input[pos] IN
       \/ /\ i \in skip
          /\ stats' = [stats EXCEPT !.total = @ + 1, !.prior = @ + 1]
          /\ UNCHANGED <<seen, flight>>
       \/ /\ i \notin skip /\ Seen(i)
          /\ stats' = [stats EXCEPT !.total = @ + 1, !.deduped = @ + 1]
          /\ UNCHANGED <<seen, flight>>
       \/ /\ i \notin skip /\ ~Seen(i)
          /\ stats' = [stats EXCEPT !.total = @ + 1]
          /\ seen' = seen \cup {i} /\ flight' = flight \cup {i}
  /\ UNCHANGED <<storage, run, failed, base, retry, skip, buf, demoted, flush, spent>>

-----------------------------------------------------------------------------
(* ParquetSink.append and flush, in the writer thread.                      *)

\* The batch as it is stored: rows that do not fit the pinned types or each other
\* are error rows, in the buffer too.
Demoted(b, D) == {r \in b : r.id \notin D} \cup {Rec(i, TRUE) : i \in D}

StartFlush(b) ==
  /\ writer' = "part" /\ tries' = 1 /\ landed' = FALSE
  /\ \E D \in SUBSET {i \in Unfit : Rec(i, FALSE) \in b} :
       buf' = Demoted(b, D) /\ demoted' = demoted + Cardinality(D)

\* A row in flight has finished: it is counted and buffered, and a full buffer is flushed.
RowDone(i, e) ==
  /\ Reading /\ writer = "idle" /\ i \in flight /\ (e => i \in Failing)
  /\ flight' = flight \ {i}
  /\ stats' = IF e THEN [stats EXCEPT !.failed = @ + 1]
                   ELSE [stats EXCEPT !.processed = @ + 1]
  /\ LET batch == buf \cup {Rec(i, e)} IN
       \/ Cardinality(batch) >= FlushEvery /\ StartFlush(batch)
       \/ Cardinality(batch) < FlushEvery /\ buf' = batch /\ UNCHANGED <<demoted, flush>>
  /\ UNCHANGED <<storage, run, failed, base, retry, skip, pos, seen, spent>>

\* The oldest buffered row is flush_interval_s old.
QuietFlush ==
  /\ Reading /\ writer = "idle" /\ buf # {} /\ StartFlush(buf)
  /\ UNCHANGED <<storage, run, failed, base, reader, stats, spent>>

PartWritten ==
  /\ writer = "part"
  /\ parts' = Append(parts, [recs |-> buf, indexed |-> FALSE])
  /\ writer' = "index" /\ landed' = FALSE
  /\ UNCHANGED <<marker, run, failed, base, reader, buf, demoted, tries, stats, spent>>

\* An attempt raised.  It is tried again under the same name, until flush raises: the
\* buffer is kept and the run fails.
PartFails ==
  /\ writer = "part"
  /\ Room /\ faults < MaxFaults /\ faults' = faults + 1
  /\ \/ landed' = FALSE /\ UNCHANGED doubts
     \/ landed' = TRUE /\ landed /\ UNCHANGED doubts
     \/ landed' = TRUE /\ ~landed /\ doubts < MaxDoubts /\ doubts' = doubts + 1
  /\ \/ /\ tries < Attempts /\ tries' = tries + 1
        /\ UNCHANGED <<parts, writer, failed>>
     \/ /\ tries = Attempts /\ writer' = "idle" /\ failed' = TRUE
        /\ parts' = IF landed' THEN Append(parts, [recs |-> buf, indexed |-> FALSE]) ELSE parts
        /\ UNCHANGED tries
  /\ UNCHANGED <<marker, run, base, reader, buf, demoted, stats, restarts>>

\* The manifest is second, and the buffer is done with whether or not it could be written.
Indexed(written) ==
  /\ parts' = [parts EXCEPT ![Len(parts)].indexed = written]
  /\ writer' = "idle" /\ buf' = {}
  /\ UNCHANGED <<marker, run, failed, base, reader, demoted, tries, landed, stats>>

ManifestWritten == writer = "index" /\ Indexed(TRUE) /\ UNCHANGED spent

ManifestFails ==
  /\ writer = "index" /\ Room /\ faults < MaxFaults /\ faults' = faults + 1
  /\ Indexed(FALSE) /\ UNCHANGED <<doubts, restarts>>

-----------------------------------------------------------------------------
(* The end of a run: drain, _Writer._finish, _pump.                         *)

\* The input ended and every row has finished.
EndReached ==
  /\ Reading /\ writer = "idle" /\ pos > Len(Input) /\ flight = {} /\ run' = "closing"
  /\ UNCHANGED <<storage, failed, base, reader, buf, demoted, flush, stats, spent>>

\* The run fails or is cancelled: the rows in flight leave no record.
RunFails ==
  /\ Reading /\ Room /\ restarts < MaxRestarts /\ restarts' = restarts + 1
  /\ failed' = TRUE
  /\ UNCHANGED <<storage, run, base, reader, buf, demoted, flush, stats, faults, doubts>>

\* mutant: the end waits for rows to flush, also when there are none
LastFlushWaits ==
  /\ writer = "idle" /\ (run = "closing" \/ (run = "reading" /\ failed))
  /\ IF buf = {} THEN UNCHANGED <<run, buf, demoted, flush>>
                 ELSE run' = "ending" /\ StartFlush(buf)
  /\ UNCHANGED <<storage, failed, base, reader, stats, spent>>

\* The last flush, after a failure too.
LastFlush ==
  /\ writer = "idle" /\ (run = "closing" \/ (run = "reading" /\ failed))
  /\ run' = "ending"
  /\ \/ buf = {} /\ UNCHANGED <<buf, demoted, flush>>
     \/ buf # {} /\ StartFlush(buf)
  /\ UNCHANGED <<storage, failed, base, reader, stats, spent>>


\* What a process that ends leaves of its state.
Forget ==
  /\ run' = "idle" /\ failed' = FALSE /\ base' = 0
  /\ retry' = FALSE /\ skip' = {} /\ pos' = 1 /\ seen' = {} /\ flight' = {}
  /\ buf' = {} /\ demoted' = 0 /\ writer' = "idle" /\ tries' = 0 /\ landed' = FALSE
  /\ stats' = NoStats

CountNone == stats                         \* mutant: demoted rows stay successes
\* _count_demoted
CountDemoted ==
  LET d == IF demoted < stats.processed THEN demoted ELSE stats.processed IN
  [stats EXCEPT !.processed = @ - d, !.failed = @ + d]

\* mutant: a run that failed returns all the same
DrainedQuietly ==
  /\ run = "ending" /\ writer = "idle"
  /\ run' = "returned" /\ stats' = CountDemoted
  /\ UNCHANGED <<storage, failed, base, reader, buf, demoted, flush, spent>>

\* drain returns, or raises the failure and the process is over.
Drained ==
  /\ run = "ending" /\ writer = "idle"
  /\ \/ failed /\ Forget
     \/ ~failed /\ run' = "returned" /\ stats' = CountDemoted
        /\ UNCHANGED <<failed, base, reader, buf, demoted, flush>>
  /\ UNCHANGED <<storage, spent>>

\* RowsLostError, or the marker.
Certify ==
  /\ run = "returned"
  /\ marker' = (marker \/ Unaccounted = 0) /\ Forget
  /\ UNCHANGED <<parts, spent>>

\* The process is killed; a write it was at may have landed.
Crash ==
  /\ run # "idle" /\ Room /\ restarts < MaxRestarts /\ restarts' = restarts + 1
  /\ \/ writer = "idle" /\ UNCHANGED parts
     \/ writer = "part" /\ ~landed /\ UNCHANGED parts
     \/ writer = "part" /\ parts' = Append(parts, [recs |-> buf, indexed |-> FALSE])
     \/ /\ writer = "index"
        /\ \E w \in BOOLEAN : parts' = [parts EXCEPT ![Len(parts)].indexed = w]
  /\ Forget /\ UNCHANGED <<marker, faults, doubts>>

Goes ==
  \/ (StartRun /\ ~marker) \/ ReadRow \/ \E i \in Ids, e \in BOOLEAN : RowDone(i, e)
  \/ PartWritten \/ ManifestWritten \/ EndReached \/ LastFlush \/ Drained \/ Certify

Over == run = "idle" /\ marker /\ UNCHANGED vars

Next == Goes \/ StartRun \/ QuietFlush \/ PartFails \/ ManifestFails \/ RunFails \/ Crash \/ Over

\* Whoever runs the shard runs it again until it is complete; a process that is not
\* killed goes on, and its writes do not fail for ever.
Fairness == WF_vars(Goes)

Spec == Init /\ [][Next]_vars /\ Fairness

-----------------------------------------------------------------------------
(* Properties.                                                              *)

TypeOK ==
  /\ parts \in Seq([recs : SUBSET [id : Ids, error : BOOLEAN], indexed : BOOLEAN])
  /\ marker \in BOOLEAN /\ run \in {"idle", "reading", "closing", "ending", "returned"}
  /\ failed \in BOOLEAN /\ base \in 0..Len(parts)
  /\ retry \in BOOLEAN /\ skip \in SUBSET Ids /\ pos \in 1..(Len(Input) + 1)
  /\ seen \in SUBSET Ids /\ flight \in SUBSET seen
  /\ buf \in SUBSET [id : seen, error : BOOLEAN] /\ demoted \in Nat
  /\ writer \in {"idle", "part", "index"} /\ tries \in 0..Attempts /\ landed \in BOOLEAN
  /\ stats \in [total : Nat, prior : Nat, deduped : Nat, processed : Nat, failed : Nat]
  /\ faults \in 0..MaxFaults /\ doubts \in 0..MaxDoubts /\ restarts \in 0..MaxRestarts

OkIds     == UNION {OkIn(parts[k]) : k \in DOMAIN parts}
StoredIds == OkIds \cup UNION {FailedIn(parts[k]) : k \in DOMAIN parts}

\* "An id returned by existing_ids() implies its record is durable": a row is only
\* skipped for a record that is in a part, and with retry_errors for a result.
SkipDurable == skip \subseteq (IF retry THEN OkIds ELSE StoredIds)

\* "At most one flush of rework": a result is stored twice only for a failed write
\* whose part landed or for an unreadable part, and then at most a part of them;
\* crashes between a part and its manifest cost none.
Results == {x \in (DOMAIN parts) \X Ids : x[2] \in OkIn(parts[x[1]])}
ReworkBounded == Cardinality(Results) - Cardinality(OkIds) <= FlushEvery * doubts

\* No row is lost unnoticed: what is neither skipped, repeated nor handed to the sink
\* is in flight, and a run that returns has nothing left unaccounted.
NoRowUnaccounted ==
  /\ run # "idle" => Unaccounted = Cardinality(flight)
  /\ run = "returned" => flight = {}
\* Of every row a run read it is known where it went, and nothing that was not admitted is in
\* flight or buffered.
Accounted == TypeOK /\ NoRowUnaccounted

\* "Exact final Stats": the results and errors counted are the ones stored by this run.
New == {k \in DOMAIN parts : k > base}
StatsExact == run = "returned" =>
  /\ stats.processed = Cardinality(UNION {OkIn(parts[k]) : k \in New})
  /\ stats.failed = Cardinality(UNION {FailedIn(parts[k]) : k \in New})

\* The output's promise across runs and crashes.
Best(i) == IF i \in OkIds THEN "ok" ELSE IF i \in StoredIds THEN "error" ELSE "none"
Promise == INSTANCE Output WITH
  Asked <- {Input[k] : k \in DOMAIN Input},
  record <- [i \in Ids |-> Best(i)], marked <- marker
KeepsPromise == Promise!Spec

\* The shard completes, whatever fails or is killed a bounded number of times.
ShardCompletes == <>marker
=============================================================================
