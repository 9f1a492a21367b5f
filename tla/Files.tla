-------------------------------- MODULE Files --------------------------------
(***************************************************************************)
(* FileSink of saturate/sink.py behind pump(): one file per successful     *)
(* row, named by the row's id.  The file names are the manifest, so a run  *)
(* skips the ids that have a file, and an error leaves nothing.  Several   *)
(* runs may write to one directory at once, and may be killed at any point.*)
(***************************************************************************)
EXTENDS Naturals, FiniteSets

CONSTANTS
  Runs,       \* the processes
  Ids,        \* the ids of rows
  NoId,
  Failing,    \* the ids whose request or parse may fail
  Unsafe,     \* the ids FileSink rejects: no safe file name, or no text
  FirstRows   \* FIRST_ROWS

\* What a module that instantiates this one assumes of the constants.
FilesConstants ==
  /\ NoId \notin Ids /\ Failing \subseteq Ids /\ Unsafe \subseteq Ids /\ FirstRows \in Nat \ {0}

VARIABLES
  files, temps,          \* the directory: the ids' files; the temporary ones, by name
  phase,                 \* what a run is at
  done, seen, flight,    \* skip_done; the rows in flight
  accepted, rejected,    \* the first-rows check
  writing                \* the row the writer thread is at

directory == <<files, temps>>
rows      == <<done, seen, flight>>
check     == <<accepted, rejected>>
vars      == <<directory, phase, rows, check, writing>>

\* A temporary name is the run's own (a uuid).
TempName(r, i) == <<r, i>>
TempNames == Runs \X Ids

Init ==
  /\ files = [i \in Ids |-> "none"] /\ temps = [n \in TempNames |-> "none"]
  /\ phase = [r \in Runs |-> "idle"]
  /\ done = [r \in Runs |-> {}] /\ seen = [r \in Runs |-> {}] /\ flight = [r \in Runs |-> {}]
  /\ accepted = [r \in Runs |-> FALSE] /\ rejected = [r \in Runs |-> 0]
  /\ writing = [r \in Runs |-> NoId]

\* existing_ids: temporary names end in .tmp and match no file of the output.
Existing == {i \in Ids : files[i] # "none"}

Free(r) == phase[r] = "run" /\ writing[r] = NoId

\* begin_run, and the ids skip_done skips.
Begin(r) ==
  /\ phase[r] = "idle" /\ phase' = [phase EXCEPT ![r] = "run"]
  /\ done' = [done EXCEPT ![r] = Existing]
  /\ seen' = [seen EXCEPT ![r] = {}] /\ flight' = [flight EXCEPT ![r] = {}]
  /\ accepted' = [accepted EXCEPT ![r] = FALSE] /\ rejected' = [rejected EXCEPT ![r] = 0]
  /\ UNCHANGED <<directory, writing>>

\* A row of the input: skipped, a repeat, or in flight from now on.
Row(r, i) ==
  /\ phase[r] = "run"
  /\ LET new == {i} \ (done[r] \cup seen[r]) IN
       /\ seen' = [seen EXCEPT ![r] = @ \cup new]
       /\ flight' = [flight EXCEPT ![r] = @ \cup new]
  /\ UNCHANGED <<directory, phase, done, check, writing>>

\* The request or parse failed: append leaves no record.
RowFails(r, i) ==
  /\ Free(r) /\ i \in flight[r] \cap Failing
  /\ flight' = [flight EXCEPT ![r] = @ \ {i}]
  /\ UNCHANGED <<directory, phase, done, seen, check, writing>>

Misconfigured(r) == ~accepted[r] /\ rejected[r] + 1 >= FirstRows

\* What the run has in flight is thrown away.
Stops(r) == phase' = [phase EXCEPT ![r] = "stopping"] /\ flight' = [flight EXCEPT ![r] = {}]

\* probe rejects the result: an error row, which leaves no record either, or, when nothing
\* but rejected rows came so far, the end of the run.
RowRejected(r, i) ==
  /\ Free(r) /\ i \in flight[r] \cap Unsafe
  /\ rejected' = [rejected EXCEPT ![r] = IF @ < FirstRows THEN @ + 1 ELSE @]
  /\ \/ Misconfigured(r) /\ Stops(r)
     \/ ~Misconfigured(r) /\ flight' = [flight EXCEPT ![r] = @ \ {i}] /\ UNCHANGED phase
  /\ UNCHANGED <<directory, done, seen, accepted, writing>>

\* mutant: the file is opened under its own name
RowWrittenInPlace(r, i) ==
  /\ Free(r) /\ i \in flight[r] \ Unsafe
  /\ flight' = [flight EXCEPT ![r] = @ \ {i}]
  /\ accepted' = [accepted EXCEPT ![r] = TRUE] /\ writing' = [writing EXCEPT ![r] = i]
  /\ temps' = [temps EXCEPT ![TempName(r, i)] = "partial"]
  /\ files' = [files EXCEPT ![i] = "partial"]
  /\ UNCHANGED <<phase, done, seen, rejected>>

\* probe accepts it, and its temporary file is opened.
RowAccepted(r, i) ==
  /\ Free(r) /\ i \in flight[r] \ Unsafe
  /\ flight' = [flight EXCEPT ![r] = @ \ {i}]
  /\ accepted' = [accepted EXCEPT ![r] = TRUE] /\ writing' = [writing EXCEPT ![r] = i]
  /\ temps' = [temps EXCEPT ![TempName(r, i)] = "partial"]
  /\ UNCHANGED <<files, phase, done, seen, rejected>>

Text(r) ==
  /\ writing[r] # NoId /\ temps[TempName(r, writing[r])] = "partial"
  /\ temps' = [temps EXCEPT ![TempName(r, writing[r])] = "whole"]
  /\ UNCHANGED <<files, phase, rows, check, writing>>

\* The disk is full: append raises, which ends the run; the temporary file stays.
WriteFails(r) ==
  /\ writing[r] # NoId /\ temps[TempName(r, writing[r])] = "partial"
  /\ Stops(r) /\ writing' = [writing EXCEPT ![r] = NoId]
  /\ UNCHANGED <<directory, done, seen, check>>

\* os.replace: the last one of several writers wins.
Replace(r) ==
  /\ writing[r] # NoId /\ temps[TempName(r, writing[r])] = "whole"
  /\ files' = [files EXCEPT ![writing[r]] = temps[TempName(r, writing[r])]]
  /\ temps' = [temps EXCEPT ![TempName(r, writing[r])] = "none"]
  /\ writing' = [writing EXCEPT ![r] = NoId]
  /\ UNCHANGED <<phase, rows, check>>

\* The process is over; what it wrote stays.
Gone(r) ==
  /\ phase' = [phase EXCEPT ![r] = "idle"] /\ writing' = [writing EXCEPT ![r] = NoId]
  /\ flight' = [flight EXCEPT ![r] = {}] /\ seen' = [seen EXCEPT ![r] = {}]
  /\ done' = [done EXCEPT ![r] = {}]
  /\ accepted' = [accepted EXCEPT ![r] = FALSE] /\ rejected' = [rejected EXCEPT ![r] = 0]
  /\ UNCHANGED directory

Writes(r) == Text(r) \/ Replace(r)
-----------------------------------------------------------------------------
(* Properties.                                                              *)

FileStates == {"none", "partial", "whole"}

TypeOK ==
  /\ files \in [Ids -> FileStates] /\ temps \in [TempNames -> FileStates]
  /\ phase \in [Runs -> {"idle", "run", "stopping"}]
  /\ done \in [Runs -> SUBSET Ids] /\ seen \in [Runs -> SUBSET Ids]
  /\ flight \in [Runs -> SUBSET Ids] /\ accepted \in [Runs -> BOOLEAN]
  /\ rejected \in [Runs -> 0..FirstRows] /\ writing \in [Runs -> Ids \cup {NoId}]

\* "No truncated files on crash", "both files complete": a file that has a row's name is
\* whole whoever writes that row at the same time and whenever a writer is killed, so an
\* id that is skipped has its result.
FilesWhole == \A i \in Ids :
  /\ files[i] # "partial"
  /\ (\E r \in Runs : i \in done[r]) => files[i] = "whole"

\* A file per result keeps the output's promise: an id that has its result keeps it.
Promise == INSTANCE Output WITH
  Asked <- {}, marked <- FALSE,
  record <- [i \in Ids |-> IF files[i] = "whole" THEN "ok" ELSE "none"]
FilesKeepPromise == Promise!Spec
=============================================================================
