-------------------------------- MODULE Ingest --------------------------------
(***************************************************************************)
(* A sharded run over stored objects: bucket_rows of saturate/sources.py   *)
(* lists the objects and selects those of its shard, _fetch reads them     *)
(* ahead (Ahead), and pump() puts one file per row in a directory (Files). *)
(* Several processes work at once, on different shards or, by mistake, on  *)
(* the same one; each may be killed, and its shard is run again.           *)
(***************************************************************************)
EXTENDS Naturals, Sequences, FiniteSets, SequencesExt

CONSTANTS
  Runs, Ids, NoId, Failing, Unsafe, FirstRows,     \* of Files
  Paths,        \* the objects the glob matches, sorted
  IdOf,         \* ids=: path -> id
  ShardOf,      \* shard_of: id -> rank
  World,        \* shard=(rank, World)
  Limit,        \* limit=
  Prefetch,     \* prefetch=
  MaxFaults,    \* bound: reads and writes that fail
  MaxKills,     \* bound: processes killed, and processes started beside another
  Crowded       \* bound: the shards on which a process is started beside another

VARIABLES items, left, pending, current, call, gen, fate, taken           \* Ahead
VARIABLES files, temps, phase, done, seen, flight, accepted, rejected, writing   \* Files
VARIABLES
  rank, complete,     \* the shard a run is of; the shards whose run has returned
  faults, kills       \* spent of the bounds

A == INSTANCE Ahead WITH Its <- Runs, Items <- ToSet(Paths), None <- NoId, Window <- Prefetch,
       PoolSize <- Prefetch, Executor <- "joined", FnRaises <- ToSet(Paths), InputRaises <- FALSE
F == INSTANCE Files

ASSUME IngestAssumption ==
  /\ A!AheadConstants /\ F!FilesConstants
  /\ Limit \in Nat /\ World \in Nat \ {0} /\ Prefetch \in Nat \ {0}
  /\ Paths \in Seq(ToSet(Paths)) /\ IsInjective(Paths)
  /\ IdOf \in [ToSet(Paths) -> Ids] /\ ShardOf \in [Ids -> 0..(World - 1)]
  /\ MaxFaults \in Nat /\ MaxKills \in Nat /\ Crowded \subseteq 0..(World - 1)

aheadVars == <<items, left, pending, current, call, gen, fate, taken>>
fileVars  == <<files, temps, phase, done, seen, flight, accepted, rejected, writing>>
vars == <<aheadVars, fileVars, rank, complete, faults, kills>>

Ranks == 0..(World - 1)

Init == /\ A!Init /\ F!Init
        /\ rank = [r \in Runs |-> 0] /\ complete = {} /\ faults = 0 /\ kills = 0

-----------------------------------------------------------------------------
(* bucket_rows.                                                             *)

\* The objects at the places P, in the order of the listing (the one increasing enumeration of P).
Listed(P) ==
  {[n \in DOMAIN f |-> Paths[f[n]]] :
     f \in {g \in [1..Cardinality(P) -> P] : \A m, n \in DOMAIN g : m < n => g[m] < g[n]}}

\* The places of the shard's objects that are not skipped.
Mine(k, skip) == {j \in DOMAIN Paths : ShardOf[IdOf[Paths[j]]] = k /\ IdOf[Paths[j]] \notin skip}

\* mutant: limit counts what is left to do
SelectedLate(k, skip) ==
  Listed({j \in Mine(k, skip) : Cardinality({i \in Mine(k, skip) : i <= j}) <= Limit})

\* The first Limit objects, then those of the shard, then those not skipped.
Selected(k, skip) == Listed({j \in Mine(k, skip) : j <= Limit})

\* A process starts on a shard no run has finished: beside another one, which is on another
\* shard or by mistake on the same, at most MaxKills times and on a shard of Crowded.  skip=
\* is given, or not.
Start(r, k) ==
  /\ k \notin complete /\ F!Begin(r) /\ rank' = [rank EXCEPT ![r] = k]
  /\ \/ (\A s \in Runs : phase[s] = "idle") /\ UNCHANGED kills
     \/ /\ \E s \in Runs : phase[s] # "idle"
        /\ k \in Crowded /\ kills < MaxKills /\ kills' = kills + 1
  /\ \E skip \in {{}, F!Existing} : \E s \in Selected(k, skip) : A!Open(r, s)
  /\ UNCHANGED <<complete, faults>>

-----------------------------------------------------------------------------
(* The run: reading ahead, the rows, the files.                             *)

Still == UNCHANGED <<rank, complete, faults, kills>>

\* The reader asks for rows as long as the run goes on.
ReadsAhead(r) ==
  /\ gen[r] = "yielded" => phase[r] = "run"
  /\ (A!Prime(r) \/ A!Roll(r) \/ A!Raise(r) \/ A!Exhausted(r) \/ A!Closed(r))
  /\ UNCHANGED fileVars /\ Still

PoolGoes(r) ==
  /\ A!CallStarts(r) \/ A!CallEnds(r, "ok")
  /\ UNCHANGED fileVars /\ Still

\* An object cannot be read.
ReadFails(r) ==
  /\ faults < MaxFaults /\ faults' = faults + 1
  /\ A!CallEnds(r, "error") /\ UNCHANGED <<fileVars, rank, complete, kills>>

\* The next row comes out of the read-ahead; a run that has stopped drops it.
RowRead(r) ==
  /\ A!Yield(r) /\ Still
  /\ \/ F!Row(r, IdOf[current[r]])
     \/ phase[r] = "stopping" /\ UNCHANGED fileVars

RowEnds(r) ==
  /\ \E i \in Ids : F!RowRejected(r, i) \/ F!RowAccepted(r, i)
  /\ UNCHANGED aheadVars /\ Still

RowFails(r) ==
  /\ faults < MaxFaults /\ faults' = faults + 1
  /\ \E i \in Ids : F!RowFails(r, i)
  /\ UNCHANGED <<aheadVars, rank, complete, kills>>

Writes(r) == F!Writes(r) /\ UNCHANGED aheadVars /\ Still

WriteFails(r) ==
  /\ faults < MaxFaults /\ faults' = faults + 1
  /\ F!WriteFails(r) /\ UNCHANGED <<aheadVars, rank, complete, kills>>

\* The run has stopped: the generator is closed where it yielded.
Drops(r) == phase[r] = "stopping" /\ A!Drop(r) /\ UNCHANGED fileVars /\ Still

\* What a process leaves of the read-ahead.
Forgotten(r) ==
  /\ items' = [items EXCEPT ![r] = <<>>] /\ left' = [left EXCEPT ![r] = <<>>]
  /\ pending' = [pending EXCEPT ![r] = <<>>] /\ current' = [current EXCEPT ![r] = NoId]
  /\ call' = [call EXCEPT ![r] = A!Uncalled] /\ taken' = [taken EXCEPT ![r] = <<>>]
  /\ gen' = [gen EXCEPT ![r] = "off"] /\ fate' = [fate EXCEPT ![r] = "none"]
  /\ rank' = [rank EXCEPT ![r] = 0]

\* Nothing of the run is left: it returns, or raises what stopped it.  Rows read before a
\* failed read are finished first.
Returns(r) ==
  /\ gen[r] = "closed" /\ flight[r] = {} /\ writing[r] = NoId
  /\ complete' = IF phase[r] = "run" /\ fate[r] = "end" THEN complete \cup {rank[r]} ELSE complete
  /\ F!Gone(r) /\ Forgotten(r) /\ UNCHANGED <<faults, kills>>

Killed(r) ==
  /\ phase[r] # "idle" /\ kills < MaxKills /\ kills' = kills + 1
  /\ F!Gone(r) /\ Forgotten(r) /\ UNCHANGED <<complete, faults>>

Goes(r) ==
  ReadsAhead(r) \/ PoolGoes(r) \/ RowRead(r) \/ RowEnds(r) \/ Writes(r) \/ Drops(r) \/ Returns(r)

\* Every shard has been run to its end.
Over == complete = Ranks /\ (\A r \in Runs : phase[r] = "idle") /\ UNCHANGED vars

Next ==
  \/ \E r \in Runs : Goes(r) \/ ReadFails(r) \/ RowFails(r) \/ WriteFails(r) \/ Killed(r)
  \/ \E r \in Runs, k \in Ranks : Start(r, k)
  \/ Over

\* A process that is not killed goes on, and somebody runs the shards that are left.
Fairness ==
  /\ \A r \in Runs : WF_vars(Goes(r))
  /\ \A k \in Ranks : SF_vars(\E r \in Runs : Start(r, k))

Spec == Init /\ [][Next]_vars /\ Fairness

-----------------------------------------------------------------------------
(* Properties.                                                              *)

\* Ahead's promises, where each process reads ahead with a pool that is joined (with the types).
OrderKept      == A!TypeOK /\ F!TypeOK /\ A!OrderKept
AheadContained == A!AheadBounded /\ A!NothingLeftBehind

\* Files' promises.
FilesWhole       == F!FilesWhole
FilesKeepPromise == F!FilesKeepPromise

\* "K shards with one limit cover those objects between them, and a re-run with the same
\* limit finishes the same objects": whatever is killed or fails a bounded number of times,
\* each of the first Limit objects has its file in the end, and no other object has one.
Wanted == {IdOf[Paths[k]] : k \in {j \in DOMAIN Paths : j <= Limit}}
FirstObjectsStored ==
  /\ <>(\A i \in Wanted \ (Failing \cup Unsafe) : files[i] = "whole")
  /\ [](\A i \in Ids \ Wanted : files[i] = "none")
=============================================================================
