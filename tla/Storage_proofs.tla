---------------------------- MODULE Storage_proofs ----------------------------
(***************************************************************************)
(* Theorems about Storage, for every input, buffer size and number of      *)
(* faults.  The invariant SInv adds to the properties what a process that  *)
(* does not run has forgotten, and where the rows read so far are: stored, *)
(* in flight or buffered.  With it every step of the storage is a step of  *)
(* Output, or none.                                                        *)
(* Three more invariants use it: Batches (no batch is larger than a flush, *)
(* and a row has one record), Counted (what a run counted is in its parts  *)
(* or its buffer) and Doubled (what is stored twice, and still may be).    *)
(***************************************************************************)
EXTENDS Storage, FiniteSetTheorems, SequenceTheorems, TLAPS

BufIds == {r.id : r \in buf}

\* Where a row that was read can be.
Held == StoredIds \cup flight \cup BufIds

\* No process: nothing is left of the last one.
Forgotten == run = "idle" =>
  /\ ~failed /\ stats = NoStats /\ flight = {} /\ buf = {} /\ pos = 1
  /\ writer = "idle" /\ skip = {} /\ seen = {}

\* The writer is at a manifest: the part before it holds the buffer.
AtManifest == writer = "index" => Len(parts) > 0 /\ parts[Len(parts)].recs = buf

\* Every row read so far is stored, in flight or buffered, as long as the run goes well;
\* a run that ends well has read them all and has them all buffered or stored.
RowsHeld == ~failed =>
  /\ seen \subseteq Held
  /\ \A k \in DOMAIN Input : k < pos => Input[k] \in Held
RowsWritten == ~failed =>
  /\ run \in {"closing", "ending", "returned"} => pos > Len(Input) /\ flight = {}
  /\ run \in {"ending", "returned"} /\ writer = "idle" => buf = {}

WriterWaits == run \in {"closing", "returned"} => writer = "idle" /\ ~failed

SInv == /\ TypeOK /\ SkipDurable /\ NoRowUnaccounted
        /\ Forgotten /\ AtManifest /\ RowsHeld /\ RowsWritten /\ WriterWaits

-----------------------------------------------------------------------------
(* Parts are only added, and their records never change.                    *)

PartType == [recs : SUBSET [id : Ids, error : BOOLEAN], indexed : BOOLEAN]

Grows == /\ Len(parts) <= Len(parts')
         /\ \A k \in DOMAIN parts : k \in DOMAIN parts' /\ parts'[k].recs = parts[k].recs

LEMMA StoredIdsAre ==
  /\ \A i : i \in OkIds <=> \E k \in DOMAIN parts : \E r \in parts[k].recs : r.id = i /\ ~r.error
  /\ \A i : i \in StoredIds <=> \E k \in DOMAIN parts : \E r \in parts[k].recs : r.id = i
<1>1. \A i : i \in OkIds <=> \E k \in DOMAIN parts : \E r \in parts[k].recs : r.id = i /\ ~r.error
  BY DEF OkIds, OkIn
<1>2. \A i : i \in StoredIds <=> \E k \in DOMAIN parts : \E r \in parts[k].recs : r.id = i
  BY <1>1 DEF StoredIds, FailedIn
<1>3. QED
  BY <1>1, <1>2

LEMMA GrowsKeeps ==
  ASSUME Grows
  PROVE  OkIds \subseteq OkIds' /\ StoredIds \subseteq StoredIds'
<1>1. ASSUME NEW i \in OkIds PROVE i \in OkIds'
  BY <1>1 DEF OkIds, OkIn, Grows
<1>2. ASSUME NEW i \in StoredIds PROVE i \in StoredIds'
  BY <1>2 DEF StoredIds, OkIds, OkIn, FailedIn, Grows
<1>3. QED
  BY <1>1, <1>2

LEMMA SameGrows ==
  ASSUME TypeOK, UNCHANGED parts
  PROVE  parts' \in Seq(PartType) /\ Grows
BY DEF TypeOK, Grows, PartType

\* The buffer becomes the last part.
LEMMA AppendGrows ==
  ASSUME TypeOK, parts' = Append(parts, [recs |-> buf, indexed |-> FALSE])
  PROVE  /\ parts' \in Seq(PartType) /\ Grows
         /\ Len(parts') = Len(parts) + 1 /\ parts'[Len(parts')].recs = buf
         /\ BufIds \subseteq StoredIds'
<1> DEFINE p == [recs |-> buf, indexed |-> FALSE]
<1>1. p \in PartType /\ p.recs = buf
  BY DEF TypeOK, PartType
<1>2. parts \in Seq(PartType)
  BY DEF TypeOK, PartType
<1>3. /\ parts' \in Seq(PartType) /\ Len(parts') = Len(parts) + 1
      /\ parts'[Len(parts) + 1] = p
      /\ \A k \in 1..Len(parts) : parts'[k] = parts[k]
  BY <1>1, <1>2, AppendProperties
<1>4. Grows
  BY <1>2, <1>3 DEF Grows
<1>5. ASSUME NEW r \in buf PROVE r.id \in StoredIds'
  <2>1. Len(parts') \in DOMAIN parts' /\ r \in parts'[Len(parts')].recs
    BY <1>1, <1>2, <1>3
  <2>2. QED
    BY <2>1 DEF StoredIds, OkIds, OkIn, FailedIn
<1>6. QED
  BY <1>1, <1>3, <1>4, <1>5 DEF BufIds

\* The manifest of the last part is written, or not.
LEMMA IndexGrows ==
  ASSUME TypeOK, Len(parts) > 0, NEW w \in BOOLEAN,
         parts' = [parts EXCEPT ![Len(parts)].indexed = w]
  PROVE  parts' \in Seq(PartType) /\ Grows /\ Len(parts') = Len(parts)
<1>1. parts \in Seq(PartType)
  BY DEF TypeOK, PartType
<1>2. parts[Len(parts)] \in PartType
  BY <1>1
<1>3. [parts[Len(parts)] EXCEPT !.indexed = w] \in PartType
  BY <1>2 DEF PartType
<1>4. parts' = [parts EXCEPT ![Len(parts)] = [parts[Len(parts)] EXCEPT !.indexed = w]]
  OBVIOUS
<1>5. parts' \in Seq(PartType) /\ Len(parts') = Len(parts)
  BY <1>1, <1>3, <1>4, ExceptSeq
<1>6. \A k \in 1..Len(parts) : parts'[k].recs = parts[k].recs
  BY <1>1, <1>2, <1>4 DEF PartType
<1>7. QED
  BY <1>1, <1>5, <1>6 DEF Grows

StatsType == [total : Nat, prior : Nat, deduped : Nat, processed : Nat, failed : Nat]

LEMMA InputType == Len(Input) \in Nat /\ DOMAIN Input = 1..Len(Input) /\ \A k \in DOMAIN Input : Input[k] \in Ids
BY StorageAssumption

LEMMA InitInv ==
  ASSUME Init
  PROVE  SInv
<1>1. TypeOK
  <2>1. parts \in Seq(PartType) /\ Len(parts) = 0
    BY DEF Init
  <2>2. base \in 0..Len(parts) /\ pos \in 1..(Len(Input) + 1) /\ tries \in 0..Attempts
    BY <2>1, InputType, StorageAssumption DEF Init
  <2>3. faults \in 0..MaxFaults /\ doubts \in 0..MaxDoubts /\ restarts \in 0..MaxRestarts
    BY StorageAssumption DEF Init
  <2>4. stats \in StatsType
    BY DEF Init, NoStats, StatsType
  <2>5. QED
    BY <2>1, <2>2, <2>3, <2>4 DEF Init, TypeOK, PartType, StatsType
<1>2. SkipDurable /\ Forgotten /\ AtManifest /\ WriterWaits /\ NoRowUnaccounted
  BY DEF Init, SkipDurable, Forgotten, AtManifest, WriterWaits, NoRowUnaccounted
<1>3. RowsHeld /\ RowsWritten
  BY InputType DEF Init, RowsHeld, RowsWritten
<1>4. QED
  BY <1>1, <1>2, <1>3 DEF SInv

-----------------------------------------------------------------------------
(* Each action preserves SInv.                                              *)

\* What a process that ends leaves behind satisfies the invariant.
LEMMA ForgetInv ==
  ASSUME SInv, Forget, Grows, parts' \in Seq(PartType), marker' \in BOOLEAN,
         faults' \in 0..MaxFaults, doubts' \in 0..MaxDoubts, restarts' \in 0..MaxRestarts
  PROVE  SInv'
<1>1. TypeOK'
  <2>1. base' \in 0..Len(parts') /\ pos' \in 1..(Len(Input) + 1) /\ tries' \in 0..Attempts
    BY InputType, StorageAssumption DEF Forget
  <2>2. stats' \in StatsType
    BY DEF Forget, NoStats, StatsType
  <2>3. QED
    BY <2>1, <2>2 DEF Forget, TypeOK, PartType, StatsType
<1>2. SkipDurable' /\ Forgotten' /\ AtManifest' /\ WriterWaits' /\ NoRowUnaccounted'
  BY DEF Forget, SkipDurable, Forgotten, AtManifest, WriterWaits, NoRowUnaccounted
<1>3. RowsHeld' /\ RowsWritten'
  BY InputType DEF Forget, RowsHeld, RowsWritten
<1>4. QED
  BY <1>1, <1>2, <1>3 DEF SInv

\* A flush takes the whole batch into the buffer, as results or as error rows.
LEMMA FlushBatch ==
  ASSUME TypeOK, NEW b \in SUBSET [id : seen', error : BOOLEAN], StartFlush(b)
  PROVE  /\ writer' = "part" /\ tries' = 1 /\ landed' = FALSE
         /\ buf' \in SUBSET [id : seen', error : BOOLEAN] /\ demoted' \in Nat
         /\ BufIds' = {r.id : r \in b}
<1>1. PICK D \in SUBSET {i \in Unfit : Rec(i, FALSE) \in b} :
        buf' = Demoted(b, D) /\ demoted' = demoted + Cardinality(D)
  BY DEF StartFlush
<1>2. D \in SUBSET Ids /\ Cardinality(D) \in Nat
  BY <1>1, StorageAssumption, FS_Subset, FS_CardinalityType
<1>3. \A i \in D : i \in seen' /\ \E r \in b : r.id = i
  BY DEF Rec
<1>4. buf' \in SUBSET [id : seen', error : BOOLEAN]
  <2>1. \A i \in D : Rec(i, TRUE) \in [id : seen', error : BOOLEAN]
    BY <1>3 DEF Rec
  <2>2. QED
    BY <1>1, <2>1 DEF Demoted
<1>5. ASSUME NEW i \in {r.id : r \in b} PROVE i \in {r.id : r \in Demoted(b, D)}
  <2>1. CASE i \in D
    <3>1. Rec(i, TRUE) \in Demoted(b, D) /\ Rec(i, TRUE).id = i
      BY <2>1 DEF Demoted, Rec
    <3>2. QED
      BY <3>1
  <2>2. CASE i \notin D
    BY <2>2, <1>5 DEF Demoted
  <2>3. QED
    BY <2>1, <2>2
<1>6. ASSUME NEW r \in Demoted(b, D) PROVE r.id \in {x.id : x \in b}
  BY <1>3 DEF Demoted, Rec
<1>7. writer' = "part" /\ tries' = 1 /\ landed' = FALSE
  BY DEF StartFlush
<1>8. demoted' \in Nat
  BY <1>1, <1>2 DEF TypeOK
<1>9. {r.id : r \in Demoted(b, D)} = {r.id : r \in b}
  BY <1>5, <1>6
<1>10. BufIds' = {r.id : r \in b}
  BY <1>1, <1>9 DEF BufIds
<1>11. QED
  BY <1>4, <1>7, <1>8, <1>10

LEMMA StartRunInv ==
  ASSUME SInv, StartRun
  PROVE  SInv'
<1>0. PICK noIndex \in SUBSET DOMAIN parts :
        \E lost \in SUBSET (DOMAIN parts \ Covered(noIndex)) :
          /\ doubts + Cardinality(lost) <= MaxDoubts
          /\ doubts' = doubts + Cardinality(lost)
          /\ skip' = Existing(Covered(noIndex) \cup Scanned(noIndex, lost), retry')
  BY DEF StartRun
<1>1. PICK lost \in SUBSET (DOMAIN parts \ Covered(noIndex)) :
        /\ doubts + Cardinality(lost) <= MaxDoubts
        /\ doubts' = doubts + Cardinality(lost)
        /\ skip' = Existing(Covered(noIndex) \cup Scanned(noIndex, lost), retry')
  BY <1>0
<1> DEFINE read == Covered(noIndex) \cup Scanned(noIndex, lost)
<1>2. parts \in Seq(PartType) /\ Len(parts) \in Nat /\ DOMAIN parts = 1..Len(parts)
  BY DEF SInv, TypeOK, PartType
<1>3. Cardinality(lost) \in Nat
  <2>1. IsFiniteSet(DOMAIN parts) /\ lost \subseteq DOMAIN parts
    BY <1>2, FS_Interval
  <2>2. QED
    BY <2>1, FS_Subset, FS_CardinalityType
<1>4. read \subseteq DOMAIN parts
  BY DEF Covered, Scanned
<1>5. skip' \subseteq (IF retry' THEN OkIds ELSE StoredIds)
  <2>1. CASE retry'
    BY <2>1, <1>1, <1>4 DEF Existing, OkIds
  <2>2. CASE ~retry'
    BY <2>2, <1>1, <1>4 DEF Existing, OkIds, StoredIds
  <2>3. QED
    BY <2>1, <2>2
<1>6. StoredIds \subseteq Ids /\ OkIds \subseteq Ids
  <2>1. \A k \in DOMAIN parts : \A r \in parts[k].recs : r.id \in Ids
    <3>1. \A k \in DOMAIN parts : parts[k] \in PartType
      BY <1>2
    <3>2. QED
      BY <3>1 DEF PartType
  <2>2. QED
    BY <2>1, StoredIdsAre DEF StoredIds
<1>7. UNCHANGED <<parts, marker, failed, pos, seen, flight, buf, demoted, writer, tries, landed,
                  stats, faults>>
      /\ run = "idle" /\ run' = "reading" /\ base' = Len(parts) /\ retry' \in BOOLEAN
  BY DEF StartRun, storage, flush
<1>8. TypeOK'
  <2>1. doubts' \in 0..MaxDoubts
    BY <1>1, <1>3 DEF SInv, TypeOK
  <2>2. restarts' \in 0..MaxRestarts
    <3>1. restarts \in 0..MaxRestarts /\ MaxRestarts \in Nat
      BY StorageAssumption DEF SInv, TypeOK
    <3>2. restarts' = restarts \/ (restarts < MaxRestarts /\ restarts' = restarts + 1)
      BY DEF StartRun
    <3>3. QED
      BY <3>1, <3>2
  <2>3. skip' \in SUBSET Ids /\ base' \in 0..Len(parts')
    BY <1>2, <1>5, <1>6, <1>7
  <2>4. QED
    BY <1>7, <2>1, <2>2, <2>3 DEF SInv, TypeOK
<1>9. SkipDurable'
  BY <1>5, <1>7 DEF SkipDurable, OkIds, StoredIds
<1>10. NoRowUnaccounted'
  <2>1. Unaccounted' = 0 /\ flight' = {}
    BY <1>7 DEF SInv, Forgotten, Unaccounted, NoStats
  <2>2. QED
    BY <2>1, <1>7, FS_EmptySet DEF NoRowUnaccounted
<1>11. Forgotten' /\ AtManifest' /\ WriterWaits'
  BY <1>7 DEF SInv, Forgotten, AtManifest, WriterWaits
<1>12. RowsHeld' /\ RowsWritten'
  BY <1>7, InputType DEF SInv, Forgotten, RowsHeld, RowsWritten
<1>13. QED
  BY <1>8, <1>9, <1>10, <1>11, <1>12 DEF SInv

LEMMA ReadRowInv ==
  ASSUME SInv, ReadRow
  PROVE  SInv'
<1> DEFINE i == Input[pos]
<1>1. /\ pos \in 1..Len(Input) /\ pos' = pos + 1 /\ i \in Ids
      /\ run = "reading" /\ ~failed
      /\ UNCHANGED <<parts, marker, run, failed, base, retry, skip, buf, demoted,
                     writer, tries, landed, faults, doubts, restarts>>
  BY InputType DEF SInv, TypeOK, ReadRow, Reading, storage, flush, spent
<1>2. /\ OkIds' = OkIds /\ StoredIds' = StoredIds /\ BufIds' = BufIds
      /\ seen \subseteq seen' /\ flight \subseteq flight'
      /\ seen' \subseteq seen \cup {i} /\ seen' \subseteq Ids
  <2>1. OkIds' = OkIds /\ StoredIds' = StoredIds /\ BufIds' = BufIds
    BY <1>1 DEF OkIds, StoredIds, BufIds
  <2>2. seen \in SUBSET Ids
    BY DEF SInv, TypeOK
  <2>3. \/ UNCHANGED <<seen, flight>>
        \/ seen' = seen \cup {i} /\ flight' = flight \cup {i}
    BY DEF ReadRow
  <2>4. seen \subseteq seen' /\ flight \subseteq flight' /\ seen' \subseteq seen \cup {i}
    BY <2>3
  <2>5. seen' \subseteq Ids
    BY <1>1, <2>2, <2>4
  <2>6. QED
    BY <2>1, <2>4, <2>5
<1>3. i \in Held'
  <2>1. CASE i \in skip
    BY <2>1, <1>2 DEF SInv, SkipDurable, StoredIds, Held
  <2>2. CASE i \in seen
    BY <2>2, <1>1, <1>2 DEF SInv, RowsHeld, Held
  <2>3. CASE i \notin skip /\ i \notin seen
    BY <2>3 DEF ReadRow, Seen, Held
  <2>4. QED
    BY <2>1, <2>2, <2>3
<1>4. /\ flight' \subseteq seen'
      /\ stats' \in StatsType
      /\ Unaccounted' = Cardinality(flight')
  <2>1. /\ Unaccounted = Cardinality(flight) /\ IsFiniteSet(flight)
        /\ stats \in StatsType /\ flight \subseteq seen
    BY <1>1, StorageAssumption, FS_Subset DEF SInv, NoRowUnaccounted, TypeOK, StatsType
  <2>2. CASE i \in skip /\ stats' = [stats EXCEPT !.total = @ + 1, !.prior = @ + 1]
             /\ UNCHANGED <<seen, flight>>
    <3>1. stats' \in StatsType /\ Unaccounted' = Unaccounted
      <4>1. stats' = [total |-> stats.total + 1, prior |-> stats.prior + 1, deduped |-> stats.deduped,
                     processed |-> stats.processed, failed |-> stats.failed]
        BY <2>1, <2>2 DEF StatsType
      <4>2. QED
        BY <2>1, <4>1 DEF StatsType, Unaccounted
    <3>2. flight' = flight /\ seen' = seen
      BY <2>2
    <3>3. QED
      BY <2>1, <3>1, <3>2 DEF StatsType
  <2>3. CASE i \notin skip /\ stats' = [stats EXCEPT !.total = @ + 1, !.deduped = @ + 1]
             /\ UNCHANGED <<seen, flight>>
    <3>1. stats' \in StatsType /\ Unaccounted' = Unaccounted
      <4>1. stats' = [total |-> stats.total + 1, prior |-> stats.prior, deduped |-> stats.deduped + 1,
                     processed |-> stats.processed, failed |-> stats.failed]
        BY <2>1, <2>3 DEF StatsType
      <4>2. QED
        BY <2>1, <4>1 DEF StatsType, Unaccounted
    <3>2. flight' = flight /\ seen' = seen
      BY <2>3
    <3>3. QED
      BY <2>1, <3>1, <3>2 DEF StatsType
  <2>4. CASE i \notin seen /\ stats' = [stats EXCEPT !.total = @ + 1]
             /\ seen' = seen \cup {i} /\ flight' = flight \cup {i}
    <3>1. Cardinality(flight') = Cardinality(flight) + 1
      BY <2>1, <2>4, FS_AddElement
    <3>2. QED
      BY <2>1, <2>4, <3>1 DEF StatsType, Unaccounted
  <2>5. QED
    BY <2>2, <2>3, <2>4 DEF ReadRow, Seen
<1>5. TypeOK'
  <2>1. buf' \in SUBSET [id : seen', error : BOOLEAN]
    BY <1>1, <1>2 DEF SInv, TypeOK
  <2>2. pos' \in 1..(Len(Input) + 1)
    BY <1>1, InputType
  <2>3. QED
    BY <1>1, <1>2, <1>4, <2>1, <2>2 DEF SInv, TypeOK, StatsType
<1>6. SkipDurable' /\ NoRowUnaccounted' /\ Forgotten' /\ AtManifest' /\ WriterWaits' /\ RowsWritten'
  BY <1>1, <1>2, <1>4
  DEF SInv, SkipDurable, NoRowUnaccounted, Forgotten, AtManifest, WriterWaits, RowsWritten
<1>7. RowsHeld'
  <2>1. Held \subseteq Held'
    BY <1>2 DEF Held
  <2>2. seen' \subseteq Held'
    BY <1>1, <1>2, <1>3, <2>1 DEF SInv, RowsHeld
  <2>3. ASSUME NEW k \in DOMAIN Input, k < pos' PROVE Input[k] \in Held'
    BY <1>1, <1>3, <2>1, <2>3, InputType DEF SInv, RowsHeld
  <2>4. QED
    BY <2>2, <2>3 DEF RowsHeld
<1>8. QED
  BY <1>5, <1>6, <1>7 DEF SInv

LEMMA RowDoneInv ==
  ASSUME SInv, NEW i \in Ids, NEW e \in BOOLEAN, RowDone(i, e)
  PROVE  SInv'
<1> DEFINE batch == buf \cup {Rec(i, e)}
<1>1. /\ run = "reading" /\ ~failed /\ writer = "idle" /\ i \in flight /\ flight' = flight \ {i}
      /\ UNCHANGED <<parts, marker, run, failed, base, retry, skip, pos, seen,
                     faults, doubts, restarts>>
      /\ stats' = IF e THEN [stats EXCEPT !.failed = @ + 1] ELSE [stats EXCEPT !.processed = @ + 1]
  BY DEF RowDone, Reading, storage, spent
<1>2. OkIds' = OkIds /\ StoredIds' = StoredIds
  BY <1>1 DEF OkIds, StoredIds
<1>3. batch \in SUBSET [id : seen', error : BOOLEAN]
  BY <1>1 DEF SInv, TypeOK, Rec
<1>4. {r.id : r \in batch} = BufIds \cup {i}
  <2>1. Rec(i, e).id = i
    BY DEF Rec
  <2>2. QED
    BY <2>1 DEF BufIds
<1>5. /\ buf' \in SUBSET [id : seen', error : BOOLEAN] /\ demoted' \in Nat
      /\ writer' \in {"idle", "part"} /\ tries' \in 0..Attempts /\ landed' \in BOOLEAN
      /\ BufIds' = BufIds \cup {i}
  <2>1. CASE StartFlush(batch)
    <3>1. 1 \in 0..Attempts /\ landed \in BOOLEAN
      BY StorageAssumption DEF SInv, TypeOK
    <3>2. QED
      BY <2>1, <3>1, <1>3, <1>4, FlushBatch DEF SInv
  <2>2. CASE buf' = batch /\ UNCHANGED <<demoted, flush>>
    BY <2>2, <1>1, <1>3, <1>4 DEF SInv, TypeOK, flush, BufIds
  <2>3. QED
    BY <2>1, <2>2 DEF RowDone
<1>6. /\ stats' \in StatsType
      /\ Unaccounted' = Unaccounted - 1
  <2>1. stats \in StatsType
    BY DEF SInv, TypeOK, StatsType
  <2>2. CASE e
    BY <1>1, <2>1, <2>2 DEF StatsType, Unaccounted
  <2>3. CASE ~e
    BY <1>1, <2>1, <2>3 DEF StatsType, Unaccounted
  <2>4. QED
    BY <2>2, <2>3
<1>7. Unaccounted' = Cardinality(flight')
  <2>1. Unaccounted = Cardinality(flight) /\ IsFiniteSet(flight)
    BY <1>1, StorageAssumption, FS_Subset DEF SInv, NoRowUnaccounted, TypeOK
  <2>2. Cardinality(flight') = Cardinality(flight) - 1
    BY <1>1, <2>1, FS_RemoveElement
  <2>3. QED
    BY <1>6, <2>1, <2>2
<1>8. TypeOK'
  BY <1>1, <1>5, <1>6 DEF SInv, TypeOK, StatsType
<1>9. Held \subseteq Held'
  BY <1>1, <1>2, <1>5 DEF Held
<1>10. SkipDurable' /\ NoRowUnaccounted' /\ Forgotten' /\ AtManifest' /\ WriterWaits' /\ RowsWritten'
  BY <1>1, <1>2, <1>5, <1>7
  DEF SInv, SkipDurable, NoRowUnaccounted, Forgotten, AtManifest, WriterWaits, RowsWritten
<1>11. RowsHeld'
  BY <1>1, <1>9 DEF SInv, RowsHeld
<1>12. QED
  BY <1>8, <1>10, <1>11 DEF SInv

\* A flush of what is buffered, while rows are read or after the last one.
LEMMA BufferFlushInv ==
  ASSUME SInv, run \in {"reading", "closing"}, writer = "idle", StartFlush(buf),
         run' \in {run, "ending"}, run' = "ending" => run = "closing" \/ failed,
         run = "closing" => run' = "ending",
         UNCHANGED <<storage, failed, base, reader, stats, spent>>
  PROVE  SInv'
<1>1. UNCHANGED <<parts, marker, failed, base, retry, skip, pos, seen, flight, stats,
                  faults, doubts, restarts>>
  BY DEF storage, reader, spent
<1>2. OkIds' = OkIds /\ StoredIds' = StoredIds
  BY <1>1 DEF OkIds, StoredIds
<1>3. /\ buf' \in SUBSET [id : seen', error : BOOLEAN] /\ demoted' \in Nat
      /\ writer' = "part" /\ tries' = 1 /\ landed' = FALSE
      /\ BufIds' = BufIds
  BY <1>1, FlushBatch DEF SInv, TypeOK, BufIds
<1>4. TypeOK'
  <2>1. tries' \in 0..Attempts
    BY <1>3, StorageAssumption
  <2>2. QED
    BY <1>1, <1>3, <2>1 DEF SInv, TypeOK
<1>5. Held' = Held
  BY <1>1, <1>2, <1>3 DEF Held
<1>6. SkipDurable' /\ Forgotten' /\ AtManifest' /\ WriterWaits'
  BY <1>1, <1>2, <1>3 DEF SInv, SkipDurable, Forgotten, AtManifest, WriterWaits
<1>7. NoRowUnaccounted'
  BY <1>1 DEF SInv, NoRowUnaccounted, Unaccounted
<1>8. RowsHeld'
  BY <1>1, <1>5 DEF SInv, RowsHeld
<1>9. RowsWritten'
  BY <1>1, <1>3 DEF SInv, RowsWritten
<1>10. QED
  BY <1>4, <1>6, <1>7, <1>8, <1>9 DEF SInv

LEMMA QuietFlushInv ==
  ASSUME SInv, QuietFlush
  PROVE  SInv'
<1>1. /\ run = "reading" /\ run' = run /\ ~failed /\ writer = "idle" /\ StartFlush(buf)
      /\ UNCHANGED <<storage, failed, base, reader, stats, spent>>
  BY DEF QuietFlush, Reading
<1>2. QED
  BY <1>1, BufferFlushInv

LEMMA LastFlushInv ==
  ASSUME SInv, LastFlush
  PROVE  SInv'
<1>1. /\ run \in {"reading", "closing"} /\ run' = "ending" /\ writer = "idle"
      /\ run = "closing" \/ failed
      /\ UNCHANGED <<storage, failed, base, reader, stats, spent>>
  BY DEF LastFlush
<1>2. CASE StartFlush(buf)
  BY <1>1, <1>2, BufferFlushInv
<1>3. CASE buf = {} /\ UNCHANGED <<buf, demoted, flush>>
  <2>1. UNCHANGED <<parts, marker, failed, base, retry, skip, pos, seen, flight, buf, demoted,
                    writer, tries, landed, stats, faults, doubts, restarts>>
    BY <1>1, <1>3 DEF storage, reader, flush, spent
  <2>2. Held' = Held /\ OkIds' = OkIds /\ StoredIds' = StoredIds
    BY <2>1 DEF Held, OkIds, StoredIds, BufIds
  <2>3. TypeOK'
    BY <1>1, <2>1 DEF SInv, TypeOK
  <2>4. SkipDurable' /\ Forgotten' /\ AtManifest' /\ WriterWaits'
    BY <1>1, <2>1, <2>2 DEF SInv, SkipDurable, Forgotten, AtManifest, WriterWaits
  <2>5. NoRowUnaccounted' /\ RowsHeld' /\ RowsWritten'
    BY <1>1, <1>3, <2>1, <2>2 DEF SInv, NoRowUnaccounted, Unaccounted, RowsHeld, RowsWritten
  <2>6. QED
    BY <2>3, <2>4, <2>5 DEF SInv
<1>4. QED
  BY <1>2, <1>3 DEF LastFlush

LEMMA EndReachedInv ==
  ASSUME SInv, EndReached
  PROVE  SInv'
<1>1. /\ run = "reading" /\ ~failed /\ run' = "closing" /\ writer = "idle"
      /\ pos > Len(Input) /\ flight = {}
      /\ UNCHANGED <<parts, marker, failed, base, retry, skip, pos, seen, flight, buf, demoted,
                     writer, tries, landed, stats, faults, doubts, restarts>>
  BY DEF EndReached, Reading, storage, reader, flush, spent
<1>2. Held' = Held /\ OkIds' = OkIds /\ StoredIds' = StoredIds
  BY <1>1 DEF Held, OkIds, StoredIds, BufIds
<1>3. TypeOK'
  BY <1>1 DEF SInv, TypeOK
<1>4. SkipDurable' /\ Forgotten' /\ AtManifest' /\ WriterWaits'
  BY <1>1, <1>2 DEF SInv, SkipDurable, Forgotten, AtManifest, WriterWaits
<1>5. NoRowUnaccounted' /\ RowsHeld' /\ RowsWritten'
  BY <1>1, <1>2 DEF SInv, NoRowUnaccounted, Unaccounted, RowsHeld, RowsWritten
<1>6. QED
  BY <1>3, <1>4, <1>5 DEF SInv

LEMMA RunFailsInv ==
  ASSUME SInv, RunFails
  PROVE  SInv'
<1>1. /\ run = "reading" /\ ~failed /\ failed'
      /\ restarts < MaxRestarts /\ restarts' = restarts + 1 /\ failed' = TRUE
      /\ UNCHANGED <<parts, marker, run, base, retry, skip, pos, seen, flight, buf, demoted,
                     writer, tries, landed, stats, faults, doubts>>
  BY DEF RunFails, Reading, storage, reader, flush
<1>2. Held' = Held /\ OkIds' = OkIds /\ StoredIds' = StoredIds
  BY <1>1 DEF Held, OkIds, StoredIds, BufIds
<1>3. TypeOK'
  <2>1. restarts' \in 0..MaxRestarts
    BY <1>1, StorageAssumption DEF SInv, TypeOK
  <2>2. QED
    BY <1>1, <2>1 DEF SInv, TypeOK
<1>4. SkipDurable' /\ Forgotten' /\ AtManifest' /\ WriterWaits'
  BY <1>1, <1>2 DEF SInv, SkipDurable, Forgotten, AtManifest, WriterWaits
<1>5. NoRowUnaccounted' /\ RowsHeld' /\ RowsWritten'
  BY <1>1, <1>2 DEF SInv, NoRowUnaccounted, Unaccounted, RowsHeld, RowsWritten
<1>6. QED
  BY <1>3, <1>4, <1>5 DEF SInv

\* What every step of a flush shares: parts grow, and no row read is lost.
LEMMA WriterStep ==
  ASSUME SInv, Grows, parts' \in Seq(PartType), writer \in {"part", "index"},
         UNCHANGED <<marker, run, base, reader, demoted, stats, restarts>>,
         faults' \in 0..MaxFaults, doubts' \in 0..MaxDoubts, tries' \in 0..Attempts,
         landed' \in BOOLEAN, writer' \in {"idle", "part", "index"}, failed' \in BOOLEAN,
         buf' \subseteq buf, BufIds \subseteq BufIds' \cup StoredIds', AtManifest',
         ~failed' => ~failed /\ (writer' = "idle" => buf' = {})
  PROVE  SInv'
<1>1. UNCHANGED <<marker, run, base, retry, skip, pos, seen, flight, demoted, stats, restarts>>
  BY DEF reader
<1>2. OkIds \subseteq OkIds' /\ StoredIds \subseteq StoredIds'
  BY GrowsKeeps
<1>3. run \in {"reading", "ending"}
  BY DEF SInv, TypeOK, Forgotten, WriterWaits
<1>4. TypeOK'
  <2>1. base' \in 0..Len(parts')
    <3>1. base \in 0..Len(parts) /\ Len(parts) \in Nat /\ Len(parts') \in Nat
      BY DEF SInv, TypeOK
    <3>2. QED
      BY <1>1, <3>1 DEF Grows
  <2>2. buf' \in SUBSET [id : seen', error : BOOLEAN]
    BY <1>1 DEF SInv, TypeOK
  <2>3. QED
    BY <1>1, <2>1, <2>2 DEF SInv, TypeOK, PartType
<1>5. SkipDurable'
  BY <1>1, <1>2 DEF SInv, SkipDurable
<1>6. NoRowUnaccounted' /\ Forgotten' /\ WriterWaits'
  BY <1>1, <1>3 DEF SInv, NoRowUnaccounted, Unaccounted, Forgotten, WriterWaits
<1>7. RowsHeld'
  <2>1. Held \subseteq Held'
    BY <1>1, <1>2 DEF Held
  <2>2. QED
    BY <1>1, <2>1 DEF SInv, RowsHeld
<1>8. RowsWritten'
  BY <1>1, <1>3 DEF SInv, RowsWritten
<1>9. QED
  BY <1>4, <1>5, <1>6, <1>7, <1>8 DEF SInv

LEMMA PartWrittenInv ==
  ASSUME SInv, PartWritten
  PROVE  SInv'
<1>1. /\ writer = "part" /\ writer' = "index" /\ landed' = FALSE
      /\ parts' = Append(parts, [recs |-> buf, indexed |-> FALSE])
      /\ UNCHANGED <<marker, run, failed, base, reader, buf, demoted, tries, stats,
                     faults, doubts, restarts>>
  BY DEF PartWritten, spent
<1>2. /\ parts' \in Seq(PartType) /\ Grows /\ BufIds \subseteq StoredIds'
      /\ Len(parts') = Len(parts) + 1 /\ parts'[Len(parts')].recs = buf /\ Len(parts) \in Nat
  BY <1>1, AppendGrows DEF SInv, TypeOK
<1>3. AtManifest'
  BY <1>1, <1>2 DEF AtManifest
<1>4. faults' \in 0..MaxFaults /\ doubts' \in 0..MaxDoubts /\ tries' \in 0..Attempts
  BY <1>1 DEF SInv, TypeOK
<1>5. failed' \in BOOLEAN
  BY <1>1 DEF SInv, TypeOK
<1>6. QED
  BY <1>1, <1>2, <1>3, <1>4, <1>5, WriterStep

LEMMA PartFailsInv ==
  ASSUME SInv, PartFails
  PROVE  SInv'
<1>1. /\ writer = "part" /\ faults < MaxFaults /\ faults' = faults + 1
      /\ UNCHANGED <<marker, run, base, reader, buf, demoted, stats, restarts>>
      /\ landed' \in BOOLEAN
      /\ doubts' = doubts \/ (doubts < MaxDoubts /\ doubts' = doubts + 1)
  BY DEF PartFails
<1>2. /\ faults \in 0..MaxFaults /\ doubts \in 0..MaxDoubts /\ tries \in 0..Attempts
      /\ MaxFaults \in Nat /\ MaxDoubts \in Nat /\ Attempts \in Nat /\ failed \in BOOLEAN
  BY StorageAssumption DEF SInv, TypeOK
<1>3. faults' \in 0..MaxFaults /\ doubts' \in 0..MaxDoubts
  BY <1>1, <1>2
<1>4. BufIds' = BufIds
  BY <1>1 DEF BufIds
<1>5. CASE tries < Attempts /\ tries' = tries + 1 /\ UNCHANGED <<parts, writer, failed>>
  <2>1. tries' \in 0..Attempts
    BY <1>2, <1>5
  <2>2. parts' \in Seq(PartType) /\ Grows
    BY <1>5, SameGrows DEF SInv
  <2>3. AtManifest'
    BY <1>1, <1>5 DEF AtManifest
  <2>4. QED
    BY <1>1, <1>2, <1>3, <1>4, <1>5, <2>1, <2>2, <2>3, WriterStep
<1>6. CASE /\ writer' = "idle" /\ failed' = TRUE /\ UNCHANGED tries
           /\ parts' = IF landed' THEN Append(parts, [recs |-> buf, indexed |-> FALSE]) ELSE parts
  <2>1. parts' \in Seq(PartType) /\ Grows
    <3>1. CASE landed'
      BY <1>6, <3>1, AppendGrows DEF SInv
    <3>2. CASE ~landed'
      BY <1>6, <3>2, SameGrows DEF SInv
    <3>3. QED
      BY <3>1, <3>2
  <2>2. AtManifest'
    BY <1>6 DEF AtManifest
  <2>3. QED
    BY <1>1, <1>2, <1>3, <1>4, <1>6, <2>1, <2>2, WriterStep
<1>7. QED
  BY <1>5, <1>6 DEF PartFails

LEMMA ManifestInv ==
  ASSUME SInv, ManifestWritten \/ ManifestFails
  PROVE  SInv'
<1>1. PICK w \in BOOLEAN : Indexed(w)
  BY DEF ManifestWritten, ManifestFails
<1>2. /\ writer = "index" /\ writer' = "idle" /\ buf' = {}
      /\ parts' = [parts EXCEPT ![Len(parts)].indexed = w]
      /\ UNCHANGED <<marker, run, failed, base, reader, demoted, tries, landed, stats, doubts, restarts>>
      /\ faults' = faults \/ (faults < MaxFaults /\ faults' = faults + 1)
  BY <1>1 DEF ManifestWritten, ManifestFails, Indexed, spent
<1>3. /\ faults \in 0..MaxFaults /\ doubts \in 0..MaxDoubts /\ tries \in 0..Attempts
      /\ MaxFaults \in Nat /\ landed \in BOOLEAN /\ failed \in BOOLEAN
  BY StorageAssumption DEF SInv, TypeOK
<1>4. faults' \in 0..MaxFaults
  BY <1>2, <1>3
<1>5. Len(parts) > 0 /\ parts[Len(parts)].recs = buf /\ Len(parts) \in DOMAIN parts
  BY <1>2 DEF SInv, AtManifest, TypeOK
<1>6. parts' \in Seq(PartType) /\ Grows
  BY <1>2, <1>5, IndexGrows DEF SInv
<1>7. BufIds \subseteq StoredIds'
  <2>1. BufIds \subseteq StoredIds
    BY <1>5, StoredIdsAre DEF BufIds
  <2>2. QED
    BY <2>1, <1>6, GrowsKeeps
<1>8. AtManifest'
  BY <1>2 DEF AtManifest
<1>9. QED
  BY <1>2, <1>3, <1>4, <1>6, <1>7, <1>8, WriterStep

LEMMA DrainedInv ==
  ASSUME SInv, Drained
  PROVE  SInv'
<1>1. /\ run = "ending" /\ writer = "idle"
      /\ UNCHANGED <<parts, marker, faults, doubts, restarts>>
  BY DEF Drained, storage, spent
<1>2. parts' \in Seq(PartType) /\ Grows
  BY <1>1, SameGrows DEF SInv
<1>3. CASE Forget
  BY <1>1, <1>2, <1>3, ForgetInv DEF SInv, TypeOK
<1>4. CASE ~failed /\ run' = "returned" /\ stats' = CountDemoted
           /\ UNCHANGED <<failed, base, reader, buf, demoted, flush>>
  <2>1. UNCHANGED <<failed, base, retry, skip, pos, seen, flight, buf, demoted, writer, tries, landed>>
    BY <1>4 DEF reader, flush
  <2>2. Held' = Held /\ OkIds' = OkIds /\ StoredIds' = StoredIds
    BY <1>1, <2>1 DEF Held, OkIds, StoredIds, BufIds
  <2>3. stats \in StatsType /\ demoted \in Nat
    BY DEF SInv, TypeOK, StatsType
  <2>4. stats' \in StatsType /\ Unaccounted' = Unaccounted
    <3> DEFINE d == IF demoted < stats.processed THEN demoted ELSE stats.processed
    <3>1. stats' = [stats EXCEPT !.processed = @ - d, !.failed = @ + d]
      BY <1>4 DEF CountDemoted
    <3>2. d \in Nat /\ d <= stats.processed
      BY <2>3 DEF StatsType
    <3> HIDE DEF d
    <3>3. stats' = [total |-> stats.total, prior |-> stats.prior, deduped |-> stats.deduped,
                    processed |-> stats.processed - d, failed |-> stats.failed + d]
      BY <2>3, <3>1 DEF StatsType
    <3>4. QED
      BY <2>3, <3>2, <3>3 DEF StatsType, Unaccounted
  <2>5. TypeOK'
    BY <1>1, <1>4, <2>1, <2>4 DEF SInv, TypeOK, StatsType
  <2>6. SkipDurable' /\ Forgotten' /\ AtManifest' /\ WriterWaits'
    BY <1>1, <1>4, <2>1, <2>2 DEF SInv, SkipDurable, Forgotten, AtManifest, WriterWaits
  <2>7. flight = {}
    BY <1>1, <1>4 DEF SInv, RowsWritten
  <2>8. NoRowUnaccounted' /\ RowsHeld' /\ RowsWritten'
    BY <1>1, <1>4, <2>1, <2>2, <2>4, <2>7 DEF SInv, NoRowUnaccounted, RowsHeld, RowsWritten
  <2>9. QED
    BY <2>5, <2>6, <2>8 DEF SInv
<1>5. QED
  BY <1>3, <1>4 DEF Drained

LEMMA CertifyInv ==
  ASSUME SInv, Certify
  PROVE  SInv'
<1>1. Forget /\ UNCHANGED <<parts, faults, doubts, restarts>> /\ marker' \in BOOLEAN
  BY DEF Certify, spent, SInv, TypeOK
<1>2. parts' \in Seq(PartType) /\ Grows
  BY <1>1, SameGrows DEF SInv
<1>3. QED
  BY <1>1, <1>2, ForgetInv DEF SInv, TypeOK

LEMMA CrashInv ==
  ASSUME SInv, Crash
  PROVE  SInv' /\ Grows
<1>1. /\ Forget /\ UNCHANGED <<marker, faults, doubts>>
      /\ restarts < MaxRestarts /\ restarts' = restarts + 1
  BY DEF Crash
<1>2. restarts' \in 0..MaxRestarts
  BY <1>1, StorageAssumption DEF SInv, TypeOK
<1>3. parts' \in Seq(PartType) /\ Grows
  <2>1. CASE UNCHANGED parts
    BY <2>1, SameGrows DEF SInv
  <2>2. CASE parts' = Append(parts, [recs |-> buf, indexed |-> FALSE])
    BY <2>2, AppendGrows DEF SInv
  <2>3. CASE writer = "index" /\ \E w \in BOOLEAN : parts' = [parts EXCEPT ![Len(parts)].indexed = w]
    BY <2>3, IndexGrows DEF SInv, AtManifest
  <2>4. QED
    BY <2>1, <2>2, <2>3 DEF Crash
<1>4. QED
  BY <1>1, <1>2, <1>3, ForgetInv DEF SInv, TypeOK

LEMMA StutterInv ==
  ASSUME SInv, UNCHANGED vars
  PROVE  SInv'
<1>1. UNCHANGED <<parts, marker, run, failed, base, retry, skip, pos, seen, flight, buf, demoted,
                  writer, tries, landed, stats, faults, doubts, restarts>>
  BY DEF vars, storage, reader, flush, spent
<1>2. Held' = Held /\ OkIds' = OkIds /\ StoredIds' = StoredIds
  BY <1>1 DEF Held, OkIds, StoredIds, BufIds
<1>3. TypeOK'
  BY <1>1 DEF SInv, TypeOK
<1>4. SkipDurable' /\ Forgotten' /\ AtManifest' /\ WriterWaits'
  BY <1>1, <1>2 DEF SInv, SkipDurable, Forgotten, AtManifest, WriterWaits
<1>5. NoRowUnaccounted' /\ RowsHeld' /\ RowsWritten'
  BY <1>1, <1>2 DEF SInv, NoRowUnaccounted, Unaccounted, RowsHeld, RowsWritten
<1>6. QED
  BY <1>3, <1>4, <1>5 DEF SInv

LEMMA NextInv ==
  ASSUME SInv, [Next]_vars
  PROVE  SInv'
BY StartRunInv, ReadRowInv, RowDoneInv, PartWrittenInv, ManifestInv, EndReachedInv, LastFlushInv,
   DrainedInv, CertifyInv, QuietFlushInv, PartFailsInv, RunFailsInv, CrashInv, StutterInv
DEF Next, Goes, Over

LEMMA AlwaysSInv == Spec => []SInv
BY InitInv, NextInv, PTL DEF Spec

-----------------------------------------------------------------------------
(* The theorems.                                                            *)

\* The variables keep their types and the bounds, for every input and buffer size.
THEOREM StorageTypes == Spec => []TypeOK
BY AlwaysSInv, PTL DEF SInv

\* "An id returned by existing_ids() implies its record is durable": a row is only skipped
\* for a record in a part, in a run with retry_errors for a result.
THEOREM SkipsOnlyDurable == Spec => []SkipDurable
BY AlwaysSInv, PTL DEF SInv

\* rows_unaccounted is the number of rows in flight, and zero when a run returns: what
\* RowsLostError and the marker go by.
THEOREM NothingUnaccounted == Spec => []NoRowUnaccounted
BY AlwaysSInv, PTL DEF SInv

LEMMA BestIs ==
  ASSUME NEW i
  PROVE  /\ Best(i) \in {"none", "error", "ok"}
         /\ Best(i) = "ok" <=> i \in OkIds
         /\ Best(i) # "none" <=> i \in StoredIds
BY DEF Best, StoredIds

\* The storage only grows, whatever the step.
LEMMA EveryStepGrows ==
  ASSUME SInv, [Next]_vars
  PROVE  Grows
<1>1. CASE UNCHANGED parts
  BY <1>1, SameGrows DEF SInv
<1>2. CASE PartWritten \/ PartFails
  BY <1>1, <1>2, AppendGrows DEF PartWritten, PartFails, SInv
<1>3. CASE ManifestWritten \/ ManifestFails
  <2>1. PICK w \in BOOLEAN : writer = "index" /\ Indexed(w)
    BY <1>3 DEF ManifestWritten, ManifestFails
  <2>2. QED
    BY <2>1, IndexGrows DEF Indexed, SInv, AtManifest
<1>4. CASE Crash
  BY <1>4, CrashInv
<1>5. QED
  BY <1>1, <1>2, <1>3, <1>4
  DEF Next, Goes, StartRun, ReadRow, RowDone, QuietFlush, EndReached, RunFails, LastFlush,
      Drained, Certify, Over, vars, storage

\* Only Certify writes the marker, and then every id of the input has a record.
LEMMA MarkedLast ==
  ASSUME SInv, [Next]_vars, marker' # marker
  PROVE  /\ marker' = TRUE /\ UNCHANGED parts
         /\ \A k \in DOMAIN Input : Input[k] \in StoredIds
<1>1. Certify
  BY DEF Next, Goes, StartRun, ReadRow, RowDone, QuietFlush, EndReached, RunFails, LastFlush, Crash,
         Drained, Over, vars, storage, PartWritten, PartFails, ManifestWritten, ManifestFails, Indexed
<1>2. run = "returned" /\ UNCHANGED parts /\ marker' = TRUE
  BY <1>1 DEF Certify, SInv, TypeOK
<1>3. ~failed /\ writer = "idle"
  BY <1>2 DEF SInv, WriterWaits
<1>4. pos > Len(Input) /\ flight = {} /\ buf = {}
  BY <1>2, <1>3 DEF SInv, RowsWritten
<1>5. ASSUME NEW k \in DOMAIN Input PROVE Input[k] \in StoredIds
  <2>1. k < pos
    BY <1>4, InputType DEF SInv, TypeOK
  <2>2. Input[k] \in Held
    BY <1>3, <2>1 DEF SInv, RowsHeld
  <2>3. QED
    BY <1>4, <2>2 DEF Held, BufIds
<1>6. QED
  BY <1>2, <1>5

\* The storage keeps the output's promise: no record ever gets worse, over runs, retries,
\* failing writes and crashes, and the marker is only written when every id has a record.
THEOREM StorageKeepsPromise == Spec => KeepsPromise
<1>1. Init => Promise!Init
  <2>1. ASSUME Init PROVE Promise!Init
    <3>1. StoredIds = {} /\ OkIds = {}
      BY <2>1, StoredIdsAre DEF Init
    <3>2. QED
      BY <2>1, <3>1 DEF Init, Promise!Init, Best
  <2>2. QED
    BY <2>1
<1>2. SInv /\ [Next]_vars => [Promise!Next]_<<[i \in Ids |-> Best(i)], marker>>
  <2>1. SUFFICES ASSUME SInv, [Next]_vars
                 PROVE  [Promise!Next]_<<[i \in Ids |-> Best(i)], marker>>
    OBVIOUS
  <2>2. OkIds \subseteq OkIds' /\ StoredIds \subseteq StoredIds'
    BY <2>1, EveryStepGrows, GrowsKeeps
  <2>3. CASE marker' = marker
    <3>1. [i \in Ids |-> Best(i)]' \in [Ids -> Promise!Kinds]
      BY BestIs DEF Promise!Kinds, Best
    <3>2. ASSUME NEW i \in Ids
          PROVE  Promise!Rank([j \in Ids |-> Best(j)][i]) <= Promise!Rank([j \in Ids |-> Best(j)]'[i])
      BY <2>2 DEF Promise!Rank, Best
    <3>3. Promise!Store
      BY <2>3, <3>1, <3>2 DEF Promise!Store
    <3>4. QED
      BY <3>3 DEF Promise!Next
  <2>4. CASE marker' # marker
    <3>1. /\ marker' = TRUE /\ UNCHANGED parts
          /\ \A k \in DOMAIN Input : Input[k] \in StoredIds
      BY <2>1, <2>4, MarkedLast
    <3>2. \A i \in Ids : Best(i)' = Best(i)
      BY <3>1 DEF Best, OkIds, StoredIds
    <3>3. \A k \in DOMAIN Input : [i \in Ids |-> Best(i)][Input[k]] # "none"
      BY <3>1, InputType DEF Best
    <3>4. Promise!Mark
      BY <3>1, <3>2, <3>3 DEF Promise!Mark
    <3>5. QED
      BY <3>4 DEF Promise!Next
  <2>5. QED
    BY <2>3, <2>4
<1>3. QED
  BY <1>1, <1>2, AlwaysSInv, PTL DEF Spec, KeepsPromise, Promise!Spec

\* The types and the accounting of the rows together, as the run checks them.
THEOREM AccountedAlways == Spec => []Accounted
BY AlwaysSInv, PTL DEF SInv, Accounted

-----------------------------------------------------------------------------
(* What is in the buffer and in the parts, counted.                         *)

IdsOf(b)    == {r.id : r \in b}
ResultsOf(b) == {r.id : r \in {x \in b : ~x.error}}
ErrorsOf(b) == {r.id : r \in {x \in b : x.error}}

OneRecord(b) == \A r, s \in b : r.id = s.id => r = s

\* A row in flight has no record yet, a row in the buffer has one, and no batch is larger
\* than a flush.
Batches ==
  /\ flight \cap BufIds = {} /\ OneRecord(buf)
  /\ Cardinality(BufIds) <= FlushEvery
  /\ Reading /\ writer = "idle" => Cardinality(BufIds) < FlushEvery
  /\ \A k \in DOMAIN parts : Cardinality(OkIn(parts[k])) <= FlushEvery

\* The last part, or its manifest, is all that a step writes.
AddsPart  == writer = "part" /\ parts' = Append(parts, [recs |-> buf, indexed |-> FALSE])
KeepsRecs == Len(parts') = Len(parts) /\ \A k \in DOMAIN parts : parts'[k].recs = parts[k].recs

LEMMA FiniteIds ==
  ASSUME NEW S \in SUBSET Ids
  PROVE  IsFiniteSet(S) /\ Cardinality(S) \in Nat
BY StorageAssumption, FS_Subset, FS_CardinalityType

LEMMA SmallerIds ==
  ASSUME NEW S \in SUBSET Ids, NEW T \in SUBSET S
  PROVE  Cardinality(T) <= Cardinality(S)
BY FiniteIds, FS_Subset

LEMMA DisjointIds ==
  ASSUME NEW S \in SUBSET Ids, NEW T \in SUBSET Ids, S \cap T = {}
  PROVE  Cardinality(S \cup T) = Cardinality(S) + Cardinality(T)
<1>1. IsFiniteSet(S) /\ IsFiniteSet(T) /\ Cardinality(S) \in Nat /\ Cardinality(T) \in Nat
  BY FiniteIds
<1>2. Cardinality(S \cup T) = Cardinality(S) + Cardinality(T) - Cardinality(S \cap T)
  BY <1>1, FS_Union
<1>3. Cardinality(S \cap T) = 0
  BY FS_EmptySet
<1>4. QED
  BY <1>1, <1>2, <1>3

LEMMA WithoutIds ==
  ASSUME NEW S \in SUBSET Ids, NEW T \in SUBSET S
  PROVE  Cardinality(S \ T) = Cardinality(S) - Cardinality(T)
<1>1. S = (S \ T) \cup T /\ (S \ T) \cap T = {} /\ S \ T \in SUBSET Ids /\ T \in SUBSET Ids
  OBVIOUS
<1>2. Cardinality(S) = Cardinality(S \ T) + Cardinality(T)
  BY <1>1, DisjointIds
<1>3. QED
  BY <1>1, <1>2, FiniteIds

\* As many ids as records.
LEMMA IdsOfBatch ==
  ASSUME NEW b \in SUBSET [id : Ids, error : BOOLEAN], OneRecord(b)
  PROVE  IsFiniteSet(b) /\ Cardinality(b) = Cardinality(IdsOf(b))
<1> DEFINE f == [i \in IdsOf(b) |-> CHOOSE r \in b : r.id = i]
<1>1. \A i \in IdsOf(b) : f[i] \in b /\ f[i].id = i
  BY DEF IdsOf
<1>2. \A r \in b : r.id \in IdsOf(b) /\ f[r.id] = r
  BY <1>1 DEF OneRecord, IdsOf
<1>3. f \in Bijection(IdsOf(b), b)
  <2>1. f \in [IdsOf(b) -> b]
    BY <1>1
  <2>2. f \in Injection(IdsOf(b), b)
    BY <1>1, <2>1 DEF Injection, IsInjective
  <2>3. f \in Surjection(IdsOf(b), b)
    BY <1>2, <2>1 DEF Surjection
  <2>4. QED
    BY <2>2, <2>3 DEF Bijection
<1>4. IsFiniteSet(IdsOf(b))
  <2>1. IdsOf(b) \in SUBSET Ids
    BY DEF IdsOf
  <2>2. QED
    BY <2>1, FiniteIds
<1>5. ExistsBijection(IdsOf(b), b)
  BY <1>3 DEF ExistsBijection
<1>6. QED
  BY <1>4, <1>5, FS_Bijection

LEMMA BufferIds ==
  ASSUME TypeOK
  PROVE  /\ BufIds = IdsOf(buf) /\ BufIds \subseteq seen /\ seen \subseteq Ids
         /\ buf \in SUBSET [id : Ids, error : BOOLEAN]
         /\ ResultsOf(buf) \subseteq BufIds /\ ErrorsOf(buf) \subseteq BufIds
         /\ BufIds = ResultsOf(buf) \cup ErrorsOf(buf)
BY DEF TypeOK, BufIds, IdsOf, ResultsOf, ErrorsOf

LEMMA KeptRecs ==
  ASSUME TypeOK, KeepsRecs, parts' \in Seq(PartType)
  PROVE  /\ DOMAIN parts' = DOMAIN parts
         /\ \A k \in DOMAIN parts : OkIn(parts'[k]) = OkIn(parts[k])
                                    /\ FailedIn(parts'[k]) = FailedIn(parts[k])
         /\ OkIds' = OkIds
<1>1. DOMAIN parts' = DOMAIN parts
  BY DEF TypeOK, KeepsRecs
<1>2. \A k \in DOMAIN parts : OkIn(parts'[k]) = OkIn(parts[k])
                              /\ FailedIn(parts'[k]) = FailedIn(parts[k])
  BY DEF KeepsRecs, OkIn, FailedIn
<1>3. QED
  BY <1>1, <1>2 DEF OkIds

LEMMA AddedPart ==
  ASSUME TypeOK, AddsPart
  PROVE  /\ Len(parts) \in Nat /\ DOMAIN parts = 1..Len(parts)
         /\ DOMAIN parts' = 1..(Len(parts) + 1) /\ Len(parts') = Len(parts) + 1
         /\ \A k \in DOMAIN parts : parts'[k] = parts[k]
         /\ OkIn(parts'[Len(parts) + 1]) = ResultsOf(buf)
         /\ FailedIn(parts'[Len(parts) + 1]) = ErrorsOf(buf)
<1> DEFINE p == [recs |-> buf, indexed |-> FALSE]
<1>1. p \in PartType /\ p.recs = buf /\ parts \in Seq(PartType)
  BY DEF TypeOK, PartType
<1>2. /\ parts' \in Seq(PartType) /\ Len(parts') = Len(parts) + 1
      /\ parts'[Len(parts) + 1] = p
      /\ \A k \in 1..Len(parts) : parts'[k] = parts[k]
  BY <1>1, AppendProperties DEF AddsPart
<1>3. OkIn(p) = ResultsOf(buf) /\ FailedIn(p) = ErrorsOf(buf)
  BY <1>1 DEF OkIn, FailedIn, ResultsOf, ErrorsOf
<1>4. QED
  BY <1>1, <1>2, <1>3

\* Every step writes a part from the buffer, or changes no record.
LEMMA PartsStep ==
  ASSUME SInv, [Next]_vars
  PROVE  AddsPart \/ KeepsRecs
<1>1. CASE UNCHANGED parts
  BY <1>1 DEF KeepsRecs
<1>2. CASE writer = "index" /\ \E w \in BOOLEAN : parts' = [parts EXCEPT ![Len(parts)].indexed = w]
  <2>1. Len(parts) > 0
    BY <1>2 DEF SInv, AtManifest
  <2>2. Grows /\ Len(parts') = Len(parts)
    BY <1>2, <2>1, IndexGrows DEF SInv
  <2>3. QED
    BY <2>2 DEF Grows, KeepsRecs
<1>3. QED
  BY <1>1, <1>2
  DEF Next, Goes, StartRun, ReadRow, RowDone, QuietFlush, EndReached, RunFails, LastFlush, Drained,
      Certify, Over, vars, storage, PartWritten, PartFails, ManifestWritten, ManifestFails, Indexed,
      Crash, AddsPart

\* A flush turns some results into error rows, and keeps one record for each row.
LEMMA FlushRecords ==
  ASSUME SInv, NEW b \in SUBSET [id : Ids, error : BOOLEAN], OneRecord(b), StartFlush(b)
  PROVE  \E D \in SUBSET ResultsOf(b) :
           /\ demoted' = demoted + Cardinality(D) /\ OneRecord(buf')
           /\ ResultsOf(buf') = ResultsOf(b) \ D /\ ErrorsOf(buf') = ErrorsOf(b) \cup D
<1>1. PICK D \in SUBSET {i \in Unfit : Rec(i, FALSE) \in b} :
        buf' = Demoted(b, D) /\ demoted' = demoted + Cardinality(D)
  BY DEF StartFlush
<1>2. D \in SUBSET ResultsOf(b)
  <2>1. \A i : Rec(i, FALSE).id = i /\ ~Rec(i, FALSE).error
    BY DEF Rec
  <2>2. \A i \in D : Rec(i, FALSE) \in b
    BY <1>1
  <2>3. QED
    BY <2>1, <2>2 DEF ResultsOf
<1>3. OneRecord(buf')
  <2>1. \A r \in buf' : (r.id \notin D /\ r \in b) \/ (r.id \in D /\ r = Rec(r.id, TRUE))
    BY <1>1 DEF Demoted, Rec
  <2>2. QED
    BY <2>1 DEF OneRecord
<1>4. ResultsOf(buf') = ResultsOf(b) \ D
  BY <1>1 DEF ResultsOf, Demoted, Rec
<1>5. ErrorsOf(buf') = ErrorsOf(b) \cup D
  <2>1. \A i \in D : Rec(i, TRUE) \in buf' /\ Rec(i, TRUE).id = i /\ Rec(i, TRUE).error
    BY <1>1 DEF Demoted, Rec
  <2>2. \A r \in b : r.error => r.id \in D \/ r \in buf'
    BY <1>1 DEF Demoted
  <2>3. \A r \in buf' : r.error => r.id \in D \/ r \in b
    BY <1>1 DEF Demoted, Rec
  <2>4. QED
    BY <2>1, <2>2, <2>3 DEF ErrorsOf
<1>6. QED
  BY <1>1, <1>2, <1>3, <1>4, <1>5

LEMMA PartSizesStep ==
  ASSUME SInv, Batches, [Next]_vars
  PROVE  \A k \in DOMAIN parts' : Cardinality(OkIn(parts'[k])) <= FlushEvery
<1>1. TypeOK /\ parts' \in Seq(PartType)
  <2>1. SInv'
    BY NextInv
  <2>2. QED
    BY <2>1 DEF SInv, TypeOK, PartType
<1>2. CASE AddsPart
  <2>1. ResultsOf(buf) \subseteq BufIds /\ BufIds \in SUBSET Ids
    BY <1>1, BufferIds
  <2>2. Cardinality(ResultsOf(buf)) <= FlushEvery
    BY <2>1, SmallerIds, FiniteIds, StorageAssumption DEF Batches
  <2>3. QED
    BY <1>1, <1>2, <2>2, AddedPart DEF Batches
<1>3. CASE KeepsRecs
  BY <1>1, <1>3, KeptRecs DEF Batches
<1>4. QED
  BY <1>2, <1>3, PartsStep

LEMMA BatchesStep ==
  ASSUME SInv, Batches, [Next]_vars
  PROVE  Batches'
<1>1. TypeOK /\ TypeOK' /\ \A k \in DOMAIN parts' : Cardinality(OkIn(parts'[k])) <= FlushEvery
  BY NextInv, PartSizesStep DEF SInv
<1>2. /\ BufIds = IdsOf(buf) /\ BufIds \subseteq seen /\ BufIds \in SUBSET Ids
      /\ buf \in SUBSET [id : Ids, error : BOOLEAN] /\ seen \subseteq Ids
      /\ FlushEvery \in Nat \ {0}
  BY <1>1, BufferIds, StorageAssumption
<1>3. ASSUME buf' = {} PROVE Batches'
  <2>1. BufIds' = {} /\ Cardinality({}) = 0
    BY <1>3, FS_EmptySet DEF BufIds
  <2>2. QED
    BY <1>1, <1>2, <1>3, <2>1 DEF Batches, OneRecord
<1>4. ASSUME UNCHANGED buf, flight' \cap BufIds = {}, Reading' /\ writer' = "idle" => Reading /\ writer = "idle"
      PROVE  Batches'
  <2>1. BufIds' = BufIds
    BY <1>4 DEF BufIds
  <2>2. QED
    BY <1>1, <1>4, <2>1 DEF Batches
<1>5. CASE StartRun \/ ManifestWritten \/ ManifestFails \/ Certify \/ Crash \/ (Drained /\ Forget)
  <2>1. buf' = {}
    BY <1>5 DEF StartRun, ManifestWritten, ManifestFails, Indexed, Certify, Crash, Forget, SInv, Forgotten
  <2>2. QED
    BY <1>3, <2>1
<1>6. CASE ReadRow
  <2>1. /\ UNCHANGED <<buf, run, failed, writer>>
        /\ flight' \subseteq flight \cup (Ids \ seen)
    BY <1>1, <1>6, InputType DEF ReadRow, flush, Seen, TypeOK
  <2>2. QED
    BY <1>2, <1>4, <2>1 DEF Batches, Reading
<1>7. ASSUME NEW b \in SUBSET [id : Ids, error : BOOLEAN], OneRecord(b), StartFlush(b),
             flight' \cap IdsOf(b) = {}, Cardinality(IdsOf(b)) <= FlushEvery
      PROVE  Batches'
  <2>1. PICK D \in SUBSET ResultsOf(b) :
          /\ OneRecord(buf')
          /\ ResultsOf(buf') = ResultsOf(b) \ D /\ ErrorsOf(buf') = ErrorsOf(b) \cup D
    BY <1>7, FlushRecords
  <2>2. BufIds' = IdsOf(b)
    <3>1. BufIds' = ResultsOf(buf') \cup ErrorsOf(buf')
      BY <1>1 DEF TypeOK, BufIds, ResultsOf, ErrorsOf
    <3>2. IdsOf(b) = ResultsOf(b) \cup ErrorsOf(b)
      BY DEF IdsOf, ResultsOf, ErrorsOf
    <3>3. QED
      BY <2>1, <3>1, <3>2
  <2>3. writer' = "part"
    BY <1>7 DEF StartFlush
  <2>4. QED
    BY <1>1, <1>7, <2>1, <2>2, <2>3 DEF Batches
<1>8. CASE (QuietFlush \/ LastFlush) /\ StartFlush(buf)
  <2>1. UNCHANGED flight
    BY <1>8 DEF QuietFlush, LastFlush, reader
  <2>2. QED
    BY <1>2, <1>7, <1>8, <2>1 DEF Batches
<1>9. ASSUME NEW i \in Ids, NEW e \in BOOLEAN, RowDone(i, e) PROVE Batches'
  <2> DEFINE b == buf \cup {Rec(i, e)}
  <2>1. /\ i \in flight /\ flight' = flight \ {i} /\ Reading /\ writer = "idle"
        /\ i \notin BufIds
    BY <1>9 DEF RowDone, Batches
  <2>2. b \in SUBSET [id : Ids, error : BOOLEAN] /\ IdsOf(b) = BufIds \cup {i}
    <3>1. Rec(i, e) \in [id : Ids, error : BOOLEAN] /\ Rec(i, e).id = i
      BY DEF Rec
    <3>2. QED
      BY <1>2, <3>1 DEF IdsOf
  <2>3. OneRecord(b)
    BY <1>2, <2>1 DEF OneRecord, IdsOf, Rec, Batches
  <2>4. Cardinality(IdsOf(b)) = Cardinality(BufIds) + 1 /\ Cardinality(b) = Cardinality(IdsOf(b))
    <3>1. Cardinality(BufIds \cup {i}) = Cardinality(BufIds) + 1
      BY <1>2, <2>1, FiniteIds, FS_AddElement
    <3>2. Cardinality(b) = Cardinality(IdsOf(b))
      BY <2>2, <2>3, IdsOfBatch
    <3>3. QED
      BY <2>2, <3>1, <3>2
  <2>5. Cardinality(BufIds) \in Nat /\ Cardinality(BufIds) < FlushEvery
    BY <1>2, <2>1, FiniteIds DEF Batches
  <2>6. flight' \cap IdsOf(b) = {}
    BY <2>1, <2>2 DEF Batches
  <2> HIDE DEF b
  <2>7. Cardinality(IdsOf(b)) <= FlushEvery
    BY <1>2, <2>4, <2>5
  <2>8. CASE StartFlush(b)
    BY <1>7, <2>2, <2>3, <2>6, <2>8, <2>7
  <2>9. CASE Cardinality(b) < FlushEvery /\ buf' = b
    <3>1. BufIds' = IdsOf(b)
      BY <2>9 DEF BufIds, IdsOf
    <3>2. Cardinality(BufIds') < FlushEvery
      BY <2>4, <2>9, <3>1
    <3>3. QED
      BY <1>1, <2>3, <2>6, <2>9, <2>7, <3>1, <3>2 DEF Batches
  <2>10. QED
    BY <1>9, <2>8, <2>9 DEF RowDone, b
<1>10. CASE PartWritten
  <2>1. UNCHANGED <<buf, flight>> /\ writer' = "index"
    BY <1>10 DEF PartWritten, reader
  <2>2. QED
    BY <1>4, <2>1 DEF Batches
<1>11. CASE PartFails
  <2>1. UNCHANGED <<buf, flight>> /\ (writer' # "idle" \/ failed')
    BY <1>11 DEF PartFails, reader
  <2>2. QED
    BY <1>4, <2>1 DEF Batches, Reading
<1>12. CASE EndReached \/ RunFails \/ (LastFlush /\ buf = {} /\ UNCHANGED buf)
            \/ (Drained /\ run' = "returned" /\ UNCHANGED <<reader, buf>>) \/ UNCHANGED vars
  <2>1. UNCHANGED <<buf, flight>> /\ (Reading' /\ writer' = "idle" => Reading /\ writer = "idle")
    BY <1>12 DEF EndReached, RunFails, LastFlush, reader, flush, vars, Reading
  <2>2. QED
    BY <1>4, <2>1 DEF Batches
<1>13. QED
  BY <1>5, <1>6, <1>8, <1>9, <1>10, <1>11, <1>12
  DEF Next, Goes, QuietFlush, LastFlush, Drained, Over

LEMMA AlwaysBatches == Spec => []Batches
<1>1. Init => Batches
  <2>1. Cardinality({}) = 0
    BY FS_EmptySet
  <2>2. ASSUME Init PROVE Batches
    <3>1. BufIds = {} /\ DOMAIN parts = {} /\ flight = {} /\ buf = {}
      BY <2>2 DEF Init, BufIds
    <3>2. QED
      BY <2>1, <3>1, StorageAssumption DEF Batches, OneRecord
  <2>3. QED
    BY <2>2
<1>2. SInv /\ Batches /\ [Next]_vars => Batches'
  BY BatchesStep
<1>3. QED
  BY <1>1, <1>2, AlwaysSInv, PTL DEF Spec

-----------------------------------------------------------------------------
(* The counts of a run that goes well.                                      *)

NewOk     == UNION {OkIn(parts[k]) : k \in New}
NewFailed == UNION {FailedIn(parts[k]) : k \in New}

\* What is buffered and in no part yet.
UnflushedOk     == IF writer = "index" THEN {} ELSE ResultsOf(buf)
UnflushedFailed == IF writer = "index" THEN {} ELSE ErrorsOf(buf)

\* The rows counted are in a part of this run or in the buffer, each once; a demoted row is
\* still counted as a success.
Counted ==
  /\ run = "idle" => demoted = 0
  /\ run # "idle" /\ ~failed =>
       /\ NewOk \cup NewFailed \subseteq seen
       /\ (NewOk \cup NewFailed) \cap (flight \cup UnflushedOk \cup UnflushedFailed) = {}
       /\ run # "returned" =>
            /\ stats.processed = Cardinality(NewOk) + Cardinality(UnflushedOk) + demoted
            /\ stats.failed + demoted = Cardinality(NewFailed) + Cardinality(UnflushedFailed)
       /\ run = "returned" => /\ stats.processed = Cardinality(NewOk)
                              /\ stats.failed = Cardinality(NewFailed)

LEMMA NewIdsAre ==
  ASSUME TypeOK
  PROVE  NewOk \in SUBSET Ids /\ NewFailed \in SUBSET Ids
<1>1. \A k \in DOMAIN parts : parts[k].recs \in SUBSET [id : Ids, error : BOOLEAN]
  <2>1. parts \in Seq(PartType)
    BY DEF TypeOK, PartType
  <2>2. \A k \in DOMAIN parts : parts[k] \in PartType
    BY <2>1
  <2>3. QED
    BY <2>2 DEF PartType
<1>2. \A k \in DOMAIN parts : OkIn(parts[k]) \subseteq Ids /\ FailedIn(parts[k]) \subseteq Ids
  BY <1>1 DEF OkIn, FailedIn
<1>3. QED
  BY <1>2 DEF NewOk, NewFailed, New

LEMMA NewKept ==
  ASSUME TypeOK, KeepsRecs, parts' \in Seq(PartType), UNCHANGED base
  PROVE  NewOk' = NewOk /\ NewFailed' = NewFailed
<1>1. New' = New
  BY KeptRecs DEF New
<1>2. \A k \in New : OkIn(parts'[k]) = OkIn(parts[k]) /\ FailedIn(parts'[k]) = FailedIn(parts[k])
  BY KeptRecs DEF New
<1>3. QED
  BY <1>1, <1>2 DEF NewOk, NewFailed

LEMMA NewAdded ==
  ASSUME TypeOK, AddsPart, UNCHANGED base
  PROVE  NewOk' = NewOk \cup ResultsOf(buf) /\ NewFailed' = NewFailed \cup ErrorsOf(buf)
<1> DEFINE n == Len(parts) + 1
<1>1. New' = New \cup {n} /\ n \notin New /\ \A k \in New : parts'[k] = parts[k]
  <2>1. /\ Len(parts) \in Nat /\ base \in 0..Len(parts) /\ DOMAIN parts = 1..Len(parts)
        /\ DOMAIN parts' = 1..n /\ \A k \in DOMAIN parts : parts'[k] = parts[k]
    BY AddedPart DEF TypeOK
  <2>2. DOMAIN parts' = DOMAIN parts \cup {n} /\ n > base /\ n \notin DOMAIN parts
    BY <2>1
  <2>3. QED
    BY <2>1, <2>2 DEF New
<1>2. OkIn(parts'[n]) = ResultsOf(buf) /\ FailedIn(parts'[n]) = ErrorsOf(buf)
  BY AddedPart
<1> HIDE DEF n
<1>3. QED
  BY <1>1, <1>2 DEF NewOk, NewFailed

LEMMA FlushCounts ==
  ASSUME SInv, NEW b \in SUBSET [id : Ids, error : BOOLEAN], OneRecord(b), StartFlush(b)
  PROVE  /\ Cardinality(UnflushedOk') + demoted' = Cardinality(ResultsOf(b)) + demoted
         /\ Cardinality(UnflushedFailed') - demoted' = Cardinality(ErrorsOf(b)) - demoted
         /\ UnflushedOk' \cup UnflushedFailed' = IdsOf(b)
<1>1. PICK D \in SUBSET ResultsOf(b) :
        /\ demoted' = demoted + Cardinality(D)
        /\ ResultsOf(buf') = ResultsOf(b) \ D /\ ErrorsOf(buf') = ErrorsOf(b) \cup D
  BY FlushRecords
<1>2. /\ UnflushedOk' = ResultsOf(b) \ D /\ UnflushedFailed' = ErrorsOf(b) \cup D
      /\ ResultsOf(b) \in SUBSET Ids /\ ErrorsOf(b) \in SUBSET Ids /\ D \in SUBSET Ids
  BY <1>1 DEF StartFlush, UnflushedOk, UnflushedFailed, ResultsOf, ErrorsOf
<1>3. ErrorsOf(b) \cap D = {}
  BY <1>1 DEF OneRecord, ResultsOf, ErrorsOf
<1>4. /\ Cardinality(ResultsOf(b) \ D) = Cardinality(ResultsOf(b)) - Cardinality(D)
      /\ Cardinality(ErrorsOf(b) \cup D) = Cardinality(ErrorsOf(b)) + Cardinality(D)
  BY <1>2, <1>3, WithoutIds, DisjointIds
<1>5. Cardinality(ResultsOf(b)) \in Nat /\ Cardinality(ErrorsOf(b)) \in Nat /\ Cardinality(D) \in Nat
      /\ demoted \in Nat
  BY <1>2, FiniteIds DEF SInv, TypeOK
<1>6. UnflushedOk' \cup UnflushedFailed' = IdsOf(b)
  BY <1>1, <1>2 DEF IdsOf, ResultsOf, ErrorsOf
<1>7. QED
  BY <1>1, <1>2, <1>4, <1>5, <1>6

\* A finished row adds one record.
LEMMA DoneRecord ==
  ASSUME TypeOK, Batches, NEW i \in Ids, i \notin BufIds, NEW e \in BOOLEAN
  PROVE  LET b == buf \cup {Rec(i, e)} IN
         /\ b \in SUBSET [id : Ids, error : BOOLEAN] /\ OneRecord(b) /\ IdsOf(b) = BufIds \cup {i}
         /\ e => /\ ResultsOf(b) = ResultsOf(buf)
                 /\ Cardinality(ErrorsOf(b)) = Cardinality(ErrorsOf(buf)) + 1
         /\ ~e => /\ ErrorsOf(b) = ErrorsOf(buf)
                  /\ Cardinality(ResultsOf(b)) = Cardinality(ResultsOf(buf)) + 1
<1> DEFINE b == buf \cup {Rec(i, e)}
<1>1. Rec(i, e) \in [id : Ids, error : BOOLEAN] /\ Rec(i, e).id = i /\ Rec(i, e).error = e
  BY DEF Rec
<1>2. b \in SUBSET [id : Ids, error : BOOLEAN] /\ IdsOf(b) = BufIds \cup {i}
  BY <1>1, BufferIds DEF IdsOf
<1>3. OneRecord(b)
  BY <1>1 DEF OneRecord, BufIds, Batches
<1>4. i \notin ResultsOf(buf) /\ i \notin ErrorsOf(buf) /\ IsFiniteSet(ResultsOf(buf)) /\ IsFiniteSet(ErrorsOf(buf))
  BY BufferIds, FiniteIds
<1>5. ASSUME e PROVE ResultsOf(b) = ResultsOf(buf) /\ ErrorsOf(b) = ErrorsOf(buf) \cup {i}
  BY <1>1, <1>5 DEF ResultsOf, ErrorsOf
<1>6. ASSUME ~e PROVE ErrorsOf(b) = ErrorsOf(buf) /\ ResultsOf(b) = ResultsOf(buf) \cup {i}
  BY <1>1, <1>6 DEF ResultsOf, ErrorsOf
<1> HIDE DEF b
<1>7. e => Cardinality(ErrorsOf(b)) = Cardinality(ErrorsOf(buf)) + 1
  BY <1>4, <1>5, FS_AddElement
<1>8. ~e => Cardinality(ResultsOf(b)) = Cardinality(ResultsOf(buf)) + 1
  BY <1>4, <1>6, FS_AddElement
<1>9. QED
  BY <1>2, <1>3, <1>5, <1>6, <1>7, <1>8 DEF b

LEMMA CountedStep ==
  ASSUME SInv, Batches, Counted, [Next]_vars
  PROVE  Counted'
<1>1. TypeOK /\ TypeOK' /\ SInv' /\ parts' \in Seq(PartType) /\ stats \in StatsType
  BY NextInv DEF SInv, TypeOK, PartType, StatsType
<1>2. /\ BufIds = IdsOf(buf) /\ BufIds \subseteq seen /\ seen \subseteq Ids /\ OneRecord(buf)
      /\ buf \in SUBSET [id : Ids, error : BOOLEAN] /\ flight \cap BufIds = {} /\ flight \subseteq seen
      /\ ResultsOf(buf) \in SUBSET Ids /\ ErrorsOf(buf) \in SUBSET Ids
      /\ BufIds = ResultsOf(buf) \cup ErrorsOf(buf)
  BY <1>1, BufferIds DEF Batches, TypeOK
<1>3. /\ NewOk \in SUBSET Ids /\ NewFailed \in SUBSET Ids /\ demoted \in Nat
      /\ Cardinality(NewOk) \in Nat /\ Cardinality(NewFailed) \in Nat
      /\ Cardinality(ResultsOf(buf)) \in Nat /\ Cardinality(ErrorsOf(buf)) \in Nat
  BY <1>1, <1>2, NewIdsAre, FiniteIds DEF TypeOK
<1>4. Cardinality({}) = 0
  BY FS_EmptySet
<1>5. ASSUME KeepsRecs, UNCHANGED base PROVE NewOk' = NewOk /\ NewFailed' = NewFailed
  BY <1>1, <1>5, NewKept
<1>6. ASSUME run' = "idle", demoted' = 0 PROVE Counted'
  BY <1>6 DEF Counted
<1>7. ASSUME run' # "idle", failed' PROVE Counted'
  BY <1>7 DEF Counted
<1>8. CASE Forget
  BY <1>6, <1>8 DEF Forget
<1>9. CASE StartRun
  <2>1. /\ New' = {} /\ run' = "reading" /\ demoted' = 0 /\ buf = {} /\ stats = NoStats
        /\ UNCHANGED <<flight, buf, writer, stats, seen>>
    <3>1. /\ run = "idle" /\ run' = "reading" /\ base' = Len(parts)
          /\ UNCHANGED <<parts, flight, seen, buf, demoted, writer, stats>>
      BY <1>9 DEF StartRun, storage, flush
    <3>2. New' = {}
      <4>1. parts \in Seq(PartType)
        BY <1>1 DEF TypeOK, PartType
      <4>2. Len(parts) \in Nat /\ DOMAIN parts = 1..Len(parts)
        BY <4>1
      <4>3. QED
        BY <3>1, <4>2 DEF New
    <3>3. QED
      BY <3>1, <3>2 DEF SInv, Forgotten, Counted
  <2>2. NewOk' = {} /\ NewFailed' = {}
    BY <2>1 DEF NewOk, NewFailed
  <2>3. UnflushedOk' = {} /\ UnflushedFailed' = {}
    BY <2>1 DEF UnflushedOk, UnflushedFailed, ResultsOf, ErrorsOf
  <2>4. stats'.processed = 0 /\ stats'.failed = 0
    BY <2>1 DEF NoStats
  <2>5. QED
    BY <1>4, <2>1, <2>2, <2>3, <2>4 DEF Counted
<1>10. ASSUME UNCHANGED <<demoted, failed, UnflushedOk, UnflushedFailed, NewOk, NewFailed>>,
              run # "idle", run # "returned", run' # "idle", run' # "returned",
              stats'.processed = stats.processed, stats'.failed = stats.failed,
              seen \subseteq seen', flight' \subseteq flight \cup (Ids \ seen)
       PROVE  Counted'
  <2>1. UnflushedOk \cup UnflushedFailed \subseteq BufIds
    BY <1>2 DEF UnflushedOk, UnflushedFailed
  <2>2. CASE failed
    BY <1>7, <1>10, <2>2
  <2>3. CASE ~failed
    BY <1>10, <2>1, <2>3 DEF Counted
  <2>4. QED
    BY <2>2, <2>3
<1>11. CASE ReadRow
  <2>1. /\ UNCHANGED <<parts, base, run, failed, buf, demoted, writer>> /\ run = "reading"
        /\ seen \subseteq seen' /\ flight' \subseteq flight \cup (Ids \ seen)
    BY <1>1, <1>11, InputType DEF ReadRow, Reading, storage, flush, Seen, TypeOK
  <2>2. stats'.processed = stats.processed /\ stats'.failed = stats.failed
    BY <1>1, <1>11 DEF ReadRow, StatsType
  <2>3. UNCHANGED <<UnflushedOk, UnflushedFailed, NewOk, NewFailed>>
    BY <2>1 DEF UnflushedOk, UnflushedFailed, NewOk, NewFailed, New
  <2>4. QED
    BY <1>10, <2>1, <2>2, <2>3
<1>12. CASE EndReached \/ (LastFlush /\ buf = {} /\ UNCHANGED <<buf, demoted, flush>>)
  <2>1. /\ UNCHANGED <<parts, base, failed, buf, demoted, writer, stats, seen, flight>>
        /\ run \in {"reading", "closing"} /\ run' \in {"closing", "ending"}
    BY <1>12 DEF EndReached, LastFlush, Reading, storage, reader, flush
  <2>2. UNCHANGED <<UnflushedOk, UnflushedFailed, NewOk, NewFailed>>
    BY <2>1 DEF UnflushedOk, UnflushedFailed, NewOk, NewFailed, New
  <2>3. QED
    BY <1>10, <2>1, <2>2
<1>13. CASE UNCHANGED vars
  <2>1. UNCHANGED <<parts, base, run, failed, buf, demoted, writer, stats, seen, flight>>
    BY <1>13 DEF vars, storage, reader, flush
  <2>2. UNCHANGED <<UnflushedOk, UnflushedFailed, NewOk, NewFailed>>
    BY <2>1 DEF UnflushedOk, UnflushedFailed, NewOk, NewFailed, New
  <2>3. QED
    BY <2>1, <2>2 DEF Counted
<1>14. CASE RunFails
  BY <1>7, <1>14 DEF RunFails, Reading
<1>15. ASSUME NEW b \in SUBSET [id : Ids, error : BOOLEAN], OneRecord(b), StartFlush(b),
              UNCHANGED <<parts, base, failed, seen>>, run \in {"reading", "closing"},
              writer = "idle", run' \in {"reading", "ending"},
              flight' \subseteq flight, flight' \cap IdsOf(b) = {},
              IdsOf(b) \subseteq flight \cup BufIds,
              ~failed => /\ stats'.processed = Cardinality(NewOk) + Cardinality(ResultsOf(b)) + demoted
                         /\ stats'.failed + demoted = Cardinality(NewFailed) + Cardinality(ErrorsOf(b))
       PROVE  Counted'
  <2>1. /\ Cardinality(UnflushedOk') + demoted' = Cardinality(ResultsOf(b)) + demoted
        /\ Cardinality(UnflushedFailed') - demoted' = Cardinality(ErrorsOf(b)) - demoted
        /\ UnflushedOk' \cup UnflushedFailed' = IdsOf(b)
    BY <1>15, FlushCounts
  <2>2. NewOk' = NewOk /\ NewFailed' = NewFailed
    BY <1>15 DEF NewOk, NewFailed, New
  <2>3. CASE failed
    BY <1>7, <1>15, <2>3
  <2>4. CASE ~failed
    <3>1. /\ (NewOk \cup NewFailed) \cap (flight \cup UnflushedOk \cup UnflushedFailed) = {}
          /\ NewOk \cup NewFailed \subseteq seen
          /\ UnflushedOk \cup UnflushedFailed = BufIds
      BY <1>2, <1>15, <2>4 DEF Counted, UnflushedOk, UnflushedFailed
    <3>2. /\ NewOk' \cup NewFailed' \subseteq seen'
          /\ (NewOk' \cup NewFailed') \cap (flight' \cup UnflushedOk' \cup UnflushedFailed') = {}
      BY <1>15, <2>1, <2>2, <3>1
    <3>3. /\ UnflushedOk' \in SUBSET Ids /\ UnflushedFailed' \in SUBSET Ids /\ demoted' \in Nat
          /\ ResultsOf(b) \in SUBSET Ids /\ ErrorsOf(b) \in SUBSET Ids
          /\ stats'.processed \in Nat /\ stats'.failed \in Nat
      <4>1. stats'.processed \in Nat /\ stats'.failed \in Nat /\ demoted' \in Nat
        BY <1>1 DEF TypeOK
      <4>2. IdsOf(b) \in SUBSET Ids /\ ResultsOf(b) \in SUBSET Ids /\ ErrorsOf(b) \in SUBSET Ids
        BY DEF IdsOf, ResultsOf, ErrorsOf
      <4>3. QED
        BY <2>1, <4>1, <4>2
    <3>4. /\ Cardinality(UnflushedOk') \in Nat /\ Cardinality(UnflushedFailed') \in Nat
          /\ Cardinality(ResultsOf(b)) \in Nat /\ Cardinality(ErrorsOf(b)) \in Nat
      BY <3>3, FiniteIds
    <3>5. stats'.processed = Cardinality(NewOk) + Cardinality(UnflushedOk') + demoted'
      BY <1>3, <1>15, <2>1, <2>4, <3>3, <3>4
    <3>6. stats'.failed + demoted' = Cardinality(NewFailed) + Cardinality(UnflushedFailed')
      BY <1>3, <1>15, <2>1, <2>4, <3>3, <3>4
    <3>7. QED
      BY <1>15, <2>2, <3>2, <3>5, <3>6 DEF Counted
  <2>5. QED
    BY <2>3, <2>4
<1>16. ASSUME writer = "idle", run \in {"reading", "closing"}, ~failed
       PROVE  /\ stats.processed = Cardinality(NewOk) + Cardinality(ResultsOf(buf)) + demoted
              /\ stats.failed + demoted = Cardinality(NewFailed) + Cardinality(ErrorsOf(buf))
  BY <1>16 DEF Counted, UnflushedOk, UnflushedFailed
<1>17. CASE (QuietFlush \/ LastFlush) /\ StartFlush(buf)
  <2>1. /\ UNCHANGED <<parts, base, failed, seen, flight, stats>> /\ writer = "idle"
        /\ run \in {"reading", "closing"} /\ run' \in {"reading", "ending"}
    BY <1>17 DEF QuietFlush, LastFlush, Reading, storage, reader
  <2>2. QED
    BY <1>2, <1>15, <1>16, <1>17, <2>1
<1>18. ASSUME NEW i \in Ids, NEW e \in BOOLEAN, RowDone(i, e) PROVE Counted'
  <2> DEFINE b == buf \cup {Rec(i, e)}
  <2>1. /\ run = "reading" /\ run' = "reading" /\ ~failed /\ writer = "idle"
        /\ i \in flight /\ flight' = flight \ {i} /\ i \notin BufIds
        /\ UNCHANGED <<parts, base, failed, seen>>
    BY <1>2, <1>18 DEF RowDone, Reading, storage
  <2>2. /\ b \in SUBSET [id : Ids, error : BOOLEAN] /\ OneRecord(b) /\ IdsOf(b) = BufIds \cup {i}
        /\ e => /\ ResultsOf(b) = ResultsOf(buf)
                /\ Cardinality(ErrorsOf(b)) = Cardinality(ErrorsOf(buf)) + 1
        /\ ~e => /\ ErrorsOf(b) = ErrorsOf(buf)
                 /\ Cardinality(ResultsOf(b)) = Cardinality(ResultsOf(buf)) + 1
    BY <1>1, <2>1, DoneRecord
  <2>3. CASE StartFlush(b) \/ (buf' = b /\ UNCHANGED <<demoted, flush>>)
    <3> HIDE DEF b
    <3>1. /\ e => stats'.failed = stats.failed + 1 /\ stats'.processed = stats.processed
          /\ ~e => stats'.processed = stats.processed + 1 /\ stats'.failed = stats.failed
          /\ stats.failed \in Nat /\ stats.processed \in Nat
      BY <1>1, <1>18 DEF RowDone, StatsType
    <3>2. /\ stats'.processed = Cardinality(NewOk) + Cardinality(ResultsOf(b)) + demoted
          /\ stats'.failed + demoted = Cardinality(NewFailed) + Cardinality(ErrorsOf(b))
      BY <1>3, <1>16, <2>1, <2>2, <3>1
    <3>3. CASE StartFlush(b)
      BY <1>2, <1>15, <2>1, <2>2, <3>2, <3>3
    <3>4. CASE buf' = b /\ UNCHANGED <<demoted, flush>>
      <4>1. UnflushedOk' = ResultsOf(b) /\ UnflushedFailed' = ErrorsOf(b)
        BY <2>1, <3>4 DEF UnflushedOk, UnflushedFailed, flush
      <4>2. NewOk' = NewOk /\ NewFailed' = NewFailed
        BY <2>1 DEF NewOk, NewFailed, New
      <4>3. ResultsOf(b) \cup ErrorsOf(b) = BufIds \cup {i}
        BY <2>2 DEF IdsOf, ResultsOf, ErrorsOf
      <4>4. /\ (NewOk \cup NewFailed) \cap (flight \cup BufIds) = {}
            /\ NewOk \cup NewFailed \subseteq seen
        BY <1>2, <2>1 DEF Counted, UnflushedOk, UnflushedFailed
      <4>5. QED
        BY <2>1, <3>2, <3>4, <4>1, <4>2, <4>3, <4>4 DEF Counted
    <3>5. QED
      BY <2>3, <3>3, <3>4
  <2>4. QED
    BY <1>18, <2>3 DEF RowDone
<1>19. CASE PartWritten
  <2>1. /\ writer = "part" /\ writer' = "index" /\ run \in {"reading", "ending"} /\ AddsPart
        /\ UNCHANGED <<base, run, failed, seen, flight, buf, demoted, stats>>
    BY <1>1, <1>19 DEF PartWritten, AddsPart, reader, SInv, TypeOK, WriterWaits, Forgotten
  <2>2. NewOk' = NewOk \cup ResultsOf(buf) /\ NewFailed' = NewFailed \cup ErrorsOf(buf)
    BY <1>1, <2>1, NewAdded
  <2>3. /\ UnflushedOk' = {} /\ UnflushedFailed' = {}
        /\ UnflushedOk = ResultsOf(buf) /\ UnflushedFailed = ErrorsOf(buf)
    BY <2>1 DEF UnflushedOk, UnflushedFailed
  <2>4. CASE failed
    BY <1>7, <2>1, <2>4
  <2>5. CASE ~failed
    <3>1. /\ NewOk \cap ResultsOf(buf) = {} /\ NewFailed \cap ErrorsOf(buf) = {}
          /\ stats.processed = Cardinality(NewOk) + Cardinality(ResultsOf(buf)) + demoted
          /\ stats.failed + demoted = Cardinality(NewFailed) + Cardinality(ErrorsOf(buf))
          /\ NewOk \cup NewFailed \subseteq seen /\ (NewOk \cup NewFailed) \cap flight = {}
      BY <2>1, <2>3, <2>5 DEF Counted
    <3>2. /\ Cardinality(NewOk') = Cardinality(NewOk) + Cardinality(ResultsOf(buf))
          /\ Cardinality(NewFailed') = Cardinality(NewFailed) + Cardinality(ErrorsOf(buf))
      BY <1>2, <1>3, <2>2, <3>1, DisjointIds
    <3>3. NewOk' \cup NewFailed' \subseteq seen' /\ (NewOk' \cup NewFailed') \cap flight' = {}
      BY <1>2, <2>1, <2>2, <3>1
    <3>4. /\ stats'.processed = Cardinality(NewOk') + 0 + demoted'
          /\ stats'.failed + demoted' = Cardinality(NewFailed') + 0
      BY <1>3, <2>1, <3>1, <3>2
    <3>5. QED
      BY <1>4, <2>1, <2>3, <3>3, <3>4 DEF Counted
  <2>6. QED
    BY <2>4, <2>5
<1>20. CASE PartFails
  <2>1. /\ writer = "part" /\ run \in {"reading", "ending"}
        /\ UNCHANGED <<base, run, seen, flight, buf, demoted, stats>>
    BY <1>1, <1>20 DEF PartFails, reader, SInv, TypeOK, WriterWaits, Forgotten
  <2>2. CASE failed'
    BY <1>7, <2>1, <2>2
  <2>3. CASE UNCHANGED <<parts, writer, failed>>
    <3>1. UNCHANGED <<UnflushedOk, UnflushedFailed, NewOk, NewFailed>>
      BY <2>1, <2>3 DEF UnflushedOk, UnflushedFailed, NewOk, NewFailed, New
    <3>2. QED
      BY <1>10, <2>1, <2>3, <3>1
  <2>4. QED
    BY <1>20, <2>2, <2>3 DEF PartFails
<1>21. CASE ManifestWritten \/ ManifestFails
  <2>1. /\ writer = "index" /\ writer' = "idle" /\ buf' = {} /\ run \in {"reading", "ending"}
        /\ UNCHANGED <<base, run, failed, seen, flight, demoted, stats>>
    BY <1>1, <1>21 DEF ManifestWritten, ManifestFails, Indexed, reader, SInv, TypeOK, WriterWaits, Forgotten
  <2>2. NewOk' = NewOk /\ NewFailed' = NewFailed
    <3>1. ~AddsPart
      BY <2>1 DEF AddsPart
    <3>2. QED
      BY <1>5, <2>1, <3>1, PartsStep
  <2>3. UnflushedOk' = {} /\ UnflushedFailed' = {} /\ UnflushedOk = {} /\ UnflushedFailed = {}
    BY <2>1 DEF UnflushedOk, UnflushedFailed, ResultsOf, ErrorsOf
  <2>4. QED
    BY <1>10, <2>1, <2>2, <2>3
<1>22. CASE Drained /\ ~Forget
  <2>1. /\ run = "ending" /\ writer = "idle" /\ ~failed /\ ~failed' /\ run' = "returned"
        /\ stats' = CountDemoted
        /\ UNCHANGED <<parts, base, seen, flight, buf, demoted, writer>>
    BY <1>22 DEF Drained, storage, reader, flush
  <2>2. buf = {}
    BY <2>1 DEF SInv, RowsWritten
  <2>3. NewOk' = NewOk /\ NewFailed' = NewFailed /\ UNCHANGED <<UnflushedOk, UnflushedFailed>>
    BY <2>1 DEF NewOk, NewFailed, New, UnflushedOk, UnflushedFailed
  <2>4. UnflushedOk = {} /\ UnflushedFailed = {}
    BY <2>2 DEF UnflushedOk, UnflushedFailed, ResultsOf, ErrorsOf
  <2>5. stats.processed = Cardinality(NewOk) + demoted /\ stats.failed + demoted = Cardinality(NewFailed)
    BY <1>3, <1>4, <2>1, <2>4 DEF Counted
  <2>6. stats'.processed = Cardinality(NewOk) /\ stats'.failed = Cardinality(NewFailed)
    <3> DEFINE d == IF demoted < stats.processed THEN demoted ELSE stats.processed
    <3>1. d = demoted
      BY <1>3, <2>5
    <3>2. stats' = [stats EXCEPT !.processed = @ - d, !.failed = @ + d]
      BY <2>1 DEF CountDemoted
    <3> HIDE DEF d
    <3>3. stats'.processed = stats.processed - demoted /\ stats'.failed = stats.failed + demoted
      BY <1>1, <3>1, <3>2 DEF StatsType
    <3>4. QED
      BY <1>3, <2>5, <3>3
  <2>7. QED
    BY <2>1, <2>3, <2>4, <2>6 DEF Counted
<1>23. QED
  BY <1>8, <1>9, <1>11, <1>12, <1>13, <1>14, <1>17, <1>18, <1>19, <1>20, <1>21, <1>22
  DEF Next, Goes, QuietFlush, LastFlush, Drained, Certify, Crash, Over

\* "Exact final Stats": the rows a run that returns counts as results and as errors are the
\* results and the errors in the parts this run wrote, however it flushed, retried or demoted.
THEOREM StatsAlwaysExact == Spec => []StatsExact
<1>1. Init => Counted
  BY DEF Init, Counted
<1>2. SInv /\ Batches /\ Counted /\ [Next]_vars => Counted'
  BY CountedStep
<1>3. SInv /\ Counted => StatsExact
  BY DEF SInv, WriterWaits, Counted, StatsExact, NewOk, NewFailed
<1>4. QED
  BY <1>1, <1>2, <1>3, AlwaysSInv, AlwaysBatches, PTL DEF Spec

-----------------------------------------------------------------------------
(* What is stored more than once.                                           *)

\* The ids whose result this run may still hand to a part, and those of them with a result.
Coming == IF Reading THEN (Ids \ (skip \cup seen)) \cup flight ELSE {}
Buffered ==
  IF writer = "index" \/ (writer = "idle" /\ run \notin {"reading", "closing"})
    THEN {} ELSE ResultsOf(buf)
Again == OkIds \cap (Coming \cup Buffered)

\* An attempt that landed may leave a part of the buffer next to the one that is kept.
Landed == IF landed /\ writer = "part" THEN FlushEvery ELSE 0

\* One flush for each doubt: what is stored twice, and what still may be.
Doubled == Cardinality(Results) + Cardinality(Again) + Landed
             <= Cardinality(OkIds) + FlushEvery * doubts

LEMMA OkIdsFinite ==
  ASSUME TypeOK
  PROVE  /\ OkIds \in SUBSET Ids /\ Again \in SUBSET OkIds /\ Landed \in Nat
         /\ IsFiniteSet(Results) /\ Cardinality(Results) \in Nat
<1>1. parts \in Seq(PartType) /\ Len(parts) \in Nat
  BY DEF TypeOK, PartType
<1>2. \A k \in DOMAIN parts : OkIn(parts[k]) \subseteq Ids
  <2>1. \A k \in DOMAIN parts : parts[k] \in PartType
    BY <1>1
  <2>2. QED
    BY <2>1 DEF PartType, OkIn
<1>3. OkIds \in SUBSET Ids
  BY <1>2 DEF OkIds
<1>4. Again \in SUBSET OkIds
  BY DEF Again
<1>5. IsFiniteSet((DOMAIN parts) \X Ids)
  <2>1. IsFiniteSet(1..Len(parts))
    BY <1>1, FS_Interval
  <2>2. QED
    BY <1>1, <2>1, StorageAssumption, FS_Product
<1>6. IsFiniteSet(Results) /\ Cardinality(Results) \in Nat
  <2>1. Results \in SUBSET ((DOMAIN parts) \X Ids)
    BY DEF Results
  <2>2. QED
    BY <1>5, <2>1, FS_Subset, FS_CardinalityType
<1>7. Landed \in Nat
  BY StorageAssumption DEF Landed
<1>8. QED
  BY <1>3, <1>4, <1>6, <1>7

\* Each part adds its results.
LEMMA AddedResults ==
  ASSUME TypeOK, TypeOK', AddsPart
  PROVE  /\ OkIds' = OkIds \cup ResultsOf(buf)
         /\ Cardinality(Results') = Cardinality(Results) + Cardinality(ResultsOf(buf))
<1> DEFINE n == Len(parts) + 1
           N == {<<n, i>> : i \in ResultsOf(buf)}
<1>1. /\ DOMAIN parts' = DOMAIN parts \cup {n} /\ n \notin DOMAIN parts
      /\ \A k \in DOMAIN parts : parts'[k] = parts[k]
      /\ OkIn(parts'[n]) = ResultsOf(buf)
  BY AddedPart
<1>2. ResultsOf(buf) \in SUBSET Ids /\ IsFiniteSet(ResultsOf(buf))
  BY BufferIds, FiniteIds
<1> HIDE DEF n
<1>3. OkIds' = OkIds \cup ResultsOf(buf)
  BY <1>1 DEF OkIds
<1>4. Results' = Results \cup N /\ Results \cap N = {}
  <2>1. \A k, i : <<k, i>> \in Results <=> k \in DOMAIN parts /\ i \in Ids /\ i \in OkIn(parts[k])
    BY DEF Results
  <2>2. \A k, i : <<k, i>> \in Results' <=> k \in DOMAIN parts' /\ i \in Ids /\ i \in OkIn(parts'[k])
    BY DEF Results
  <2>3. \A x \in Results \cup Results' : x = <<x[1], x[2]>>
    BY DEF Results
  <2>4. \A k, i : <<k, i>> \in Results' <=> <<k, i>> \in Results \/ (k = n /\ i \in ResultsOf(buf))
    <3>1. SUFFICES ASSUME NEW k, NEW i
                   PROVE  <<k, i>> \in Results' <=> <<k, i>> \in Results \/ (k = n /\ i \in ResultsOf(buf))
      OBVIOUS
    <3>2. CASE k \in DOMAIN parts
      BY <1>1, <2>1, <2>2, <3>2
    <3>3. CASE k = n
      BY <1>1, <1>2, <2>1, <2>2, <3>3
    <3>4. CASE k \notin DOMAIN parts /\ k # n
      BY <1>1, <2>1, <2>2, <3>4
    <3>5. QED
      BY <3>2, <3>3, <3>4
  <2>5. \A k, i : <<k, i>> \in N <=> k = n /\ i \in ResultsOf(buf)
    OBVIOUS
  <2>6. \A x \in N : x = <<x[1], x[2]>>
    OBVIOUS
  <2> HIDE DEF N
  <2>7. Results' = Results \cup N
    BY <2>3, <2>4, <2>5, <2>6
  <2>8. Results \cap N = {}
    BY <1>1, <2>1, <2>5, <2>6
  <2>9. QED
    BY <2>7, <2>8
<1>5. IsFiniteSet(N) /\ Cardinality(N) = Cardinality(ResultsOf(buf))
  <2> DEFINE f == [i \in ResultsOf(buf) |-> <<n, i>>]
  <2>1. f \in Bijection(ResultsOf(buf), N)
    BY DEF Bijection, Injection, Surjection, IsInjective
  <2>2. ExistsBijection(ResultsOf(buf), N)
    BY <2>1 DEF ExistsBijection
  <2>3. QED
    BY <1>2, <2>2, FS_Bijection
<1>6. Cardinality(Results \cup N) = Cardinality(Results) + Cardinality(N) - Cardinality(Results \cap N)
  BY <1>5, OkIdsFinite, FS_Union
<1> HIDE DEF N
<1>7. Cardinality({}) = 0 /\ Cardinality(Results) \in Nat /\ Cardinality(N) \in Nat
  BY <1>5, OkIdsFinite, FS_EmptySet, FS_CardinalityType
<1>8. Cardinality(Results') = Cardinality(Results \cup N) /\ Cardinality(Results \cap N) = 0
  BY <1>4, <1>7
<1>9. QED
  BY <1>3, <1>5, <1>6, <1>7, <1>8

LEMMA KeptResults ==
  ASSUME TypeOK, KeepsRecs, parts' \in Seq(PartType)
  PROVE  OkIds' = OkIds /\ Results' = Results
<1>1. /\ DOMAIN parts' = DOMAIN parts /\ OkIds' = OkIds
      /\ \A k \in DOMAIN parts : OkIn(parts'[k]) = OkIn(parts[k])
  BY KeptRecs
<1>2. QED
  BY <1>1 DEF Results

\* The results of some parts are at most a flush for each of them.
LEMMA ResultsOfParts ==
  ASSUME SInv, Batches, NEW L \in SUBSET DOMAIN parts
  PROVE  /\ UNION {OkIn(parts[k]) : k \in L} \in SUBSET Ids
         /\ Cardinality(UNION {OkIn(parts[k]) : k \in L}) <= FlushEvery * Cardinality(L)
<1> DEFINE U == UNION {OkIn(parts[k]) : k \in L}
           c(k) == Cardinality(OkIn(parts[k]))
           g(k) == CHOOSE h \in [1..c(k) -> OkIn(parts[k])] : h \in Bijection(1..c(k), OkIn(parts[k]))
           P == L \X (1..FlushEvery)
<1>1. \A k \in DOMAIN parts : OkIn(parts[k]) \in SUBSET Ids /\ c(k) \in Nat /\ c(k) <= FlushEvery
  <2>1. \A k \in DOMAIN parts : OkIn(parts[k]) \in SUBSET Ids
    <3>1. parts \in Seq(PartType)
      BY DEF SInv, TypeOK, PartType
    <3>2. \A k \in DOMAIN parts : parts[k] \in PartType
      BY <3>1
    <3>3. QED
      BY <3>2 DEF PartType, OkIn
  <2>2. QED
    BY <2>1, FiniteIds DEF Batches
<1>2. \A k \in L : g(k) \in [1..c(k) -> OkIn(parts[k])]
                   /\ \A i \in OkIn(parts[k]) : \E j \in 1..c(k) : g(k)[j] = i
  <2>1. SUFFICES ASSUME NEW k \in L
                 PROVE  g(k) \in [1..c(k) -> OkIn(parts[k])]
                        /\ \A i \in OkIn(parts[k]) : \E j \in 1..c(k) : g(k)[j] = i
    OBVIOUS
  <2>2. ExistsBijection(1..c(k), OkIn(parts[k]))
    BY <1>1, FiniteIds, FS_CardinalityType
  <2>3. \E h \in [1..c(k) -> OkIn(parts[k])] : h \in Bijection(1..c(k), OkIn(parts[k]))
    BY <2>2 DEF ExistsBijection, Bijection, Injection
  <2>4. g(k) \in [1..c(k) -> OkIn(parts[k])] /\ g(k) \in Bijection(1..c(k), OkIn(parts[k]))
    BY <2>3
  <2> HIDE DEF g, c
  <2>5. QED
    BY <2>4 DEF Bijection, Surjection
<1>3. IsFiniteSet(L) /\ IsFiniteSet(P) /\ Cardinality(P) = FlushEvery * Cardinality(L)
  <2>1. IsFiniteSet(L)
    <3>1. DOMAIN parts = 1..Len(parts) /\ Len(parts) \in Nat
      BY DEF SInv, TypeOK
    <3>2. IsFiniteSet(DOMAIN parts)
      BY <3>1, FS_Interval
    <3>3. QED
      BY <3>2, FS_Subset
  <2>2. IsFiniteSet(1..FlushEvery) /\ Cardinality(1..FlushEvery) = FlushEvery
    BY StorageAssumption, FS_Interval
  <2>3. Cardinality(P) = Cardinality(L) * Cardinality(1..FlushEvery) /\ IsFiniteSet(P)
    BY <2>1, <2>2, FS_Product
  <2>4. Cardinality(L) \in Nat
    BY <2>1, FS_CardinalityType
  <2>5. QED
    BY <2>1, <2>2, <2>3, <2>4, StorageAssumption
<1>4. U \in SUBSET Ids
  BY <1>1
<1>5. CASE U = {}
  <2>1. Cardinality(U) = 0
    BY <1>5, FS_EmptySet
  <2>2. Cardinality(P) \in Nat
    BY <1>3, FS_CardinalityType
  <2>3. QED
    BY <1>3, <1>4, <2>1, <2>2
<1>6. ASSUME U # {} PROVE Cardinality(U) <= Cardinality(P)
  <2>1. PICK u \in U : TRUE
    BY <1>6
  <2> DEFINE f == [x \in P |-> IF x[2] <= c(x[1]) THEN g(x[1])[x[2]] ELSE u]
  <2>2. f \in [P -> U]
    <3>1. SUFFICES ASSUME NEW k \in L, NEW j \in 1..FlushEvery, j <= c(k) PROVE g(k)[j] \in OkIn(parts[k])
      BY <2>1
    <3>2. j \in 1..c(k)
      BY <1>1, <3>1
    <3> HIDE DEF g, c
    <3>3. QED
      BY <1>2, <3>2
  <2>3. ASSUME NEW i \in U PROVE \E x \in P : f[x] = i
    <3>1. PICK k \in L : i \in OkIn(parts[k])
      OBVIOUS
    <3>2. PICK j \in 1..c(k) : g(k)[j] = i
      BY <1>2, <3>1
    <3>3. j \in 1..FlushEvery /\ j <= c(k)
      BY <1>1, <3>2, StorageAssumption
    <3>4. <<k, j>> \in P /\ f[<<k, j>>] = g(k)[j]
      BY <3>3
    <3>5. QED
      BY <3>2, <3>4
  <2>4. f \in Surjection(P, U)
    BY <2>2, <2>3 DEF Surjection
  <2>5. QED
    BY <1>3, <2>4, FS_Surjection
<1>7. QED
  BY <1>3, <1>4, <1>5, <1>6

LEMMA Flushes ==
  ASSUME NEW m \in Nat, NEW n \in Nat
  PROVE  /\ FlushEvery * m \in Nat /\ FlushEvery * (m + n) = FlushEvery * m + FlushEvery * n
         /\ FlushEvery * (m + 1) = FlushEvery * m + FlushEvery
BY StorageAssumption

LEMMA DoubtsNat ==
  ASSUME TypeOK
  PROVE  doubts \in Nat /\ FlushEvery * doubts \in Nat
<1>1. doubts \in 0..MaxDoubts /\ MaxDoubts \in Nat
  BY StorageAssumption DEF TypeOK
<1>2. QED
  BY <1>1, Flushes

\* A step that stores nothing and lets nothing more be stored again.
LEMMA DoubledKept ==
  ASSUME TypeOK, TypeOK', Doubled, KeepsRecs, UNCHANGED doubts,
         Again' \subseteq Again, Landed' <= Landed
  PROVE  Doubled'
<1>1. OkIds' = OkIds /\ Results' = Results
  <2>1. parts' \in Seq(PartType)
    BY DEF TypeOK, PartType
  <2>2. QED
    BY <2>1, KeptResults
<1>2. Cardinality(Again') <= Cardinality(Again)
  BY OkIdsFinite, SmallerIds
<1>3. /\ Cardinality(Results) \in Nat /\ Cardinality(Again) \in Nat /\ Cardinality(OkIds) \in Nat
      /\ Landed \in Nat /\ FlushEvery * doubts \in Nat
  BY OkIdsFinite, FiniteIds, DoubtsNat
<1>4. Cardinality(Again') \in Nat /\ Landed' \in Nat
  <2>1. Again' \in SUBSET Ids
    BY OkIdsFinite
  <2>2. QED
    BY <2>1, FiniteIds, StorageAssumption DEF Landed
<1>5. QED
  BY <1>1, <1>2, <1>3, <1>4 DEF Doubled

\* The part holds what the buffer could store again.
LEMMA DoubledAdded ==
  ASSUME SInv, TypeOK', Batches, Doubled, AddsPart
  PROVE  /\ Cardinality(Results') + Cardinality(OkIds \cap Coming) + Landed
              <= Cardinality(OkIds') + FlushEvery * doubts
         /\ (OkIds' \cap Coming) = (OkIds \cap Coming)
         /\ Cardinality(ResultsOf(buf)) <= FlushEvery
         /\ Cardinality(Results') \in Nat /\ Cardinality(OkIds') \in Nat
<1> DEFINE b == ResultsOf(buf)
<1>1. /\ TypeOK /\ b \in SUBSET BufIds /\ BufIds \in SUBSET Ids /\ BufIds \subseteq seen
      /\ OkIds \in SUBSET Ids
  BY BufferIds, OkIdsFinite DEF SInv
<1>2. OkIds' = OkIds \cup b /\ Cardinality(Results') = Cardinality(Results) + Cardinality(b)
  BY <1>1, AddedResults
<1>3. Coming \cap b = {} /\ Buffered = b
  BY <1>1 DEF Coming, Buffered, AddsPart, Batches
<1> HIDE DEF b
<1>4. Again = (OkIds \cap Coming) \cup (OkIds \cap b) /\ (OkIds \cap Coming) \cap (OkIds \cap b) = {}
  BY <1>3 DEF Again
<1>5. Cardinality(Again) = Cardinality(OkIds \cap Coming) + Cardinality(OkIds \cap b)
  <2>1. OkIds \cap Coming \in SUBSET Ids /\ OkIds \cap b \in SUBSET Ids
    BY <1>1
  <2>2. QED
    BY <1>4, <2>1, DisjointIds
<1>6. Cardinality(OkIds') = Cardinality(OkIds) + Cardinality(b) - Cardinality(OkIds \cap b)
  BY <1>1, <1>2, FiniteIds, FS_Union
<1>7. /\ Cardinality(OkIds) \in Nat /\ Cardinality(b) \in Nat /\ Cardinality(OkIds \cap b) \in Nat
      /\ Cardinality(OkIds \cap Coming) \in Nat /\ Cardinality(Results) \in Nat /\ Landed \in Nat
      /\ FlushEvery * doubts \in Nat
  <2>1. /\ b \in SUBSET Ids /\ OkIds \cap b \in SUBSET Ids /\ OkIds \cap Coming \in SUBSET Ids
    BY <1>1
  <2>2. QED
    BY <1>1, <2>1, OkIdsFinite, FiniteIds, DoubtsNat
<1>8. /\ Cardinality(Results') + Cardinality(OkIds \cap Coming) + Landed
              <= Cardinality(OkIds') + FlushEvery * doubts
  BY <1>2, <1>5, <1>6, <1>7 DEF Doubled
<1>9. (OkIds' \cap Coming) = (OkIds \cap Coming)
  BY <1>2, <1>3
<1>10. Cardinality(b) <= FlushEvery
  <2>1. Cardinality(b) <= Cardinality(BufIds) /\ Cardinality(BufIds) \in Nat
    BY <1>1, SmallerIds, FiniteIds
  <2>2. Cardinality(BufIds) <= FlushEvery
    BY DEF Batches
  <2>3. QED
    BY <1>7, <2>1, <2>2, StorageAssumption
<1>11. Cardinality(Results') \in Nat /\ Cardinality(OkIds') \in Nat
  <2>1. OkIds' \in SUBSET Ids
    BY <1>1, <1>2
  <2>2. QED
    BY <1>2, <1>7, <2>1, FiniteIds
<1>12. QED
  BY <1>8, <1>9, <1>10, <1>11 DEF b

\* A resumed run may store again what the parts it could not read hold.
LEMMA DoubledStart ==
  ASSUME SInv, TypeOK', Batches, Doubled, StartRun
  PROVE  Doubled'
<1>1. /\ run = "idle" /\ run' = "reading"
      /\ UNCHANGED <<parts, failed, flight, seen, buf, writer, landed>>
      /\ flight = {} /\ buf = {} /\ writer = "idle"
  BY DEF StartRun, storage, flush, SInv, Forgotten
<1>2. PICK noIndex \in SUBSET DOMAIN parts : \E lost \in SUBSET (DOMAIN parts \ Covered(noIndex)) :
        /\ doubts' = doubts + Cardinality(lost)
        /\ skip' = Existing(Covered(noIndex) \cup Scanned(noIndex, lost), retry')
  BY DEF StartRun
<1>3. PICK lost \in SUBSET (DOMAIN parts \ Covered(noIndex)) :
        /\ doubts' = doubts + Cardinality(lost)
        /\ skip' = Existing(Covered(noIndex) \cup Scanned(noIndex, lost), retry')
  BY <1>2
<1> DEFINE U == UNION {OkIn(parts[k]) : k \in lost}
<1>4. U \in SUBSET Ids /\ Cardinality(U) <= FlushEvery * Cardinality(lost)
  BY ResultsOfParts
<1>5. Again' \subseteq U
  <2>1. Again' \subseteq OkIds \ skip'
    BY <1>1 DEF Again, Coming, Buffered, Reading, OkIds, ResultsOf
  <2>2. \A k \in DOMAIN parts : k \in lost \/ OkIn(parts[k]) \subseteq skip'
    BY <1>3 DEF Existing, Scanned
  <2>3. QED
    BY <2>1, <2>2 DEF OkIds
<1>6. Cardinality(Again') <= Cardinality(U) /\ Cardinality(U) \in Nat /\ Cardinality(Again') \in Nat
  <2>1. Again' \in SUBSET Ids
    BY <1>4, <1>5
  <2>2. QED
    BY <1>4, <1>5, <2>1, SmallerIds, FiniteIds
<1>7. Cardinality(lost) \in Nat /\ doubts \in Nat
  <2>1. IsFiniteSet(DOMAIN parts)
    <3>1. parts \in Seq(PartType)
      BY DEF SInv, TypeOK, PartType
    <3>2. DOMAIN parts = 1..Len(parts) /\ Len(parts) \in Nat
      BY <3>1
    <3>3. QED
      BY <3>2, FS_Interval
  <2>2. IsFiniteSet(lost)
    BY <2>1, FS_Subset
  <2>3. QED
    BY <2>2, FS_CardinalityType, DoubtsNat DEF SInv
<1>8. /\ FlushEvery * doubts' = FlushEvery * doubts + FlushEvery * Cardinality(lost)
      /\ FlushEvery * doubts \in Nat /\ FlushEvery * Cardinality(lost) \in Nat
  BY <1>3, <1>7, Flushes
<1>9. Again = {} /\ Landed = 0 /\ Landed' = 0
  BY <1>1 DEF Again, Coming, Buffered, Reading, Landed
<1>10. Results' = Results /\ OkIds' = OkIds
  BY <1>1 DEF Results, OkIds
<1>11. Cardinality(Results) \in Nat /\ Cardinality(OkIds) \in Nat /\ Cardinality({}) = 0
  BY OkIdsFinite, FiniteIds, FS_EmptySet DEF SInv
<1> HIDE DEF U
<1>12. QED
  BY <1>4, <1>6, <1>8, <1>9, <1>10, <1>11 DEF Doubled

LEMMA DoubledStep ==
  ASSUME SInv, Batches, Doubled, [Next]_vars
  PROVE  Doubled'
<1>1. TypeOK /\ TypeOK' /\ parts' \in Seq(PartType)
  BY NextInv DEF SInv, TypeOK, PartType
<1>2. /\ Cardinality(OkIds \cap Coming) \in Nat /\ Landed \in Nat /\ FlushEvery \in Nat \ {0}
      /\ doubts \in Nat /\ FlushEvery * doubts \in Nat /\ Cardinality({}) = 0
  <2>1. OkIds \cap Coming \in SUBSET Ids
    BY <1>1, OkIdsFinite
  <2>2. QED
    BY <1>1, <2>1, OkIdsFinite, FiniteIds, FS_EmptySet, DoubtsNat, StorageAssumption
<1>3. CASE StartRun
  BY <1>1, <1>3, DoubledStart
<1>4. CASE KeepsRecs /\ Forget /\ UNCHANGED doubts
  <2>1. Again' = {} /\ Landed' = 0
    BY <1>4 DEF Forget, Again, Coming, Buffered, Reading, Landed
  <2>2. QED
    BY <1>1, <1>2, <1>4, <2>1, DoubledKept
<1>5. CASE AddsPart /\ Forget /\ UNCHANGED doubts
  <2>1. Again' = {} /\ Landed' = 0
    BY <1>5 DEF Forget, Again, Coming, Buffered, Reading, Landed
  <2>2. /\ Cardinality(Results') + Cardinality(OkIds \cap Coming) + Landed <= Cardinality(OkIds') + FlushEvery * doubts
        /\ Cardinality(Results') \in Nat /\ Cardinality(OkIds') \in Nat
    BY <1>1, <1>5, DoubledAdded
  <2>3. QED
    BY <1>2, <1>5, <2>1, <2>2 DEF Doubled
<1>6. ASSUME KeepsRecs, UNCHANGED doubts, Coming' \cup Buffered' \subseteq Coming \cup Buffered,
             landed' => landed, writer' = "part" => writer = "part" \/ ~landed'
      PROVE  Doubled'
  <2>1. OkIds' = OkIds
    BY <1>1, <1>6, KeptResults
  <2>2. Again' \subseteq Again /\ Landed' <= Landed
    BY <1>2, <1>6, <2>1 DEF Again, Landed
  <2>3. QED
    BY <1>1, <1>6, <2>2, DoubledKept
<1>7. CASE PartWritten
  <2>1. /\ AddsPart /\ writer' = "index" /\ UNCHANGED <<run, failed, skip, seen, flight, doubts>>
    BY <1>7 DEF PartWritten, AddsPart, reader, spent
  <2>2. Again' = OkIds' \cap Coming /\ Landed' = 0
    BY <2>1 DEF Again, Coming, Buffered, Reading, Landed
  <2>3. /\ Cardinality(Results') + Cardinality(OkIds \cap Coming) + Landed <= Cardinality(OkIds') + FlushEvery * doubts
        /\ OkIds' \cap Coming = OkIds \cap Coming
        /\ Cardinality(Results') \in Nat /\ Cardinality(OkIds') \in Nat
    BY <1>1, <2>1, DoubledAdded
  <2>4. Cardinality(Again') = Cardinality(OkIds \cap Coming)
    BY <2>2, <2>3
  <2>5. QED
    BY <1>2, <2>1, <2>2, <2>3, <2>4 DEF Doubled
<1>8. CASE PartFails
  <2>1. /\ writer = "part" /\ UNCHANGED <<run, skip, seen, flight, buf>> /\ landed \in BOOLEAN
        /\ \/ ~landed' /\ doubts' = doubts
           \/ landed' /\ landed /\ doubts' = doubts
           \/ landed' /\ ~landed /\ doubts' = doubts + 1
    BY <1>1, <1>8 DEF PartFails, reader, TypeOK
  <2>2. /\ FlushEvery * (doubts + 1) = FlushEvery * doubts + FlushEvery
    BY <1>2, Flushes
  <2>3. CASE landed' /\ writer' = "idle" /\ failed' /\ AddsPart
    <3>1. Coming' = {} /\ Again' \in SUBSET ResultsOf(buf) /\ Landed' = 0
      BY <2>1, <2>3 DEF Again, Coming, Buffered, Reading, Landed
    <3>2. /\ Cardinality(Results') + Cardinality(OkIds \cap Coming) + Landed <= Cardinality(OkIds') + FlushEvery * doubts
          /\ Cardinality(ResultsOf(buf)) <= FlushEvery
          /\ Cardinality(Results') \in Nat /\ Cardinality(OkIds') \in Nat
      BY <1>1, <2>3, DoubledAdded
    <3>3. Cardinality(Again') <= FlushEvery /\ Cardinality(Again') \in Nat
      <4>1. ResultsOf(buf) \in SUBSET Ids /\ Again' \in SUBSET Ids
        BY <1>1, <3>1, BufferIds
      <4>2. /\ Cardinality(Again') <= Cardinality(ResultsOf(buf)) /\ Cardinality(Again') \in Nat
            /\ Cardinality(ResultsOf(buf)) \in Nat
        BY <3>1, <4>1, SmallerIds, FiniteIds
      <4>3. QED
        BY <1>2, <3>2, <4>2
    <3>4. CASE landed
      <4>1. Landed = FlushEvery /\ doubts' = doubts
        BY <2>1, <2>3, <3>4 DEF Landed
      <4>2. QED
        BY <1>2, <3>1, <3>2, <3>3, <4>1 DEF Doubled
    <3>5. CASE ~landed
      <4>1. doubts' = doubts + 1
        BY <2>1, <2>3, <3>5
      <4>2. QED
        BY <1>2, <2>2, <3>1, <3>2, <3>3, <4>1 DEF Doubled
    <3>6. QED
      BY <3>4, <3>5
  <2>4. CASE UNCHANGED parts /\ (UNCHANGED failed \/ failed') /\ (~landed' \/ UNCHANGED writer)
    <3>1. KeepsRecs
      BY <2>4 DEF KeepsRecs
    <3>2. Coming' \cup Buffered' \subseteq Coming \cup Buffered
      BY <2>1, <2>4 DEF Coming, Buffered, Reading
    <3>3. CASE doubts' = doubts
      BY <1>2, <1>6, <2>1, <3>1, <3>2, <3>3
    <3>4. CASE landed' /\ ~landed /\ doubts' = doubts + 1
      <4>1. OkIds' = OkIds /\ Results' = Results
        BY <1>1, <3>1, KeptResults
      <4>2. Again' \in SUBSET Again /\ Again \in SUBSET Ids /\ Landed = 0 /\ Landed' \in {0, FlushEvery}
        BY <1>1, <3>2, <3>4, <4>1, OkIdsFinite DEF Again, Landed
      <4>3. /\ Cardinality(Again') <= Cardinality(Again)
            /\ Cardinality(Again') \in Nat /\ Cardinality(Again) \in Nat
        <5>1. Again' \in SUBSET Ids
          BY <4>2
        <5>2. QED
          BY <4>2, <5>1, SmallerIds, FiniteIds
      <4>4. Cardinality(Results) \in Nat /\ Cardinality(OkIds) \in Nat
        BY <1>1, OkIdsFinite, FiniteIds
      <4>5. QED
        BY <1>2, <2>2, <3>4, <4>1, <4>2, <4>3, <4>4 DEF Doubled
    <3>5. QED
      BY <2>1, <3>3, <3>4
  <2>5. QED
    BY <1>8, <2>1, <2>3, <2>4 DEF PartFails, AddsPart
<1>9. CASE ManifestWritten \/ ManifestFails
  <2>1. /\ writer = "index" /\ writer' = "idle" /\ buf' = {}
        /\ UNCHANGED <<run, failed, skip, seen, flight, landed, doubts>>
    BY <1>9 DEF ManifestWritten, ManifestFails, Indexed, reader, spent
  <2>2. Coming' = Coming /\ Buffered' = {}
    BY <2>1 DEF Coming, Buffered, Reading, ResultsOf
  <2>3. KeepsRecs
    BY <2>1, PartsStep DEF AddsPart
  <2>4. QED
    BY <1>6, <2>1, <2>2, <2>3
<1>10. CASE ReadRow
  <2>1. /\ UNCHANGED <<parts, run, failed, skip, buf, writer, landed, doubts>>
        /\ \/ UNCHANGED <<seen, flight>>
           \/ \E i : i \notin skip \cup seen /\ i \in Ids /\ seen' = seen \cup {i} /\ flight' = flight \cup {i}
    BY <1>10, <1>1, InputType DEF ReadRow, storage, flush, spent, Seen, TypeOK
  <2>2. Coming' \subseteq Coming /\ Buffered' = Buffered /\ KeepsRecs
    BY <2>1 DEF Coming, Buffered, Reading, KeepsRecs
  <2>3. QED
    BY <1>6, <2>1, <2>2
<1>11. ASSUME NEW i \in Ids, NEW e \in BOOLEAN, RowDone(i, e) PROVE Doubled'
  <2> DEFINE b == buf \cup {Rec(i, e)}
  <2>1. /\ Reading /\ run = "reading" /\ writer = "idle" /\ i \in flight /\ flight' = flight \ {i}
        /\ i \notin BufIds /\ UNCHANGED <<parts, run, failed, skip, seen, doubts>>
    BY <1>11 DEF RowDone, Reading, storage, spent, Batches
  <2>2. b \in SUBSET [id : Ids, error : BOOLEAN] /\ OneRecord(b) /\ IdsOf(b) = BufIds \cup {i}
    BY <1>1, <2>1, DoneRecord
  <2>3. ResultsOf(b) \subseteq ResultsOf(buf) \cup {i}
    BY DEF ResultsOf, Rec
  <2> HIDE DEF b
  <2>4. CASE StartFlush(b)
    <3>1. ResultsOf(buf') \subseteq ResultsOf(b) /\ ~landed'
      BY <2>2, <2>4, FlushRecords DEF StartFlush
    <3>2. Coming' \cup Buffered' \subseteq Coming \cup Buffered
      BY <2>1, <2>3, <3>1 DEF Coming, Buffered, Reading
    <3>3. KeepsRecs
      BY <2>1 DEF KeepsRecs
    <3>4. QED
      BY <1>6, <2>1, <3>1, <3>2, <3>3
  <2>5. CASE buf' = b /\ UNCHANGED flush
    <3>1. Coming' \cup Buffered' \subseteq Coming \cup Buffered
      BY <2>1, <2>3, <2>5 DEF Coming, Buffered, Reading
    <3>2. KeepsRecs
      BY <2>1 DEF KeepsRecs
    <3>3. QED
      BY <1>6, <2>1, <2>5, <3>1, <3>2 DEF flush
  <2>6. QED
    BY <1>11, <2>4, <2>5 DEF RowDone, b
<1>12. CASE (QuietFlush \/ LastFlush) /\ StartFlush(buf)
  <2>1. /\ writer = "idle" /\ run \in {"reading", "closing"} /\ run' \in {run, "ending"}
        /\ UNCHANGED <<parts, failed, skip, seen, flight, doubts>>
    BY <1>12 DEF QuietFlush, LastFlush, Reading, storage, reader, spent
  <2>2. ResultsOf(buf') \subseteq ResultsOf(buf) /\ ~landed'
    <3>1. buf \in SUBSET [id : Ids, error : BOOLEAN] /\ OneRecord(buf)
      BY <1>1, BufferIds DEF Batches
    <3>2. QED
      BY <1>12, <3>1, FlushRecords DEF StartFlush
  <2>3. Coming' \cup Buffered' \subseteq Coming \cup Buffered
    BY <2>1, <2>2 DEF Coming, Buffered, Reading
  <2>4. KeepsRecs
    BY <2>1 DEF KeepsRecs
  <2>5. QED
    BY <1>6, <2>1, <2>2, <2>3, <2>4
<1>13. CASE EndReached \/ RunFails \/ (LastFlush /\ buf = {} /\ UNCHANGED <<buf, demoted, flush>>)
            \/ (Drained /\ run' = "returned" /\ UNCHANGED <<failed, reader, buf, flush>>) \/ UNCHANGED vars
  <2>1. /\ UNCHANGED <<parts, skip, seen, flight, buf, writer, landed, doubts>>
        /\ Reading' => Reading
        /\ \/ run' = run
           \/ run = "reading" /\ run' = "closing"
           \/ writer = "idle" /\ run' \in {"ending", "returned"}
    BY <1>13 DEF EndReached, RunFails, LastFlush, Drained, Reading, storage, reader, flush, spent, vars
  <2>2. Coming' \cup Buffered' \subseteq Coming \cup Buffered /\ KeepsRecs
    BY <2>1 DEF Coming, Buffered, KeepsRecs
  <2>3. QED
    BY <1>6, <2>1, <2>2
<1>14. CASE Certify
  BY <1>4, <1>14 DEF Certify, KeepsRecs, spent
<1>15. CASE Crash
  BY <1>4, <1>5, <1>15, PartsStep DEF Crash
<1>16. CASE Drained /\ Forget
  BY <1>4, <1>16 DEF Drained, KeepsRecs, storage, spent
<1>17. QED
  BY <1>3, <1>7, <1>8, <1>9, <1>10, <1>11, <1>12, <1>13, <1>14, <1>15, <1>16
  DEF Next, Goes, QuietFlush, LastFlush, Drained, Over

\* "At most one flush of rework": whatever fails, is killed or cannot be read, the results
\* stored once more are at most a flush for each failed write that landed and each part that
\* could not be read; a crash between a part and its manifest costs none.
THEOREM ReworkAlwaysBounded == Spec => []ReworkBounded
<1>1. Init => Doubled
  <2>1. ASSUME Init PROVE Results = {} /\ Again = {} /\ OkIds = {} /\ Landed = 0 /\ doubts = 0
    BY <2>1 DEF Init, Results, Again, OkIds, Landed
  <2>2. Cardinality({}) = 0 /\ FlushEvery * 0 = 0
    BY FS_EmptySet, StorageAssumption
  <2>3. ASSUME Init PROVE Cardinality(Results) = 0 /\ Cardinality(Again) = 0 /\ Cardinality(OkIds) = 0
                          /\ Landed = 0 /\ doubts = 0
    BY <2>1, <2>2, <2>3
  <2>4. QED
    BY <2>2, <2>3 DEF Doubled
<1>2. SInv /\ Batches /\ Doubled /\ [Next]_vars => Doubled'
  BY DoubledStep
<1>3. SInv /\ Doubled => ReworkBounded
  <2>1. SUFFICES ASSUME SInv, Doubled PROVE ReworkBounded
    OBVIOUS
  <2>2. /\ Cardinality(Results) \in Nat /\ Cardinality(Again) \in Nat /\ Cardinality(OkIds) \in Nat
        /\ Landed \in Nat /\ FlushEvery * doubts \in Nat
    BY <2>1, OkIdsFinite, FiniteIds, DoubtsNat DEF SInv
  <2>3. QED
    BY <2>1, <2>2 DEF Doubled, ReworkBounded
<1>4. QED
  BY <1>1, <1>2, <1>3, AlwaysSInv, AlwaysBatches, PTL DEF Spec

=============================================================================
