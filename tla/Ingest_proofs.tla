----------------------------- MODULE Ingest_proofs -----------------------------
(***************************************************************************)
(* Theorems about Ingest, for any number of processes, objects and shards, *)
(* any window, any kills and failures.                                     *)
(*                                                                         *)
(* The files of a directory that several processes write at once are whole,*)
(* and keep the promise of an output: both rest on one fact about a step,  *)
(* that it leaves the files alone, or replaces one by a whole one.         *)
(*                                                                         *)
(* What is read ahead comes out in order and stays within its window: the  *)
(* objects a process reads are in pieces, which are the results taken, the *)
(* call that is due, the calls pending and what is left, and each piece    *)
(* says how far its calls can be.                                          *)
(***************************************************************************)
EXTENDS Ingest, SequenceTheorems, FiniteSetTheorems, TLAPS

\* As much of the types as the files need.
DirectoryTypes ==
  /\ files \in [Ids -> F!FileStates] /\ temps \in [F!TempNames -> F!FileStates]
  /\ done \in [Runs -> SUBSET Ids]

FilesInv == DirectoryTypes /\ F!FilesWhole

\* What a step may do to the files, and to what a run skips.
Replaces == files' = files \/ \E i \in Ids : files' = [files EXCEPT ![i] = "whole"]
Skips    == done' = done \/ \E r \in Runs : \/ done' = [done EXCEPT ![r] = F!Existing]
                                            \/ done' = [done EXCEPT ![r] = {}]
Writing  == temps' \in [F!TempNames -> F!FileStates]

\* A step of a process on its directory and on what it skips is one of these.
GoodStep == Replaces /\ Skips /\ Writing

\* None of them breaks the invariant: a file only ever becomes whole, and what a run begins
\* to skip has a file then.
LEMMA GoodStepsKeep == ASSUME FilesInv, GoodStep PROVE FilesInv'
<1>1. files' \in [Ids -> F!FileStates]
  BY DEF FilesInv, GoodStep, DirectoryTypes, Replaces, F!FileStates
<1>2. \A i \in Ids : files'[i] # "partial" /\ (files[i] = "whole" => files'[i] = "whole")
  BY DEF FilesInv, GoodStep, DirectoryTypes, Replaces, F!FilesWhole
<1>3. \A i \in F!Existing : files[i] = "whole"
  BY DEF FilesInv, DirectoryTypes, F!FilesWhole, F!Existing, F!FileStates
<1>4. F!Existing \subseteq Ids
  BY DEF F!Existing
<1>5. done' \in [Runs -> SUBSET Ids]
  BY <1>4 DEF FilesInv, GoodStep, DirectoryTypes, Skips
<1>6. \A r \in Runs : \A i \in done'[r] : files[i] = "whole"
  BY <1>3, <1>4 DEF FilesInv, GoodStep, DirectoryTypes, Skips, F!FilesWhole
<1>7. QED
  BY <1>1, <1>2, <1>5, <1>6 DEF FilesInv, DirectoryTypes, F!FilesWhole, GoodStep, Writing

-----------------------------------------------------------------------------
(* Every step is such a step.                                               *)

\* The reading ahead, and what ends or stops a run without a write, touch no file.
LEMMA NoFileTouched ==
  ASSUME DirectoryTypes, UNCHANGED <<files, temps, done>>
  PROVE  GoodStep
BY DEF DirectoryTypes, GoodStep, Replaces, Skips, Writing

\* A run that begins skips what has a file.
LEMMA BeginIsGood ==
  ASSUME DirectoryTypes, NEW r \in Runs, F!Begin(r)
  PROVE  GoodStep
BY DEF DirectoryTypes, GoodStep, Replaces, Skips, Writing, F!Begin, F!directory

\* A row that is accepted opens a temporary file of the run's own.
LEMMA AcceptedIsGood ==
  ASSUME DirectoryTypes, NEW r \in Runs, NEW i \in Ids, F!RowAccepted(r, i)
  PROVE  GoodStep
BY DEF DirectoryTypes, GoodStep, Replaces, Skips, Writing, F!RowAccepted, F!FileStates

\* What replaces a file is a temporary one that is whole.
LEMMA WritesAreGood ==
  ASSUME DirectoryTypes, NEW r \in Runs, F!Writes(r)
  PROVE  GoodStep
<1>1. CASE F!Text(r)
  BY <1>1 DEF DirectoryTypes, GoodStep, Replaces, Skips, Writing, F!Text, F!rows, F!FileStates
<1>2. CASE F!Replace(r)
  <2>1. UNCHANGED done /\ Writing
    BY <1>2 DEF DirectoryTypes, Writing, F!Replace, F!rows, F!FileStates
  <2>2. files' = [files EXCEPT ![writing[r]] = "whole"]
    BY <1>2 DEF F!Replace
  <2>3. writing[r] \notin Ids => files' = files
    BY <2>2 DEF DirectoryTypes
  <2>4. QED
    BY <2>1, <2>2, <2>3 DEF GoodStep, Replaces, Skips
<1>3. QED
  BY <1>1, <1>2 DEF F!Writes

\* A process that is over leaves its files and forgets what it skipped.
LEMMA GoneIsGood ==
  ASSUME DirectoryTypes, NEW r \in Runs, F!Gone(r)
  PROVE  GoodStep
BY DEF DirectoryTypes, GoodStep, Replaces, Skips, Writing, F!Gone, F!directory

\* Of the steps of a whole run, only the rows and the writer touch the directory.
LEMMA EveryStepIsGood == ASSUME DirectoryTypes, [Next]_vars PROVE GoodStep
<1>1. ASSUME NEW r \in Runs, ReadsAhead(r) \/ PoolGoes(r) \/ ReadFails(r) \/ Drops(r) PROVE GoodStep
  BY <1>1, NoFileTouched DEF ReadsAhead, PoolGoes, ReadFails, Drops, fileVars
<1>2. ASSUME NEW r \in Runs, RowRead(r) PROVE GoodStep
  BY <1>2, NoFileTouched DEF RowRead, F!Row, F!directory, fileVars
<1>3. ASSUME NEW r \in Runs, RowEnds(r) PROVE GoodStep
  BY <1>3, NoFileTouched, AcceptedIsGood DEF RowEnds, F!RowRejected, F!directory
<1>4. ASSUME NEW r \in Runs, RowFails(r) PROVE GoodStep
  BY <1>4, NoFileTouched DEF RowFails, F!RowFails, F!directory
<1>5. ASSUME NEW r \in Runs, WriteFails(r) PROVE GoodStep
  BY <1>5, NoFileTouched DEF WriteFails, F!WriteFails, F!directory
<1>6. ASSUME NEW r \in Runs, Writes(r) PROVE GoodStep
  BY <1>6, WritesAreGood DEF Writes
<1>7. ASSUME NEW r \in Runs, Returns(r) \/ Killed(r) PROVE GoodStep
  BY <1>7, GoneIsGood DEF Returns, Killed
<1>8. ASSUME NEW r \in Runs, NEW k \in Ranks, Start(r, k) PROVE GoodStep
  BY <1>8, BeginIsGood DEF Start
<1>9. CASE Over \/ UNCHANGED vars
  BY <1>9, NoFileTouched DEF Over, vars, fileVars
<1>10. QED
  BY <1>1, <1>2, <1>3, <1>4, <1>5, <1>6, <1>7, <1>8, <1>9 DEF Next, Goes

-----------------------------------------------------------------------------
(* The theorems about the files.                                            *)

\* The directory is empty at first.
LEMMA NothingAtFirst == Init => FilesInv
BY DEF Init, F!Init, FilesInv, DirectoryTypes, F!FilesWhole, F!FileStates

\* The directory's invariant, of every state.
LEMMA AlwaysFilesInv == Spec => []FilesInv
<1>1. FilesInv /\ [Next]_vars => FilesInv'
  BY EveryStepIsGood, GoodStepsKeep DEF FilesInv
<1>2. QED
  BY <1>1, NothingAtFirst, PTL DEF Spec

\* "No truncated files on crash": over any number of processes that write to one directory,
\* are killed, or meet a full disk, a file that has a row's name is whole, and an id that a
\* run skips has its result.
THEOREM FilesAlwaysWhole == Spec => []FilesWhole
BY AlwaysFilesInv, PTL DEF FilesInv, FilesWhole

\* One file per row implements Output: an id that has its result keeps it, over all runs.
THEOREM FilesImplementOutput == Spec => FilesKeepPromise
<1> DEFINE record == [i \in Ids |-> IF files[i] = "whole" THEN "ok" ELSE "none"]
<1>1. Init => F!Promise!Init
  BY DEF Init, F!Init, F!Promise!Init
<1>2. FilesInv /\ [Next]_vars => [F!Promise!Next]_<<record, FALSE>>
  <2>1. SUFFICES ASSUME FilesInv, [Next]_vars PROVE F!Promise!Store
    BY DEF F!Promise!Next
  <2>2. \A i \in Ids : files[i] = "whole" => files'[i] = "whole"
    BY <2>1, EveryStepIsGood DEF FilesInv, DirectoryTypes, GoodStep, Replaces
  <2>3. record' \in [Ids -> F!Promise!Kinds]
    BY DEF F!Promise!Kinds
  <2>4. ASSUME NEW i \in Ids PROVE F!Promise!Rank(record[i]) <= F!Promise!Rank(record'[i])
    BY <2>2 DEF F!Promise!Rank
  <2>5. QED
    BY <2>3, <2>4 DEF F!Promise!Store
<1>3. QED
  BY <1>1, <1>2, AlwaysFilesInv, PTL DEF Spec, FilesKeepPromise, F!FilesKeepPromise, F!Promise!Spec

-----------------------------------------------------------------------------
(* Reading ahead.                                                           *)

Objects == ToSet(Paths)
CallStates == {"none", "queued", "running", "ok", "error", "cancelled"}

\* One process' read-ahead: i is what it maps over, in pieces: the results taken, the call that
\* is due, those pending, and what is left.
Pieces(i, l, p, c, t) ==
  LET d == IF c = NoId THEN 0 ELSE 1 IN
  /\ Len(i) = Len(t) + d + Len(p) + Len(l)
  /\ \A n \in 1..Len(t) : t[n] = i[n]
  /\ c # NoId => c = i[Len(t) + 1]
  /\ \A n \in 1..Len(p) : p[n] = i[Len(t) + d + n]
  /\ \A n \in 1..Len(l) : l[n] = i[Len(t) + d + Len(p) + n]

\* The calls follow the pieces: those whose result was taken are done, those left not made.
Called(i, l, k, t) ==
  /\ \A n \in 1..Len(i) : /\ n <= Len(t) => k[i[n]] = "ok"
                          /\ n > Len(i) - Len(l) => k[i[n]] = "none"
  /\ \A x \in Objects : k[x] # "none" => \E n \in 1..Len(i) : i[n] = x

\* Where the generator stands.
Stands(i, l, p, c, k, g, f) ==
  /\ g = "off" => i = <<>>
  /\ g \in {"off", "prime", "yielded"} => c = NoId
  /\ g = "waiting" => c # NoId
  /\ Len(p) <= Prefetch /\ (g \in {"waiting", "yielded"} => l = <<>> \/ Len(p) = Prefetch)
  /\ g \in {"closing", "closed"} => \A x \in Objects : k[x] # "queued"
  /\ g = "closed" => \A x \in Objects : k[x] # "running"
  /\ f # "none" => g \in {"closing", "closed"}
  /\ f = "raised" => c # NoId /\ k[c] = "error"
  /\ f = "end" => p = <<>> /\ l = <<>> /\ c = NoId

Kinds(i, l, p, c, k, g, f, t) ==
  /\ i \in Seq(Objects) /\ l \in Seq(Objects) /\ p \in Seq(Objects) /\ t \in Seq(Objects)
  /\ c \in Objects \cup {NoId} /\ k \in [Objects -> CallStates] /\ g \in A!States
  /\ f \in {"none", "end", "raised", "input", "dropped"}
  /\ \A m, n \in 1..Len(i) : i[m] = i[n] => m = n

Reads(i, l, p, c, k, g, f, t) ==
  Kinds(i, l, p, c, k, g, f, t) /\ Pieces(i, l, p, c, t) /\ Called(i, l, k, t) /\ Stands(i, l, p, c, k, g, f)

ReadInv ==
  /\ A!TypeOK
  /\ \A r \in Runs :
       Reads(items[r], left[r], pending[r], current[r], call[r], gen[r], fate[r], taken[r])

-----------------------------------------------------------------------------
\* What is known of the constants.
LEMMA Bounds == /\ Prefetch \in Nat /\ Prefetch >= 1 /\ NoId \notin Objects
                /\ Paths \in Seq(Objects)
BY IngestAssumption DEF A!AheadConstants, Objects

\* Where an object stands in the input, given where it is in a piece.
LEMMA PieceLengths ==
  ASSUME NEW i, NEW l, NEW p, NEW c, NEW k, NEW g, NEW f, NEW t, Kinds(i, l, p, c, k, g, f, t)
  PROVE  /\ Len(i) \in Nat /\ Len(l) \in Nat /\ Len(p) \in Nat /\ Len(t) \in Nat
         /\ \A n \in 1..Len(i) : i[n] \in Objects
         /\ \A n \in 1..Len(l) : l[n] \in Objects
         /\ \A n \in 1..Len(p) : p[n] \in Objects
         /\ \A n \in 1..Len(t) : t[n] \in Objects
         /\ (l = <<>> <=> Len(l) = 0) /\ (p = <<>> <=> Len(p) = 0)
         /\ (t = <<>> <=> Len(t) = 0) /\ (i = <<>> <=> Len(i) = 0)
BY ElementOfSeq, EmptySeq, LenProperties DEF Kinds

\* The listing is opened: all of it is left.
LEMMA OpenReads ==
  ASSUME NEW i, NEW l, NEW p, NEW c, NEW k, NEW g, NEW f, NEW t, Reads(i, l, p, c, k, g, f, t),
         NEW s \in Seq(Objects), \A m, n \in 1..Len(s) : s[m] = s[n] => m = n,
         g = "off"
  PROVE  Reads(s, s, p, c, k, "prime", f, t)
<1>1. Kinds(i, l, p, c, k, g, f, t) /\ Pieces(i, l, p, c, t) /\ Called(i, l, k, t) /\ Stands(i, l, p, c, k, g, f)
  BY DEF Reads
<1>2. i = <<>> /\ c = NoId /\ f = "none"
  BY <1>1 DEF Stands
<1>3. Len(i) = 0 /\ Len(p) = 0 /\ Len(t) = 0 /\ Len(s) \in Nat /\ p = <<>> /\ t = <<>>
  BY <1>1, <1>2, PieceLengths, EmptySeq DEF Pieces
<1>4. \A x \in Objects : k[x] = "none"
  BY <1>1, <1>3 DEF Called
<1>5. \A n \in 1..Len(s) : s[n] \in Objects
  BY ElementOfSeq
<1>6. Pieces(s, s, p, c, t)
  BY <1>2, <1>3 DEF Pieces
<1>7. Called(s, s, k, t)
  BY <1>3, <1>4, <1>5 DEF Called
<1>8. Stands(s, s, p, c, k, "prime", f)
  BY <1>2, <1>3, Bounds DEF Stands
<1>9. Kinds(s, s, p, c, k, "prime", f, t)
  BY <1>1 DEF Kinds, A!States
<1>10. QED
  BY <1>6, <1>7, <1>8, <1>9 DEF Reads

\* A pull: the head of what is left moves to the end of the calls pending; q is what is pending then.
LEMMA PulledCalls ==
  ASSUME NEW i, NEW l, NEW p, NEW c, NEW k, NEW g, NEW f, NEW t, Reads(i, l, p, c, k, g, f, t),
         l # <<>>
  PROVE  /\ Called(i, Tail(l), [k EXCEPT ![Head(l)] = "queued"], t)
         /\ [k EXCEPT ![Head(l)] = "queued"] \in [Objects -> CallStates]
         /\ Tail(l) \in Seq(Objects) /\ Head(l) \in Objects /\ Len(Tail(l)) = Len(l) - 1
         /\ Head(l) = l[1] /\ \A n \in 1..Len(Tail(l)) : Tail(l)[n] = l[n + 1]
<1>1. Kinds(i, l, p, c, k, g, f, t) /\ Pieces(i, l, p, c, t) /\ Called(i, l, k, t)
  BY DEF Reads
<1>2. /\ Head(l) \in Objects /\ Tail(l) \in Seq(Objects) /\ Len(Tail(l)) = Len(l) - 1
      /\ \A n \in 1..Len(Tail(l)) : Tail(l)[n] = l[n + 1]
      /\ Head(l) = l[1]
  BY <1>1, HeadTailProperties DEF Kinds
<1> DEFINE k1 == [k EXCEPT ![Head(l)] = "queued"]
<1> DEFINE h == Len(i) - Len(l) + 1
<1>3. Len(l) \in Nat /\ Len(l) >= 1 /\ Len(i) \in Nat /\ Len(t) \in Nat /\ Len(p) \in Nat
  BY <1>1, PieceLengths
<1>4. h \in 1..Len(i) /\ h > Len(t) /\ i[h] = Head(l)
  <2>1. CASE c = NoId
    BY <2>1, <1>1, <1>2, <1>3 DEF Pieces
  <2>2. CASE c # NoId
    BY <2>2, <1>1, <1>2, <1>3 DEF Pieces
  <2>3. QED
    BY <2>1, <2>2
<1>5. k \in [Objects -> CallStates] /\ k1 \in [Objects -> CallStates]
  BY <1>1 DEF Kinds, CallStates
<1>6. \A n \in 1..Len(i) : i[n] \in Objects /\ (n # h => i[n] # Head(l))
  BY <1>1, <1>4, PieceLengths DEF Kinds
<1>7. \A n \in 1..Len(i) : n # h => k1[i[n]] = k[i[n]]
  BY <1>5, <1>6
<1> HIDE DEF h, k1
<1>8. \A n \in 1..Len(i) : n <= Len(t) => k1[i[n]] = "ok"
  BY <1>1, <1>3, <1>4, <1>7 DEF Called
<1>9. \A n \in 1..Len(i) : n > Len(i) - Len(Tail(l)) => n # h /\ n > Len(i) - Len(l)
  BY <1>2, <1>3 DEF h
<1>10. \A n \in 1..Len(i) : n > Len(i) - Len(Tail(l)) => k1[i[n]] = "none"
  BY <1>1, <1>7, <1>9 DEF Called
<1>11. \A x \in Objects : k1[x] # "none" => \E n \in 1..Len(i) : i[n] = x
  <2>1. SUFFICES ASSUME NEW x \in Objects, k1[x] # "none" PROVE \E n \in 1..Len(i) : i[n] = x
    OBVIOUS
  <2>2. CASE x = Head(l)
    BY <2>2, <1>4
  <2>3. CASE x # Head(l)
    BY <2>1, <2>3, <1>1, <1>5 DEF Called, k1
  <2>4. QED
    BY <2>2, <2>3
<1>12. Called(i, Tail(l), k1, t)
  BY <1>8, <1>10, <1>11 DEF Called
<1>13. QED
  BY <1>2, <1>5, <1>12 DEF k1

\* The pieces around a pull.
LEMMA PulledPieces ==
  ASSUME NEW i \in Seq(Objects), NEW l \in Seq(Objects), NEW p \in Seq(Objects), NEW t \in Seq(Objects),
         NEW c, Pieces(i, l, p, c, t), l # <<>>
  PROVE  /\ Pieces(i, Tail(l), Append(p, Head(l)), c, t)
         /\ Append(p, Head(l)) \in Seq(Objects) /\ Len(Append(p, Head(l))) = Len(p) + 1
<1>1. /\ Head(l) \in Objects /\ Tail(l) \in Seq(Objects) /\ Len(Tail(l)) = Len(l) - 1
      /\ \A n \in 1..Len(Tail(l)) : Tail(l)[n] = l[n + 1]
      /\ Head(l) = l[1]
  BY HeadTailProperties
<1>2. /\ Append(p, Head(l)) \in Seq(Objects) /\ Len(Append(p, Head(l))) = Len(p) + 1
      /\ \A n \in 1..Len(p) : Append(p, Head(l))[n] = p[n]
      /\ Append(p, Head(l))[Len(p) + 1] = Head(l)
  BY <1>1, AppendProperties
<1>3. Len(i) \in Nat /\ Len(l) \in Nat /\ Len(p) \in Nat /\ Len(t) \in Nat /\ Len(l) >= 1
  BY LenProperties, EmptySeq
<1> DEFINE d == IF c = NoId THEN 0 ELSE 1
<1>4. d \in Nat
  OBVIOUS
<1>5. /\ Len(i) = Len(t) + d + Len(p) + Len(l)
      /\ \A n \in 1..Len(t) : t[n] = i[n]
      /\ c # NoId => c = i[Len(t) + 1]
      /\ \A n \in 1..Len(p) : p[n] = i[Len(t) + d + n]
      /\ \A n \in 1..Len(l) : l[n] = i[Len(t) + d + Len(p) + n]
  BY DEF Pieces
<1> HIDE DEF d
<1> DEFINE p1 == Append(p, Head(l))
<1> DEFINE l1 == Tail(l)
<1>6. \A n \in 1..Len(p) + 1 : p1[n] = i[Len(t) + d + n]
  <2>1. \A n \in 1..Len(p) : p1[n] = i[Len(t) + d + n]
    BY <1>2, <1>5
  <2>2. 1 \in 1..Len(l) /\ l[1] = i[Len(t) + d + Len(p) + 1]
    BY <1>3, <1>5
  <2>3. Len(t) + d + Len(p) + 1 = Len(t) + d + (Len(p) + 1)
    BY <1>3, <1>4
  <2>4. p1[Len(p) + 1] = i[Len(t) + d + (Len(p) + 1)]
    BY <1>1, <1>2, <2>2, <2>3
  <2>5. QED
    BY <1>3, <2>1, <2>4
<1>7. \A n \in 1..Len(l1) : l1[n] = i[Len(t) + d + (Len(p) + 1) + n]
  <2>1. SUFFICES ASSUME NEW n \in 1..Len(l1) PROVE l1[n] = i[Len(t) + d + (Len(p) + 1) + n]
    OBVIOUS
  <2>2. n + 1 \in 1..Len(l) /\ l1[n] = l[n + 1]
    BY <1>1, <1>3
  <2>3. l[n + 1] = i[Len(t) + d + Len(p) + (n + 1)]
    BY <1>5, <2>2
  <2>4. Len(t) + d + Len(p) + (n + 1) = Len(t) + d + (Len(p) + 1) + n
    BY <1>3, <1>4
  <2>5. QED
    BY <2>2, <2>3, <2>4
<1>8. Len(i) = Len(t) + d + (Len(p) + 1) + Len(l1)
  BY <1>1, <1>3, <1>4, <1>5
<1>9. Pieces(i, l1, p1, c, t)
  BY <1>2, <1>5, <1>6, <1>7, <1>8 DEF Pieces, d
<1>10. QED
  BY <1>2, <1>9

\* The oldest call is taken out.
LEMMA DuePieces ==
  ASSUME NEW i \in Seq(Objects), NEW l \in Seq(Objects), NEW p \in Seq(Objects), NEW t \in Seq(Objects),
         Pieces(i, l, p, NoId, t), p # <<>>
  PROVE  /\ Pieces(i, l, Tail(p), Head(p), t) /\ Head(p) \in Objects /\ Head(p) # NoId
         /\ Tail(p) \in Seq(Objects) /\ Len(Tail(p)) = Len(p) - 1
<1>1. /\ Head(p) \in Objects /\ Tail(p) \in Seq(Objects) /\ Len(Tail(p)) = Len(p) - 1
      /\ \A n \in 1..Len(Tail(p)) : Tail(p)[n] = p[n + 1]
      /\ Head(p) = p[1] /\ Head(p) # NoId
  BY HeadTailProperties, Bounds
<1>2. Len(i) \in Nat /\ Len(l) \in Nat /\ Len(p) \in Nat /\ Len(t) \in Nat /\ Len(p) >= 1
  BY LenProperties, EmptySeq
<1>3. /\ Len(i) = Len(t) + Len(p) + Len(l)
      /\ \A n \in 1..Len(t) : t[n] = i[n]
      /\ \A n \in 1..Len(p) : p[n] = i[Len(t) + n]
      /\ \A n \in 1..Len(l) : l[n] = i[Len(t) + Len(p) + n]
  BY <1>2 DEF Pieces
<1> DEFINE q == Tail(p)
<1>4. Head(p) = i[Len(t) + 1]
  BY <1>1, <1>2, <1>3
<1>5. \A n \in 1..Len(q) : q[n] = i[Len(t) + 1 + n]
  <2>1. SUFFICES ASSUME NEW n \in 1..Len(q) PROVE q[n] = i[Len(t) + 1 + n]
    OBVIOUS
  <2>2. n + 1 \in 1..Len(p) /\ q[n] = p[n + 1] /\ Len(t) + (n + 1) = Len(t) + 1 + n
    BY <1>1, <1>2
  <2>3. QED
    BY <1>3, <2>2
<1>6. \A n \in 1..Len(l) : l[n] = i[Len(t) + 1 + Len(q) + n]
  BY <1>1, <1>2, <1>3
<1>7. Len(i) = Len(t) + 1 + Len(q) + Len(l)
  BY <1>1, <1>2, <1>3
<1> HIDE DEF q
<1>8. Pieces(i, l, q, Head(p), t)
  BY <1>1, <1>3, <1>4, <1>5, <1>6, <1>7 DEF Pieces
<1>9. QED
  BY <1>1, <1>8 DEF q

\* The window is primed: one call more is pending.
LEMMA PrimeReads ==
  ASSUME NEW i, NEW l, NEW p, NEW c, NEW k, NEW f, NEW t, Reads(i, l, p, c, k, "prime", f, t),
         l # <<>>, Len(p) < Prefetch
  PROVE  Reads(i, Tail(l), Append(p, Head(l)), c, [k EXCEPT ![Head(l)] = "queued"], "prime", f, t)
<1>1. Kinds(i, l, p, c, k, "prime", f, t) /\ Pieces(i, l, p, c, t) /\ Stands(i, l, p, c, k, "prime", f)
  BY DEF Reads
<1>2. i \in Seq(Objects) /\ l \in Seq(Objects) /\ p \in Seq(Objects) /\ t \in Seq(Objects)
  BY <1>1 DEF Kinds
<1>3. /\ Pieces(i, Tail(l), Append(p, Head(l)), c, t)
      /\ Append(p, Head(l)) \in Seq(Objects) /\ Len(Append(p, Head(l))) = Len(p) + 1
  BY <1>1, <1>2, PulledPieces
<1>4. /\ Called(i, Tail(l), [k EXCEPT ![Head(l)] = "queued"], t)
      /\ [k EXCEPT ![Head(l)] = "queued"] \in [Objects -> CallStates]
      /\ Tail(l) \in Seq(Objects)
  BY PulledCalls
<1>5. Len(p) \in Nat /\ Prefetch \in Nat
  BY <1>1, PieceLengths, Bounds
<1>6. Stands(i, Tail(l), Append(p, Head(l)), c, [k EXCEPT ![Head(l)] = "queued"], "prime", f)
  BY <1>1, <1>3, <1>5 DEF Stands
<1>7. Kinds(i, Tail(l), Append(p, Head(l)), c, [k EXCEPT ![Head(l)] = "queued"], "prime", f, t)
  BY <1>1, <1>3, <1>4 DEF Kinds
<1>8. QED
  BY <1>3, <1>4, <1>6, <1>7 DEF Reads

\* What the generator goes on from, when it takes a call out or ends.
Rolls(l, p, g) == g = "yielded" \/ (g = "prime" /\ (l = <<>> \/ Len(p) >= Prefetch))

\* One out, one in: a call becomes due, and another pending while there are any.
LEMMA RollReads ==
  ASSUME NEW i, NEW l, NEW p, NEW c, NEW k, NEW g, NEW f, NEW t, Reads(i, l, p, c, k, g, f, t),
         Rolls(l, p, g), p # <<>>
  PROVE  /\ l # <<>> => Reads(i, Tail(l), Append(Tail(p), Head(l)), Head(p),
                              [k EXCEPT ![Head(l)] = "queued"], "waiting", f, t)
         /\ l = <<>> => Reads(i, l, Tail(p), Head(p), k, "waiting", f, t)
<1>1. /\ Kinds(i, l, p, c, k, g, f, t) /\ Pieces(i, l, p, c, t) /\ Called(i, l, k, t)
      /\ Stands(i, l, p, c, k, g, f)
  BY DEF Reads
<1>2. i \in Seq(Objects) /\ l \in Seq(Objects) /\ p \in Seq(Objects) /\ t \in Seq(Objects)
  BY <1>1 DEF Kinds
<1>3. Len(p) \in Nat /\ Prefetch \in Nat /\ Prefetch >= 1
  BY <1>1, PieceLengths, Bounds
<1>4. c = NoId /\ f = "none" /\ Len(p) <= Prefetch /\ (l = <<>> \/ Len(p) = Prefetch)
  BY <1>1, <1>3 DEF Stands, Rolls
<1>5. /\ Pieces(i, l, Tail(p), Head(p), t) /\ Head(p) \in Objects /\ Head(p) # NoId
      /\ Tail(p) \in Seq(Objects) /\ Len(Tail(p)) = Len(p) - 1
  BY <1>1, <1>2, <1>4, DuePieces
<1>6. CASE l # <<>>
  <2> DEFINE k1 == [k EXCEPT ![Head(l)] = "queued"]
  <2> DEFINE p1 == Append(Tail(p), Head(l))
  <2>0. /\ Pieces(i, Tail(l), p1, Head(p), t)
        /\ p1 \in Seq(Objects) /\ Len(p1) = Len(Tail(p)) + 1
    <3> DEFINE q == Tail(p)
    <3> DEFINE h == Head(p)
    <3>1. q \in Seq(Objects) /\ Pieces(i, l, q, h, t)
      BY <1>5
    <3> HIDE DEF q, h
    <3>2. /\ Pieces(i, Tail(l), Append(q, Head(l)), h, t)
          /\ Append(q, Head(l)) \in Seq(Objects) /\ Len(Append(q, Head(l))) = Len(q) + 1
      BY <1>2, <1>6, <3>1, PulledPieces
    <3>3. QED
      BY <3>2 DEF q, h
  <2>1. Pieces(i, Tail(l), p1, Head(p), t) /\ p1 \in Seq(Objects) /\ Len(p1) = Len(p)
    BY <1>3, <1>5, <2>0
  <2>2. Called(i, Tail(l), k1, t) /\ k1 \in [Objects -> CallStates] /\ Tail(l) \in Seq(Objects)
    BY <1>6, PulledCalls
  <2> HIDE DEF k1, p1
  <2>3. Stands(i, Tail(l), p1, Head(p), k1, "waiting", f)
    BY <1>3, <1>4, <1>5, <1>6, <2>1 DEF Stands
  <2>4. Kinds(i, Tail(l), p1, Head(p), k1, "waiting", f, t)
    BY <1>1, <1>5, <2>1, <2>2 DEF Kinds, A!States
  <2>5. Reads(i, Tail(l), p1, Head(p), k1, "waiting", f, t)
    BY <2>1, <2>2, <2>3, <2>4 DEF Reads
  <2>6. QED
    BY <1>6, <2>5 DEF k1, p1
<1>7. CASE l = <<>>
  <2>1. Stands(i, l, Tail(p), Head(p), k, "waiting", f)
    BY <1>3, <1>4, <1>5, <1>7 DEF Stands
  <2>2. Kinds(i, l, Tail(p), Head(p), k, "waiting", f, t)
    BY <1>1, <1>5 DEF Kinds, A!States
  <2>3. QED
    BY <1>1, <1>5, <1>7, <2>1, <2>2 DEF Reads
<1>8. QED
  BY <1>6, <1>7

\* The result due is taken.
LEMMA YieldReads ==
  ASSUME NEW i, NEW l, NEW p, NEW c, NEW k, NEW f, NEW t, Reads(i, l, p, c, k, "waiting", f, t),
         k[c] = "ok"
  PROVE  Reads(i, l, p, NoId, k, "yielded", f, Append(t, c)) /\ c \in Objects /\ c = i[Len(t) + 1]
         /\ Len(t) + 1 \in 1..Len(i)
<1>1. /\ Kinds(i, l, p, c, k, "waiting", f, t) /\ Pieces(i, l, p, c, t) /\ Called(i, l, k, t)
      /\ Stands(i, l, p, c, k, "waiting", f)
  BY DEF Reads
<1>2. c \in Objects /\ c # NoId /\ t \in Seq(Objects)
  BY <1>1 DEF Kinds, Stands
<1>3. Len(i) \in Nat /\ Len(l) \in Nat /\ Len(p) \in Nat /\ Len(t) \in Nat
  BY <1>1, PieceLengths
<1>4. /\ Len(i) = Len(t) + 1 + Len(p) + Len(l)
      /\ \A n \in 1..Len(t) : t[n] = i[n]
      /\ c = i[Len(t) + 1]
      /\ \A n \in 1..Len(p) : p[n] = i[Len(t) + 1 + n]
      /\ \A n \in 1..Len(l) : l[n] = i[Len(t) + 1 + Len(p) + n]
  BY <1>1, <1>2 DEF Pieces
<1>5. /\ Append(t, c) \in Seq(Objects) /\ Len(Append(t, c)) = Len(t) + 1
      /\ \A n \in 1..Len(t) : Append(t, c)[n] = t[n]
      /\ Append(t, c)[Len(t) + 1] = c
  BY <1>2, AppendProperties
<1> DEFINE t1 == Append(t, c)
<1> HIDE DEF t1
<1>6. Len(t1) = Len(t) + 1 /\ t1 \in Seq(Objects)
  BY <1>5 DEF t1
<1>7. \A n \in 1..Len(t1) : t1[n] = i[n]
  <2>1. SUFFICES ASSUME NEW n \in 1..Len(t1) PROVE t1[n] = i[n]
    OBVIOUS
  <2>2. CASE n = Len(t) + 1
    BY <2>2, <1>4, <1>5 DEF t1
  <2>3. CASE n # Len(t) + 1
    <3>1. n \in 1..Len(t)
      BY <2>3, <1>3, <1>6
    <3>2. QED
      BY <3>1, <1>4, <1>5 DEF t1
  <2>4. QED
    BY <2>2, <2>3
<1>8. Pieces(i, l, p, NoId, t1)
  BY <1>3, <1>4, <1>6, <1>7 DEF Pieces
<1>9. \A n \in 1..Len(i) : n <= Len(t1) => k[i[n]] = "ok"
  <2>1. SUFFICES ASSUME NEW n \in 1..Len(i), n <= Len(t1) PROVE k[i[n]] = "ok"
    OBVIOUS
  <2>2. CASE n = Len(t) + 1
    BY <2>2, <1>4
  <2>3. CASE n # Len(t) + 1
    BY <2>1, <2>3, <1>1, <1>3, <1>6 DEF Called
  <2>4. QED
    BY <2>2, <2>3
<1>10. Called(i, l, k, t1)
  BY <1>1, <1>9 DEF Called
<1>11. Stands(i, l, p, NoId, k, "yielded", f)
  BY <1>1 DEF Stands
<1>12. Kinds(i, l, p, NoId, k, "yielded", f, t1)
  BY <1>1, <1>6 DEF Kinds, A!States
<1>13. Len(t) + 1 \in 1..Len(i)
  BY <1>3, <1>4
<1>14. QED
  BY <1>2, <1>4, <1>8, <1>10, <1>11, <1>12, <1>13 DEF Reads, t1

\* The calls of the pool when those pending are cancelled.
Cancelled(k, p) == [x \in Objects |-> IF x \in A!In(p) /\ k[x] = "queued" THEN "cancelled" ELSE k[x]]

\* With those pending cancelled no call is queued, and the others are what they were.
LEMMA CancelledCalls ==
  ASSUME NEW i, NEW l, NEW p, NEW c, NEW k, NEW g, NEW f, NEW t, Reads(i, l, p, c, k, g, f, t),
         c # NoId => k[c] # "queued"
  PROVE  /\ Called(i, l, Cancelled(k, p), t) /\ Cancelled(k, p) \in [Objects -> CallStates]
         /\ \A x \in Objects : Cancelled(k, p)[x] # "queued"
         /\ c # NoId /\ k[c] = "error" => Cancelled(k, p)[c] = "error"
<1>1. Kinds(i, l, p, c, k, g, f, t) /\ Pieces(i, l, p, c, t) /\ Called(i, l, k, t)
  BY DEF Reads
<1>2. k \in [Objects -> CallStates] /\ c \in Objects \cup {NoId} /\ p \in Seq(Objects)
  BY <1>1 DEF Kinds
<1>3. Len(i) \in Nat /\ Len(l) \in Nat /\ Len(p) \in Nat /\ Len(t) \in Nat
      /\ \A n \in 1..Len(i) : i[n] \in Objects
  BY <1>1, PieceLengths
<1> DEFINE k1 == Cancelled(k, p)
<1>4. k1 \in [Objects -> CallStates]
  BY <1>2 DEF Cancelled, CallStates
<1>5. \A x \in Objects : k[x] # "queued" => k1[x] = k[x]
  BY <1>2 DEF Cancelled
<1>6. \A x \in Objects : k1[x] # "none" => k[x] # "none"
  BY <1>2 DEF Cancelled
<1>7. \A x \in A!In(p) \cap Objects : k1[x] # "queued"
  BY DEF Cancelled
<1> HIDE DEF k1
<1>8. \A x \in Objects : k1[x] # "queued"
  <2>1. SUFFICES ASSUME NEW x \in Objects, k[x] = "queued" PROVE x \in A!In(p)
    BY <1>5, <1>7
  <2>2. PICK n \in 1..Len(i) : i[n] = x
    BY <2>1, <1>1 DEF Called
  <2>3. ~(n <= Len(t)) /\ ~(n > Len(i) - Len(l))
    BY <2>1, <2>2, <1>1 DEF Called
  <2>4. DOMAIN p = 1..Len(p)
    BY <1>2, LenProperties
  <2>5. CASE c = NoId
    <3>1. n - Len(t) \in 1..Len(p) /\ p[n - Len(t)] = i[Len(t) + 0 + (n - Len(t))]
      BY <2>3, <2>5, <1>1, <1>3 DEF Pieces
    <3>2. Len(t) + 0 + (n - Len(t)) = n
      BY <1>3
    <3>3. QED
      BY <3>1, <3>2, <2>2, <2>4 DEF A!In
  <2>6. CASE c # NoId
    <3>1. c = i[Len(t) + 1]
      BY <2>6, <1>1 DEF Pieces
    <3>2. n # Len(t) + 1
      BY <3>1, <2>1, <2>2, <2>6
    <3>3. n - Len(t) - 1 \in 1..Len(p) /\ p[n - Len(t) - 1] = i[Len(t) + 1 + (n - Len(t) - 1)]
      BY <3>2, <2>3, <2>6, <1>1, <1>3 DEF Pieces
    <3>4. Len(t) + 1 + (n - Len(t) - 1) = n
      BY <1>3
    <3>5. QED
      BY <3>3, <3>4, <2>2, <2>4 DEF A!In
  <2>7. QED
    BY <2>5, <2>6
<1>9. Called(i, l, k1, t)
  BY <1>1, <1>3, <1>5, <1>6 DEF Called
<1>10. c # NoId /\ k[c] = "error" => k1[c] = "error"
  BY <1>2, <1>5
<1>11. QED
  BY <1>4, <1>8, <1>9, <1>10 DEF k1

\* All the results are taken.
LEMMA EndReads ==
  ASSUME NEW i, NEW l, NEW p, NEW c, NEW k, NEW g, NEW f, NEW t, Reads(i, l, p, c, k, g, f, t),
         Rolls(l, p, g), p = <<>>
  PROVE  Reads(i, l, p, NoId, Cancelled(k, p), "closing", "end", t)
<1>1. /\ Kinds(i, l, p, c, k, g, f, t) /\ Pieces(i, l, p, c, t) /\ Stands(i, l, p, c, k, g, f)
  BY DEF Reads
<1>2. Len(p) = 0 /\ Prefetch \in Nat /\ Prefetch >= 1
  BY <1>1, PieceLengths, Bounds
<1>3. c = NoId /\ l = <<>>
  BY <1>1, <1>2 DEF Stands, Rolls
<1>4. /\ Called(i, l, Cancelled(k, p), t) /\ Cancelled(k, p) \in [Objects -> CallStates]
      /\ \A x \in Objects : Cancelled(k, p)[x] # "queued"
  BY <1>3, CancelledCalls
<1>5. Stands(i, l, p, NoId, Cancelled(k, p), "closing", "end")
  BY <1>2, <1>3, <1>4 DEF Stands
<1>6. Kinds(i, l, p, NoId, Cancelled(k, p), "closing", "end", t)
  BY <1>1, <1>4 DEF Kinds, A!States
<1>7. QED
  BY <1>1, <1>3, <1>4, <1>5, <1>6 DEF Reads

\* The call that is due raised.
LEMMA RaiseReads ==
  ASSUME NEW i, NEW l, NEW p, NEW c, NEW k, NEW f, NEW t, Reads(i, l, p, c, k, "waiting", f, t),
         k[c] = "error"
  PROVE  Reads(i, l, p, c, Cancelled(k, p), "closing", "raised", t)
<1>1. /\ Kinds(i, l, p, c, k, "waiting", f, t) /\ Pieces(i, l, p, c, t)
      /\ Stands(i, l, p, c, k, "waiting", f)
  BY DEF Reads
<1>2. c # NoId
  BY <1>1 DEF Stands
<1>3. /\ Called(i, l, Cancelled(k, p), t) /\ Cancelled(k, p) \in [Objects -> CallStates]
      /\ \A x \in Objects : Cancelled(k, p)[x] # "queued"
      /\ Cancelled(k, p)[c] = "error"
  BY <1>2, CancelledCalls
<1>4. Stands(i, l, p, c, Cancelled(k, p), "closing", "raised")
  BY <1>1, <1>2, <1>3 DEF Stands
<1>5. Kinds(i, l, p, c, Cancelled(k, p), "closing", "raised", t)
  BY <1>1, <1>3 DEF Kinds, A!States
<1>6. QED
  BY <1>1, <1>3, <1>4, <1>5 DEF Reads

\* The consumer stops early.
LEMMA DropReads ==
  ASSUME NEW i, NEW l, NEW p, NEW c, NEW k, NEW f, NEW t, Reads(i, l, p, c, k, "yielded", f, t)
  PROVE  Reads(i, l, p, NoId, Cancelled(k, p), "closing", "dropped", t)
<1>1. /\ Kinds(i, l, p, c, k, "yielded", f, t) /\ Pieces(i, l, p, c, t)
      /\ Stands(i, l, p, c, k, "yielded", f)
  BY DEF Reads
<1>2. c = NoId
  BY <1>1 DEF Stands
<1>3. /\ Called(i, l, Cancelled(k, p), t) /\ Cancelled(k, p) \in [Objects -> CallStates]
      /\ \A x \in Objects : Cancelled(k, p)[x] # "queued"
  BY <1>2, CancelledCalls
<1>4. Stands(i, l, p, NoId, Cancelled(k, p), "closing", "dropped")
  BY <1>1, <1>2, <1>3 DEF Stands
<1>5. Kinds(i, l, p, NoId, Cancelled(k, p), "closing", "dropped", t)
  BY <1>1, <1>3 DEF Kinds, A!States
<1>6. QED
  BY <1>1, <1>2, <1>3, <1>4, <1>5 DEF Reads

\* The pool is joined.
LEMMA ClosedReads ==
  ASSUME NEW i, NEW l, NEW p, NEW c, NEW k, NEW f, NEW t, Reads(i, l, p, c, k, "closing", f, t),
         \A x \in Objects : k[x] # "running"
  PROVE  Reads(i, l, p, c, k, "closed", f, t)
BY DEF Reads, Kinds, Stands, A!States

\* A call starts, or ends.
LEMMA CallReads ==
  ASSUME NEW i, NEW l, NEW p, NEW c, NEW k, NEW g, NEW f, NEW t, Reads(i, l, p, c, k, g, f, t),
         NEW x \in Objects, NEW v \in {"running", "ok", "error"},
         k[x] = (IF v = "running" THEN "queued" ELSE "running")
  PROVE  Reads(i, l, p, c, [k EXCEPT ![x] = v], g, f, t)
<1>1. /\ Kinds(i, l, p, c, k, g, f, t) /\ Pieces(i, l, p, c, t) /\ Called(i, l, k, t)
      /\ Stands(i, l, p, c, k, g, f)
  BY DEF Reads
<1> DEFINE k1 == [k EXCEPT ![x] = v]
<1>2. k \in [Objects -> CallStates] /\ c \in Objects \cup {NoId}
  BY <1>1 DEF Kinds
<1>3. k1 \in [Objects -> CallStates]
  BY <1>2 DEF CallStates
<1>4. k1[x] = v /\ \A y \in Objects : y # x => k1[y] = k[y]
  BY <1>2
<1> HIDE DEF k1
<1>5. k[x] \in {"queued", "running"} /\ (v # "running" => k[x] = "running")
  OBVIOUS
<1>6. \A n \in 1..Len(i) : i[n] \in Objects
  BY <1>1, PieceLengths
<1>7. Called(i, l, k1, t)
  BY <1>1, <1>4, <1>5, <1>6 DEF Called
<1>8. Stands(i, l, p, c, k1, g, f)
  <2>1. g \in {"closing", "closed"} => \A y \in Objects : k1[y] # "queued"
    BY <1>1, <1>4, <1>5 DEF Stands
  <2>2. g = "closed" => \A y \in Objects : k1[y] # "running"
    BY <1>1, <1>4, <1>5 DEF Stands
  <2>3. f = "raised" => c # NoId /\ k1[c] = "error"
    BY <1>1, <1>2, <1>4, <1>5 DEF Stands
  <2>4. QED
    BY <1>1, <2>1, <2>2, <2>3 DEF Stands
<1>9. Kinds(i, l, p, c, k1, g, f, t)
  BY <1>1, <1>3 DEF Kinds
<1>10. QED
  BY <1>1, <1>7, <1>8, <1>9 DEF Reads, k1

-----------------------------------------------------------------------------
(* What a read-ahead of that shape keeps.                                   *)

\* The piece of the call that is due.
DueOf(c) == IF c = NoId THEN <<>> ELSE <<c>>

\* The pieces put together are what is mapped over.
Whole(i, l, p, c, t) == t \o DueOf(c) \o p \o l = i

\* The results, the call due, those pending and what is left are the objects, in order.
LEMMA ReadsInOrder ==
  ASSUME NEW i, NEW l, NEW p, NEW c, NEW k, NEW g, NEW f, NEW t, Reads(i, l, p, c, k, g, f, t)
  PROVE  /\ Whole(i, l, p, c, t)
         /\ \A x \in A!In(t) : k[x] = "ok"
         /\ f = "raised" => k[i[Len(t) + 1]] = "error"
         /\ f = "end" => t = i
<1>1. /\ Kinds(i, l, p, c, k, g, f, t) /\ Pieces(i, l, p, c, t) /\ Called(i, l, k, t)
      /\ Stands(i, l, p, c, k, g, f)
  BY DEF Reads
<1>2. i \in Seq(Objects) /\ l \in Seq(Objects) /\ p \in Seq(Objects) /\ t \in Seq(Objects)
  BY <1>1 DEF Kinds
<1>3. Len(i) \in Nat /\ Len(l) \in Nat /\ Len(p) \in Nat /\ Len(t) \in Nat
  BY <1>1, PieceLengths
<1>4. PICK due : due = DueOf(c)
  OBVIOUS
<1>5. PICK d : d = IF c = NoId THEN 0 ELSE 1
  OBVIOUS
<1>6. due \in Seq(Objects) /\ Len(due) = d /\ d \in Nat /\ \A n \in 1..d : due[n] = i[Len(t) + n]
  <2>1. CASE c = NoId
    BY <2>1, <1>4, <1>5, EmptySeq DEF DueOf
  <2>2. CASE c # NoId
    <3>1. c \in Objects /\ c = i[Len(t) + 1] /\ due = <<c>> /\ d = 1
      BY <2>2, <1>1, <1>4, <1>5 DEF Kinds, Pieces, DueOf
    <3>2. QED
      BY <3>1
  <2>3. QED
    BY <2>1, <2>2
<1>7. /\ Len(i) = Len(t) + d + Len(p) + Len(l)
      /\ \A n \in 1..Len(t) : t[n] = i[n]
      /\ \A n \in 1..Len(p) : p[n] = i[Len(t) + d + n]
      /\ \A n \in 1..Len(l) : l[n] = i[Len(t) + d + Len(p) + n]
  BY <1>1, <1>5 DEF Pieces
<1>8. /\ t \o due \in Seq(Objects) /\ Len(t \o due) = Len(t) + d
      /\ \A n \in 1..(Len(t) + d) : (t \o due)[n] = i[n]
  <2>1. /\ t \o due \in Seq(Objects) /\ Len(t \o due) = Len(t) + Len(due)
        /\ \A n \in 1..(Len(t) + Len(due)) :
             (t \o due)[n] = IF n <= Len(t) THEN t[n] ELSE due[n - Len(t)]
    BY <1>2, <1>6, ConcatProperties
  <2>2. ASSUME NEW n \in 1..(Len(t) + d) PROVE (t \o due)[n] = i[n]
    <3>1. CASE n <= Len(t)
      BY <3>1, <2>1, <1>3, <1>6, <1>7
    <3>2. CASE ~(n <= Len(t))
      <4>1. n - Len(t) \in 1..d /\ Len(t) + (n - Len(t)) = n
        BY <3>2, <1>3, <1>6
      <4>2. QED
        BY <3>2, <4>1, <2>1, <1>6
    <3>3. QED
      BY <3>1, <3>2
  <2>3. QED
    BY <2>1, <2>2, <1>6
<1>9. PICK s : s = t \o due
  OBVIOUS
<1>10. /\ s \o p \in Seq(Objects) /\ Len(s \o p) = Len(t) + d + Len(p)
       /\ \A n \in 1..(Len(t) + d + Len(p)) : (s \o p)[n] = i[n]
  <2>1. /\ s \o p \in Seq(Objects) /\ Len(s \o p) = Len(s) + Len(p) /\ Len(s) = Len(t) + d
        /\ \A n \in 1..(Len(s) + Len(p)) :
             (s \o p)[n] = IF n <= Len(s) THEN s[n] ELSE p[n - Len(s)]
    BY <1>2, <1>8, <1>9, ConcatProperties
  <2>2. ASSUME NEW n \in 1..(Len(t) + d + Len(p)) PROVE (s \o p)[n] = i[n]
    <3>1. CASE n <= Len(s)
      BY <3>1, <2>1, <1>3, <1>6, <1>8, <1>9
    <3>2. CASE ~(n <= Len(s))
      <4>1. n - Len(s) \in 1..Len(p) /\ Len(t) + d + (n - Len(s)) = n
        BY <3>2, <2>1, <1>3, <1>6
      <4>2. QED
        BY <3>2, <4>1, <2>1, <1>7
    <3>3. QED
      BY <3>1, <3>2
  <2>3. QED
    BY <2>1, <2>2
<1>11. PICK u : u = s \o p
  OBVIOUS
<1>12. u \o l = i
  <2>1. /\ u \o l \in Seq(Objects) /\ Len(u \o l) = Len(u) + Len(l)
        /\ \A n \in 1..(Len(u) + Len(l)) :
             (u \o l)[n] = IF n <= Len(u) THEN u[n] ELSE l[n - Len(u)]
    BY <1>2, <1>10, <1>11, ConcatProperties
  <2>2. Len(u) = Len(t) + d + Len(p) /\ Len(u) \in Nat
    BY <1>3, <1>6, <1>10, <1>11
  <2>3. ASSUME NEW n \in 1..(Len(u) + Len(l)) PROVE (u \o l)[n] = i[n]
    <3>1. CASE n <= Len(u)
      BY <3>1, <2>1, <2>2, <1>10, <1>11
    <3>2. CASE ~(n <= Len(u))
      <4>1. n - Len(u) \in 1..Len(l) /\ Len(t) + d + Len(p) + (n - Len(u)) = n
        BY <3>2, <2>2, <1>3, <1>6
      <4>2. QED
        BY <3>2, <4>1, <2>1, <1>7
    <3>3. QED
      BY <3>1, <3>2
  <2>4. Len(u \o l) = Len(i)
    BY <2>1, <2>2, <1>7
  <2>5. QED
    BY <2>1, <2>3, <2>4, <1>2, SeqEqual
<1>13. \A x \in A!In(t) : k[x] = "ok"
  <2>1. SUFFICES ASSUME NEW n \in DOMAIN t PROVE k[t[n]] = "ok"
    BY DEF A!In
  <2>2. n \in 1..Len(t) /\ n \in 1..Len(i)
    BY <1>2, <1>3, <1>6, <1>7, LenProperties
  <2>3. QED
    BY <2>2, <1>1, <1>3, <1>7 DEF Called
<1>14. f = "raised" => k[i[Len(t) + 1]] = "error"
  BY <1>1 DEF Stands, Pieces
<1>15. f = "end" => t = i
  <2>1. SUFFICES ASSUME f = "end" PROVE t = i
    OBVIOUS
  <2>2. d = 0 /\ Len(p) = 0 /\ Len(l) = 0
    BY <2>1, <1>1, <1>5, PieceLengths DEF Stands
  <2>3. Len(t) = Len(i)
    BY <2>2, <1>3, <1>7
  <2>4. QED
    BY <2>3, <1>2, <1>7, SeqEqual
<1>16. QED
  BY <1>4, <1>9, <1>11, <1>12, <1>13, <1>14, <1>15 DEF Whole

\* The objects asked for are those before what is left: the results, the one due, the window.
LEMMA ReadsBounded ==
  ASSUME NEW i, NEW l, NEW p, NEW c, NEW k, NEW g, NEW f, NEW t, Reads(i, l, p, c, k, g, f, t)
  PROVE  Cardinality({x \in Objects : k[x] # "none"}) <= Len(t) + Prefetch + 1
<1>1. /\ Kinds(i, l, p, c, k, g, f, t) /\ Pieces(i, l, p, c, t) /\ Called(i, l, k, t)
      /\ Stands(i, l, p, c, k, g, f)
  BY DEF Reads
<1>2. Len(i) \in Nat /\ Len(l) \in Nat /\ Len(p) \in Nat /\ Len(t) \in Nat
  BY <1>1, PieceLengths
<1>3. Prefetch \in Nat /\ Len(p) <= Prefetch
  BY <1>1, Bounds DEF Stands
<1>4. PICK m \in Nat : m = Len(i) - Len(l) /\ m <= Len(t) + Prefetch + 1
  <2>1. Len(i) - Len(l) \in Nat /\ Len(i) - Len(l) <= Len(t) + Prefetch + 1
    <3>1. CASE c = NoId
      <4>1. Len(i) = Len(t) + 0 + Len(p) + Len(l)
        BY <3>1, <1>1 DEF Pieces
      <4>2. QED
        BY <4>1, <1>2, <1>3
    <3>2. CASE c # NoId
      <4>1. Len(i) = Len(t) + 1 + Len(p) + Len(l)
        BY <3>2, <1>1 DEF Pieces
      <4>2. QED
        BY <4>1, <1>2, <1>3
    <3>3. QED
      BY <3>1, <3>2
  <2>2. QED
    BY <2>1
<1> DEFINE asked == {x \in Objects : k[x] # "none"}
<1> DEFINE firsts == {i[n] : n \in 1..m}
<1>5. asked \subseteq firsts
  <2>1. SUFFICES ASSUME NEW x \in Objects, k[x] # "none" PROVE x \in firsts
    OBVIOUS
  <2>2. PICK n \in 1..Len(i) : i[n] = x
    BY <2>1, <1>1 DEF Called
  <2>3. ~(n > Len(i) - Len(l))
    BY <2>1, <2>2, <1>1 DEF Called
  <2>4. n \in 1..m
    BY <2>3, <1>2, <1>4
  <2>5. QED
    BY <2>2, <2>4
<1>6. IsFiniteSet(1..m) /\ Cardinality(1..m) = m
  BY FS_Interval
<1>7. IsFiniteSet(firsts) /\ Cardinality(firsts) <= m
  <2> DEFINE h == [n \in 1..m |-> i[n]]
  <2>1. h \in Surjection(1..m, firsts)
    BY DEF Surjection
  <2>2. QED
    BY <2>1, <1>6, FS_Surjection
<1>8. Cardinality(asked) <= Cardinality(firsts) /\ Cardinality(asked) \in Nat /\ Cardinality(firsts) \in Nat
  BY <1>5, <1>7, FS_Subset, FS_CardinalityType
<1>9. QED
  BY <1>2, <1>3, <1>4, <1>7, <1>8

-----------------------------------------------------------------------------
(* The steps of a process' read-ahead.                                      *)

\* What process r reads becomes this, and the others' is left alone.
Turns(r, i, l, p, c, k, g, f, t) ==
  /\ items' = [items EXCEPT ![r] = i] /\ left' = [left EXCEPT ![r] = l]
  /\ pending' = [pending EXCEPT ![r] = p] /\ current' = [current EXCEPT ![r] = c]
  /\ call' = [call EXCEPT ![r] = k] /\ gen' = [gen EXCEPT ![r] = g]
  /\ fate' = [fate EXCEPT ![r] = f] /\ taken' = [taken EXCEPT ![r] = t]

\* A process changes what it reads and leaves the others' alone.
LEMMA OneReads ==
  ASSUME ReadInv, NEW r \in Runs, NEW i, NEW l, NEW p, NEW c, NEW k, NEW g, NEW f, NEW t,
         Reads(i, l, p, c, k, g, f, t),
         Turns(r, i, l, p, c, k, g, f, t)
  PROVE  ReadInv'
<1>0. /\ items' = [items EXCEPT ![r] = i] /\ left' = [left EXCEPT ![r] = l]
      /\ pending' = [pending EXCEPT ![r] = p] /\ current' = [current EXCEPT ![r] = c]
      /\ call' = [call EXCEPT ![r] = k] /\ gen' = [gen EXCEPT ![r] = g]
      /\ fate' = [fate EXCEPT ![r] = f] /\ taken' = [taken EXCEPT ![r] = t]
  BY DEF Turns
<1>1. A!TypeOK
  BY DEF ReadInv
<1>2. Kinds(i, l, p, c, k, g, f, t)
  BY DEF Reads
<1>3. A!TypeOK'
  BY <1>0, <1>1, <1>2 DEF A!TypeOK, Kinds, Objects, CallStates
<1>4. ASSUME NEW q \in Runs
      PROVE  Reads(items[q], left[q], pending[q], current[q], call[q], gen[q], fate[q], taken[q])'
  <2>1. CASE q = r
    <3>1. /\ items'[q] = i /\ left'[q] = l /\ pending'[q] = p /\ current'[q] = c
          /\ call'[q] = k /\ gen'[q] = g /\ fate'[q] = f /\ taken'[q] = t
      BY <2>1, <1>0, <1>1 DEF A!TypeOK
    <3>2. QED
      BY <3>1
  <2>2. CASE q # r
    <3>1. /\ items'[q] = items[q] /\ left'[q] = left[q] /\ pending'[q] = pending[q]
          /\ current'[q] = current[q] /\ call'[q] = call[q] /\ gen'[q] = gen[q]
          /\ fate'[q] = fate[q] /\ taken'[q] = taken[q]
      BY <2>2, <1>0, <1>1 DEF A!TypeOK
    <3>2. QED
      BY <3>1 DEF ReadInv
  <2>3. QED
    BY <2>1, <2>2
<1>5. QED
  BY <1>3, <1>4 DEF ReadInv

\* What is unchanged is unchanged at r.
LEMMA AsBefore ==
  ASSUME ReadInv, NEW r \in Runs
  PROVE  /\ items = [items EXCEPT ![r] = items[r]] /\ left = [left EXCEPT ![r] = left[r]]
         /\ pending = [pending EXCEPT ![r] = pending[r]]
         /\ current = [current EXCEPT ![r] = current[r]]
         /\ call = [call EXCEPT ![r] = call[r]] /\ gen = [gen EXCEPT ![r] = gen[r]]
         /\ fate = [fate EXCEPT ![r] = fate[r]] /\ taken = [taken EXCEPT ![r] = taken[r]]
         /\ Reads(items[r], left[r], pending[r], current[r], call[r], gen[r], fate[r], taken[r])
BY DEF ReadInv, A!TypeOK

\* Each step of the generator and of its pool keeps the shape of the process' read-ahead.
LEMMA StepOpen ==
  ASSUME ReadInv, NEW r \in Runs, NEW s \in Seq(Objects),
         \A m, n \in 1..Len(s) : s[m] = s[n] => m = n, A!Open(r, s)
  PROVE  ReadInv'
<1>1. Reads(s, s, pending[r], current[r], call[r], "prime", fate[r], taken[r])
  BY AsBefore, OpenReads DEF A!Open
<1>2. Turns(r, s, s, pending[r], current[r], call[r], "prime", fate[r], taken[r])
  BY AsBefore DEF A!Open, Turns
<1>3. QED
  BY <1>1, <1>2, OneReads

LEMMA StepPrime == ASSUME ReadInv, NEW r \in Runs, A!Prime(r) PROVE ReadInv'
<1>1. gen[r] = "prime" /\ left[r] # <<>> /\ ~(Len(pending[r]) >= Prefetch)
  BY DEF A!Prime, A!Primed
<1>2. Kinds(items[r], left[r], pending[r], current[r], call[r], gen[r], fate[r], taken[r])
  BY AsBefore DEF Reads
<1>3. Len(pending[r]) < Prefetch
  BY <1>1, <1>2, PieceLengths, Bounds
<1>4. Reads(items[r], Tail(left[r]), Append(pending[r], Head(left[r])), current[r],
            [call[r] EXCEPT ![Head(left[r])] = "queued"], "prime", fate[r], taken[r])
  <2>1. Reads(items[r], left[r], pending[r], current[r], call[r], "prime", fate[r], taken[r])
    BY <1>1, AsBefore
  <2>2. QED
    BY <1>1, <1>3, <2>1, PrimeReads
<1>5. call' = [call EXCEPT ![r] = [call[r] EXCEPT ![Head(left[r])] = "queued"]]
  BY DEF A!Prime, A!Pull
<1>6. gen' = [gen EXCEPT ![r] = "prime"]
  BY <1>1, AsBefore DEF A!Prime
<1>7. QED
  <2>1. Turns(r, items[r], Tail(left[r]), Append(pending[r], Head(left[r])), current[r],
              [call[r] EXCEPT ![Head(left[r])] = "queued"], "prime", fate[r], taken[r])
    BY <1>5, <1>6, AsBefore DEF A!Prime, A!Pull, Turns
  <2>2. QED
    BY <1>4, <2>1, OneReads

LEMMA StepRoll == ASSUME ReadInv, NEW r \in Runs, A!Roll(r) PROVE ReadInv'
<1>1. Rolls(left[r], pending[r], gen[r]) /\ pending[r] # <<>>
  BY DEF A!Roll, A!Rolling, A!Primed, Rolls
<1>2. /\ left[r] # <<>> => Reads(items[r], Tail(left[r]), Append(Tail(pending[r]), Head(left[r])),
           Head(pending[r]), [call[r] EXCEPT ![Head(left[r])] = "queued"], "waiting", fate[r], taken[r])
      /\ left[r] = <<>> => Reads(items[r], left[r], Tail(pending[r]), Head(pending[r]), call[r],
           "waiting", fate[r], taken[r])
  BY <1>1, AsBefore, RollReads
<1>3. gen' = [gen EXCEPT ![r] = "waiting"] /\ current' = [current EXCEPT ![r] = Head(pending[r])]
      /\ UNCHANGED fate
  BY DEF A!Roll
<1>4. CASE left[r] # <<>> /\ A!Pull(r, Tail(pending[r]))
  <2>1. call' = [call EXCEPT ![r] = [call[r] EXCEPT ![Head(left[r])] = "queued"]]
    BY <1>4 DEF A!Pull
  <2>2. QED
    <3>1. Turns(r, items[r], Tail(left[r]), Append(Tail(pending[r]), Head(left[r])), Head(pending[r]),
                [call[r] EXCEPT ![Head(left[r])] = "queued"], "waiting", fate[r], taken[r])
      BY <1>3, <1>4, <2>1, AsBefore DEF A!Pull, Turns
    <3>2. QED
      BY <1>2, <1>4, <3>1, OneReads
<1>5. CASE /\ left[r] = <<>> /\ pending' = [pending EXCEPT ![r] = Tail(@)]
           /\ UNCHANGED <<A!source, call, taken>>
  <2>1. /\ pending' = [pending EXCEPT ![r] = Tail(pending[r])]
        /\ UNCHANGED <<items, left, call, taken>>
    BY <1>5 DEF A!source
  <2>2. QED
    <3>1. Turns(r, items[r], left[r], Tail(pending[r]), Head(pending[r]), call[r], "waiting",
                fate[r], taken[r])
      BY <1>3, <2>1, AsBefore DEF Turns
    <3>2. QED
      BY <1>2, <1>5, <3>1, OneReads
<1>6. QED
  BY <1>4, <1>5 DEF A!Roll

LEMMA StepYield ==
  ASSUME ReadInv, NEW r \in Runs, A!Yield(r)
  PROVE  ReadInv' /\ \E n \in 1..Len(items[r]) : current[r] = items[r][n]
<1>1. gen[r] = "waiting" /\ call[r][current[r]] = "ok"
  BY DEF A!Yield
<1>2. /\ Reads(items[r], left[r], pending[r], NoId, call[r], "yielded", fate[r], Append(taken[r], current[r]))
      /\ current[r] = items[r][Len(taken[r]) + 1] /\ Len(taken[r]) + 1 \in 1..Len(items[r])
  BY <1>1, AsBefore, YieldReads
<1>3. /\ taken' = [taken EXCEPT ![r] = Append(taken[r], current[r])]
      /\ current' = [current EXCEPT ![r] = NoId] /\ gen' = [gen EXCEPT ![r] = "yielded"]
      /\ UNCHANGED <<items, left, pending, call, fate>>
  BY DEF A!Yield, A!source
<1>4. ReadInv'
  <2>1. Turns(r, items[r], left[r], pending[r], NoId, call[r], "yielded", fate[r],
              Append(taken[r], current[r]))
    BY <1>3, AsBefore DEF Turns
  <2>2. QED
    BY <1>2, <2>1, OneReads
<1>5. QED
  BY <1>2, <1>4

\* The generator ends: what is pending is cancelled.
LEMMA StepEnds ==
  ASSUME ReadInv, NEW r \in Runs, NEW why, NEW due, A!Ends(r, why, due, pending[r]),
         Reads(items[r], left[r], pending[r], due, Cancelled(call[r], pending[r]), "closing", why, taken[r])
  PROVE  ReadInv'
<1>1. call' = [call EXCEPT ![r] = Cancelled(call[r], pending[r])]
  BY DEF A!Ends, A!CancelQueued, Cancelled, Objects
<1>2. /\ gen' = [gen EXCEPT ![r] = "closing"] /\ fate' = [fate EXCEPT ![r] = why]
      /\ current' = [current EXCEPT ![r] = due] /\ pending' = [pending EXCEPT ![r] = pending[r]]
      /\ UNCHANGED <<items, left, taken>>
  BY DEF A!Ends, A!source
<1>3. QED
  <2>1. Turns(r, items[r], left[r], pending[r], due, Cancelled(call[r], pending[r]), "closing", why,
              taken[r])
    BY <1>1, <1>2, AsBefore DEF Turns
  <2>2. QED
    BY <2>1, OneReads

LEMMA StepExhausted == ASSUME ReadInv, NEW r \in Runs, A!Exhausted(r) PROVE ReadInv'
<1>1. Rolls(left[r], pending[r], gen[r]) /\ pending[r] = <<>> /\ A!Ends(r, "end", NoId, pending[r])
  BY DEF A!Exhausted, A!Rolling, A!Primed, Rolls
<1>2. QED
  BY <1>1, AsBefore, EndReads, StepEnds

LEMMA StepRaise == ASSUME ReadInv, NEW r \in Runs, A!Raise(r) PROVE ReadInv'
<1>1. gen[r] = "waiting" /\ call[r][current[r]] = "error" /\ A!Ends(r, "raised", current[r], pending[r])
  BY DEF A!Raise
<1>2. QED
  BY <1>1, AsBefore, RaiseReads, StepEnds

LEMMA StepDrop == ASSUME ReadInv, NEW r \in Runs, A!Drop(r) PROVE ReadInv'
<1>1. gen[r] = "yielded" /\ A!Ends(r, "dropped", NoId, pending[r])
  BY DEF A!Drop
<1>2. QED
  BY <1>1, AsBefore, DropReads, StepEnds

LEMMA StepClosed == ASSUME ReadInv, NEW r \in Runs, A!Closed(r) PROVE ReadInv'
<1>1. gen[r] = "closing" /\ \A x \in Objects : call[r][x] # "running"
  BY DEF A!Closed, A!Calls, Objects
<1>2. Reads(items[r], left[r], pending[r], current[r], call[r], "closed", fate[r], taken[r])
  BY <1>1, AsBefore, ClosedReads
<1>3. gen' = [gen EXCEPT ![r] = "closed"] /\ UNCHANGED <<items, left, pending, current, call, fate, taken>>
  BY DEF A!Closed, A!source
<1>4. Turns(r, items[r], left[r], pending[r], current[r], call[r], "closed", fate[r], taken[r])
  BY <1>3, AsBefore DEF Turns
<1>5. QED
  BY <1>2, <1>4, OneReads

\* A call of the pool starts, or ends.
LEMMA StepCall ==
  ASSUME ReadInv, NEW r \in Runs, NEW x \in Objects, NEW v \in {"running", "ok", "error"},
         call[r][x] = (IF v = "running" THEN "queued" ELSE "running"),
         call' = [call EXCEPT ![r][x] = v],
         UNCHANGED <<items, left, pending, current, gen, fate, taken>>
  PROVE  ReadInv'
<1>1. Reads(items[r], left[r], pending[r], current[r], [call[r] EXCEPT ![x] = v], gen[r], fate[r], taken[r])
  BY AsBefore, CallReads
<1>2. call' = [call EXCEPT ![r] = [call[r] EXCEPT ![x] = v]]
  OBVIOUS
<1>3. Turns(r, items[r], left[r], pending[r], current[r], [call[r] EXCEPT ![x] = v], gen[r], fate[r],
            taken[r])
  BY <1>2, AsBefore DEF Turns
<1>4. QED
  BY <1>1, <1>3, OneReads

LEMMA StepCallStarts == ASSUME ReadInv, NEW r \in Runs, A!CallStarts(r) PROVE ReadInv'
<1>1. PICK j \in DOMAIN items[r] : /\ call[r][items[r][j]] = "queued"
                                   /\ call' = [call EXCEPT ![r][items[r][j]] = "running"]
  BY DEF A!CallStarts
<1>2. items[r][j] \in Objects
  BY ElementOfSeq, LenProperties DEF ReadInv, A!TypeOK, Objects
<1>3. UNCHANGED <<items, left, pending, current, gen, fate, taken>>
  BY DEF A!CallStarts, A!source
<1>4. QED
  BY <1>1, <1>2, <1>3, StepCall

LEMMA StepCallEnds ==
  ASSUME ReadInv, NEW r \in Runs, NEW how \in {"ok", "error"}, A!CallEnds(r, how)
  PROVE  ReadInv'
<1>1. PICK x \in A!Calls(r, "running") : call' = [call EXCEPT ![r][x] = how]
  BY DEF A!CallEnds
<1>2. x \in Objects /\ call[r][x] = "running"
  BY <1>1 DEF A!Calls, Objects
<1>3. UNCHANGED <<items, left, pending, current, gen, fate, taken>>
  BY DEF A!CallEnds, A!source
<1>4. QED
  BY <1>1, <1>2, <1>3, StepCall

\* A process that is over, or not yet there, reads nothing.
LEMMA NothingReads == Reads(<<>>, <<>>, <<>>, NoId, A!Uncalled, "off", "none", <<>>)
<1>1. Len(<<>>) = 0 /\ <<>> \in Seq(Objects) /\ Prefetch \in Nat
  BY EmptySeq, Bounds
<1>2. A!Uncalled \in [Objects -> CallStates] /\ \A x \in Objects : A!Uncalled[x] = "none"
  BY DEF A!Uncalled, CallStates, Objects
<1>3. Kinds(<<>>, <<>>, <<>>, NoId, A!Uncalled, "off", "none", <<>>)
  BY <1>1, <1>2 DEF Kinds, A!States
<1>4. Pieces(<<>>, <<>>, <<>>, NoId, <<>>)
  BY <1>1 DEF Pieces
<1>5. Called(<<>>, <<>>, A!Uncalled, <<>>)
  BY <1>1, <1>2 DEF Called
<1>6. Stands(<<>>, <<>>, <<>>, NoId, A!Uncalled, "off", "none")
  BY <1>1, <1>2 DEF Stands
<1>7. QED
  BY <1>3, <1>4, <1>5, <1>6 DEF Reads

\* A process that is over has forgotten what it read.
LEMMA StepForgotten == ASSUME ReadInv, NEW r \in Runs, Forgotten(r) PROVE ReadInv'
<1>1. Turns(r, <<>>, <<>>, <<>>, NoId, A!Uncalled, "off", "none", <<>>)
  BY DEF Forgotten, Turns
<1>2. QED
  BY <1>1, NothingReads, OneReads

-----------------------------------------------------------------------------
(* The selection.                                                           *)

\* What a run reads: objects, each once, of the first Limit.
LEMMA SelectedOnce ==
  ASSUME NEW k, NEW skip, NEW s \in Selected(k, skip)
  PROVE  /\ s \in Seq(Objects) /\ \A m, n \in 1..Len(s) : s[m] = s[n] => m = n
         /\ \A n \in 1..Len(s) : IdOf[s[n]] \in Wanted
<1> DEFINE P == {j \in Mine(k, skip) : j <= Limit}
<1>1. PICK f \in [1..Cardinality(P) -> P] :
        /\ \A m, n \in DOMAIN f : m < n => f[m] < f[n]
        /\ s = [n \in DOMAIN f |-> Paths[f[n]]]
  BY DEF Selected, Listed
<1>2. DOMAIN Paths = 1..Len(Paths) /\ Len(Paths) \in Nat /\ P \subseteq DOMAIN Paths
  BY Bounds, LenProperties DEF Mine
<1>3. PICK c \in Nat : c = Cardinality(P)
  <2>1. IsFiniteSet(1..Len(Paths))
    BY <1>2, FS_Interval
  <2>2. IsFiniteSet(P)
    <3> HIDE DEF P
    <3>1. QED
      BY <1>2, <2>1, FS_Subset
  <2>3. Cardinality(P) \in Nat
    <3> HIDE DEF P
    <3>1. QED
      BY <2>2, FS_CardinalityType
  <2>4. QED
    BY <2>3
<1>4. DOMAIN f = 1..c /\ \A n \in 1..c : f[n] \in P /\ f[n] \in 1..Len(Paths)
  BY <1>1, <1>2, <1>3
<1>5. \A n \in 1..c : Paths[f[n]] \in Objects
  BY <1>2, <1>4 DEF Objects, ToSet
<1>6. s \in [1..c -> Objects]
  BY <1>1, <1>4, <1>5
<1>7. s \in Seq(Objects) /\ Len(s) = c
  BY <1>6, LenProperties
<1>8. \A n \in 1..c : s[n] = Paths[f[n]]
  BY <1>1, <1>4
<1>9. ASSUME NEW m \in 1..c, NEW n \in 1..c, s[m] = s[n] PROVE m = n
  <2>1. f[m] = f[n]
    BY <1>2, <1>4, <1>8, <1>9, IngestAssumption DEF IsInjective
  <2>2. ~(m < n) /\ ~(n < m)
    BY <2>1, <1>1, <1>4
  <2>3. QED
    BY <2>2
<1>10. ASSUME NEW n \in 1..c PROVE IdOf[s[n]] \in Wanted
  BY <1>4, <1>8, <1>2 DEF Wanted
<1>11. QED
  BY <1>7, <1>9, <1>10

-----------------------------------------------------------------------------
(* The rows and the files.                                                  *)

\* The part of RowsInv that is not about the reading.
FilesOf ==
  /\ F!TypeOK
  /\ \A r \in Runs : flight[r] \subseteq Wanted /\ writing[r] \in Wanted \cup {NoId}
  /\ \A i \in Ids \ Wanted : files[i] = "none"

\* The constants of the files.
LEMMA WantedIds == Wanted \subseteq Ids /\ NoId \notin Ids /\ FirstRows \in Nat \ {0}
BY IngestAssumption DEF Wanted, F!FilesConstants, ToSet

\* A step of a run's rows, or of its writer, keeps to the first Limit objects.
LEMMA BeginKeepsFiles == ASSUME FilesOf, NEW r \in Runs, F!Begin(r) PROVE FilesOf'
<1>1. F!Existing \subseteq Ids
  BY DEF F!Existing
<1>2. F!TypeOK'
  BY <1>1, WantedIds DEF FilesOf, F!TypeOK, F!Begin, F!directory
<1>3. QED
  BY <1>2 DEF FilesOf, F!TypeOK, F!Begin, F!directory

LEMMA RowKeepsFiles == ASSUME FilesOf, NEW r \in Runs, NEW i \in Wanted, F!Row(r, i) PROVE FilesOf'
<1>1. F!TypeOK'
  BY WantedIds DEF FilesOf, F!TypeOK, F!Row, F!directory, F!check
<1>2. QED
  BY <1>1 DEF FilesOf, F!TypeOK, F!Row, F!directory, F!check

LEMMA RejectedKeepsFiles ==
  ASSUME FilesOf, NEW r \in Runs, NEW i \in Ids, F!RowRejected(r, i)
  PROVE  FilesOf'
<1>1. rejected' \in [Runs -> 0..FirstRows]
  BY WantedIds DEF FilesOf, F!TypeOK, F!RowRejected
<1>2. F!TypeOK'
  BY <1>1 DEF FilesOf, F!TypeOK, F!RowRejected, F!Stops, F!directory
<1>3. QED
  BY <1>2 DEF FilesOf, F!TypeOK, F!RowRejected, F!Stops, F!directory

LEMMA AcceptedKeepsFiles ==
  ASSUME FilesOf, NEW r \in Runs, NEW i \in Ids, F!RowAccepted(r, i)
  PROVE  FilesOf'
<1>1. F!TypeOK'
  BY DEF FilesOf, F!TypeOK, F!RowAccepted, F!FileStates
<1>2. i \in Wanted
  BY DEF FilesOf, F!RowAccepted
<1>3. QED
  BY <1>1, <1>2 DEF FilesOf, F!TypeOK, F!RowAccepted

LEMMA FailsKeepsFiles ==
  ASSUME FilesOf, NEW r \in Runs, NEW i \in Ids, F!RowFails(r, i)
  PROVE  FilesOf'
<1>1. F!TypeOK'
  BY DEF FilesOf, F!TypeOK, F!RowFails, F!directory, F!check
<1>2. QED
  BY <1>1 DEF FilesOf, F!TypeOK, F!RowFails, F!directory, F!check

LEMMA WritesKeepFiles == ASSUME FilesOf, NEW r \in Runs, F!Writes(r) PROVE FilesOf'
<1>1. CASE F!Text(r)
  <2>1. F!TypeOK'
    BY <1>1 DEF FilesOf, F!TypeOK, F!Text, F!FileStates, F!rows, F!check
  <2>2. QED
    BY <1>1, <2>1 DEF FilesOf, F!Text, F!rows
<1>2. CASE F!Replace(r)
  <2>1. writing[r] \in Wanted /\ writing[r] \in Ids
    BY <1>2, WantedIds DEF FilesOf, F!Replace
  <2>2. F!TypeOK'
    BY <1>2, <2>1 DEF FilesOf, F!TypeOK, F!Replace, F!FileStates, F!rows, F!check
  <2>3. QED
    BY <1>2, <2>1, <2>2 DEF FilesOf, F!TypeOK, F!Replace, F!rows
<1>3. QED
  BY <1>1, <1>2 DEF F!Writes

LEMMA WriteFailsKeepsFiles == ASSUME FilesOf, NEW r \in Runs, F!WriteFails(r) PROVE FilesOf'
<1>1. F!TypeOK'
  BY DEF FilesOf, F!TypeOK, F!WriteFails, F!Stops, F!directory, F!check
<1>2. QED
  BY <1>1 DEF FilesOf, F!TypeOK, F!WriteFails, F!Stops, F!directory

LEMMA GoneKeepsFiles == ASSUME FilesOf, NEW r \in Runs, F!Gone(r) PROVE FilesOf'
<1>1. F!TypeOK'
  BY WantedIds DEF FilesOf, F!TypeOK, F!Gone, F!directory
<1>2. QED
  BY <1>1 DEF FilesOf, F!TypeOK, F!Gone, F!directory

LEMMA SameFiles == ASSUME FilesOf, UNCHANGED fileVars PROVE FilesOf'
BY DEF FilesOf, F!TypeOK, F!FileStates, F!TempNames, fileVars

-----------------------------------------------------------------------------
(* The invariant.                                                           *)

\* What is read is of the first Limit objects.
ReadsWanted == \A r \in Runs : \A n \in 1..Len(items[r]) : IdOf[items[r][n]] \in Wanted

IngestInv == ReadInv /\ FilesOf /\ ReadsWanted

\* Steps that leave the read-ahead, or what is mapped over, alone.
LEMMA SameReads == ASSUME ReadInv, UNCHANGED aheadVars PROVE ReadInv' /\ UNCHANGED items
BY DEF ReadInv, A!TypeOK, aheadVars

LEMMA SameItems == ASSUME ReadsWanted, UNCHANGED items PROVE ReadsWanted'
BY DEF ReadsWanted

LEMMA ForgottenItems == ASSUME ReadInv, ReadsWanted, NEW r \in Runs, Forgotten(r) PROVE ReadsWanted'
BY DEF ReadInv, A!TypeOK, ReadsWanted, Forgotten

\* The invariant holds at first and over every step.
LEMMA IngestInvInit == Init => IngestInv
<1> SUFFICES ASSUME Init PROVE IngestInv
  OBVIOUS
<1>1. A!TypeOK
  BY EmptySeq DEF Init, A!Init, A!TypeOK, A!Uncalled, A!States
<1>2. ReadInv
  BY <1>1, NothingReads DEF ReadInv, Init, A!Init
<1>3. FilesOf
  BY WantedIds DEF FilesOf, Init, F!Init, F!TypeOK, F!FileStates
<1>4. ReadsWanted
  BY DEF ReadsWanted, Init, A!Init
<1>5. QED
  BY <1>2, <1>3, <1>4 DEF IngestInv

LEMMA IngestInvStep == IngestInv /\ [Next]_vars => IngestInv'
<1> SUFFICES ASSUME IngestInv, [Next]_vars PROVE IngestInv'
  OBVIOUS
<1>1. ReadInv /\ FilesOf /\ ReadsWanted
  BY DEF IngestInv
<1>2. ASSUME NEW r \in Runs, ReadsAhead(r) PROVE IngestInv'
  <2>1. ReadInv'
    BY <1>1, <1>2, StepPrime, StepRoll, StepRaise, StepExhausted, StepClosed DEF ReadsAhead
  <2>2. UNCHANGED items
    BY <1>2 DEF ReadsAhead, A!Prime, A!Roll, A!Pull, A!Raise, A!Exhausted, A!Ends, A!Closed, A!source
  <2>3. QED
    BY <1>1, <1>2, <2>1, <2>2, SameFiles, SameItems DEF IngestInv, ReadsAhead
<1>3. ASSUME NEW r \in Runs, PoolGoes(r) PROVE IngestInv'
  <2>1. ReadInv'
    BY <1>1, <1>3, StepCallStarts, StepCallEnds DEF PoolGoes
  <2>2. UNCHANGED items
    BY <1>3 DEF PoolGoes, A!CallStarts, A!CallEnds, A!source
  <2>3. QED
    BY <1>1, <1>3, <2>1, <2>2, SameFiles, SameItems DEF IngestInv, PoolGoes
<1>4. ASSUME NEW r \in Runs, ReadFails(r) PROVE IngestInv'
  <2>1. ReadInv'
    BY <1>1, <1>4, StepCallEnds DEF ReadFails
  <2>2. UNCHANGED items
    BY <1>4 DEF ReadFails, A!CallEnds, A!source
  <2>3. QED
    BY <1>1, <1>4, <2>1, <2>2, SameFiles, SameItems DEF IngestInv, ReadFails
<1>5. ASSUME NEW r \in Runs, RowRead(r) PROVE IngestInv'
  <2>1. ReadInv' /\ IdOf[current[r]] \in Wanted
    BY <1>1, <1>5, StepYield DEF RowRead, ReadsWanted
  <2>2. UNCHANGED items
    BY <1>5 DEF RowRead, A!Yield, A!source
  <2>3. FilesOf'
    BY <1>1, <1>5, <2>1, RowKeepsFiles, SameFiles DEF RowRead
  <2>4. QED
    BY <1>1, <2>1, <2>2, <2>3, SameItems DEF IngestInv
<1>6. ASSUME NEW r \in Runs, RowEnds(r) \/ RowFails(r) \/ Writes(r) \/ WriteFails(r) PROVE IngestInv'
  <2>1. UNCHANGED aheadVars
    BY <1>6 DEF RowEnds, RowFails, Writes, WriteFails
  <2>2. FilesOf'
    BY <1>1, <1>6, RejectedKeepsFiles, AcceptedKeepsFiles, FailsKeepsFiles, WritesKeepFiles,
       WriteFailsKeepsFiles DEF RowEnds, RowFails, Writes, WriteFails
  <2>3. QED
    BY <1>1, <2>1, <2>2, SameReads, SameItems DEF IngestInv
<1>7. ASSUME NEW r \in Runs, Drops(r) PROVE IngestInv'
  <2>1. ReadInv'
    BY <1>1, <1>7, StepDrop DEF Drops
  <2>2. UNCHANGED items
    BY <1>7 DEF Drops, A!Drop, A!Ends, A!source
  <2>3. QED
    BY <1>1, <1>7, <2>1, <2>2, SameFiles, SameItems DEF IngestInv, Drops
<1>8. ASSUME NEW r \in Runs, Returns(r) \/ Killed(r) PROVE IngestInv'
  <2>1. Forgotten(r) /\ F!Gone(r)
    BY <1>8 DEF Returns, Killed
  <2>2. QED
    BY <1>1, <2>1, StepForgotten, GoneKeepsFiles, ForgottenItems DEF IngestInv
<1>9. ASSUME NEW r \in Runs, NEW k \in Ranks, Start(r, k) PROVE IngestInv'
  <2>1. PICK skip \in {{}, F!Existing} : \E s \in Selected(k, skip) : A!Open(r, s)
    BY <1>9 DEF Start
  <2>2. PICK s \in Selected(k, skip) : A!Open(r, s)
    BY <2>1
  <2>3. /\ s \in Seq(Objects) /\ \A m, n \in 1..Len(s) : s[m] = s[n] => m = n
        /\ \A n \in 1..Len(s) : IdOf[s[n]] \in Wanted
    BY SelectedOnce
  <2>4. ReadInv'
    BY <1>1, <2>2, <2>3, StepOpen
  <2>5. items' = [items EXCEPT ![r] = s]
    BY <2>2 DEF A!Open
  <2>6. ReadsWanted'
    BY <1>1, <2>3, <2>5 DEF ReadsWanted, ReadInv, A!TypeOK
  <2>7. FilesOf'
    BY <1>1, <1>9, BeginKeepsFiles DEF Start
  <2>8. QED
    BY <2>4, <2>6, <2>7 DEF IngestInv
<1>10. CASE Over \/ UNCHANGED vars
  BY <1>1, <1>10, SameReads, SameItems, SameFiles DEF IngestInv, Over, vars
<1>11. QED
  BY <1>2, <1>3, <1>4, <1>5, <1>6, <1>7, <1>8, <1>9, <1>10 DEF Next, Goes

LEMMA AlwaysIngestInv == Spec => []IngestInv
BY IngestInvInit, IngestInvStep, PTL DEF Spec

\* What the invariant says of a process' read-ahead is what Ahead promises.
LEMMA ReadInvKeepsOrder == ReadInv => A!OrderKept
<1> SUFFICES ASSUME ReadInv, NEW r \in Runs
             PROVE  /\ taken[r] \o A!Due(r) \o pending[r] \o left[r] = items[r]
                    /\ \A i \in A!In(taken[r]) : call[r][i] = "ok"
                    /\ fate[r] = "raised" => call[r][items[r][Len(taken[r]) + 1]] = "error"
                    /\ fate[r] = "end" => taken[r] = items[r]
  BY DEF A!OrderKept
<1>1. Reads(items[r], left[r], pending[r], current[r], call[r], gen[r], fate[r], taken[r])
  BY DEF ReadInv
<1>2. A!Due(r) = DueOf(current[r])
  BY DEF A!Due, DueOf
<1>3. Whole(items[r], left[r], pending[r], current[r], taken[r])
  BY <1>1, ReadsInOrder
<1>4. \A i \in A!In(taken[r]) : call[r][i] = "ok"
  BY <1>1, ReadsInOrder
<1>5. fate[r] = "raised" => call[r][items[r][Len(taken[r]) + 1]] = "error"
  BY <1>1, ReadsInOrder
<1>6. fate[r] = "end" => taken[r] = items[r]
  BY <1>1, ReadsInOrder
<1>7. QED
  BY <1>2, <1>3, <1>4, <1>5, <1>6 DEF Whole

\* And so are its bounds.
LEMMA ReadInvContains == ReadInv => A!AheadBounded /\ A!NothingLeftBehind
<1> SUFFICES ASSUME ReadInv PROVE A!AheadBounded /\ A!NothingLeftBehind
  OBVIOUS
<1>1. ASSUME NEW r \in Runs
      PROVE  Reads(items[r], left[r], pending[r], current[r], call[r], gen[r], fate[r], taken[r])
  BY DEF ReadInv
<1>2. A!AheadBounded
  <2>1. ASSUME NEW r \in Runs
        PROVE  Cardinality({x \in Objects : call[r][x] # "none"}) <= Len(taken[r]) + Prefetch + 1
    <3>1. Reads(items[r], left[r], pending[r], current[r], call[r], gen[r], fate[r], taken[r])
      BY <1>1
    <3>2. QED
      BY <3>1, ReadsBounded
  <2>2. QED
    BY <2>1 DEF A!AheadBounded, A!Cardinality, Cardinality, Objects
<1>3. A!NothingLeftBehind
  BY <1>1 DEF Reads, Stands, A!NothingLeftBehind, A!Calls, Objects
<1>4. QED
  BY <1>2, <1>3

-----------------------------------------------------------------------------
(* The theorems about the reading.                                          *)

\* "The first exception from fn is raised", and rows come in the order of the listing: in every
\* process, however its fetches finish, the objects it got are a prefix of those it selected,
\* none left out or twice, and it fails exactly at the object that could not be read.
THEOREM ReadAheadKeepsOrder == Spec => []OrderKept
<1>1. IngestInv => OrderKept
  BY ReadInvKeepsOrder DEF IngestInv, OrderKept, FilesOf, ReadInv
<1>2. QED
  BY <1>1, AlwaysIngestInv, PTL

\* "Never > window bytes-in-flight": besides the objects a process got, at most the one due and
\* prefetch more were asked for; and once its generator is closed none of its fetches is left.
THEOREM ReadAheadContained == Spec => []AheadContained
<1>1. IngestInv => AheadContained
  BY ReadInvContains DEF IngestInv, AheadContained
<1>2. QED
  BY <1>1, AlwaysIngestInv, PTL

\* "K shards with one limit cover those objects between them": over all processes and re-runs
\* no object beyond the first Limit ever has a file (the safety half of FirstObjectsStored).
THEOREM OnlyFirstObjectsStored == Spec => [](\A i \in Ids \ Wanted : files[i] = "none")
<1>1. IngestInv => \A i \in Ids \ Wanted : files[i] = "none"
  BY DEF IngestInv, FilesOf
<1>2. QED
  BY <1>1, AlwaysIngestInv, PTL
=============================================================================
