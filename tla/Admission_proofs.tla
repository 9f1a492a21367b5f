-------------------------- MODULE Admission_proofs --------------------------
(***************************************************************************)
(* Theorems about Admission, for every set of rows, threshold and window.  *)
(* One invariant carries them all: AInv, the types, the one opener of the  *)
(* circuit, the accounting of the slots and the attempts left to a row     *)
(* that backs off.  The window's Grant is proved about once, as a function *)
(* of the holders, the queue and the rows.                                 *)
(***************************************************************************)
EXTENDS Admission, Integers, FiniteSetTheorems, SequenceTheorems, TLAPS

\* A row backs off before an attempt that is left to it.
Budgeted == \A r \in Rows : pc[r] = "backoff" => attempt[r] < MaxAttempts

AInv == TypeOK /\ OneOpener /\ SlotAccounting /\ Budgeted

\* Who holds a slot and who queues for one, for given holders, queue and rows.
SlotsOK(h, q, p) ==
  /\ \A r \in Rows : p[r] \in {"granted", "sending", "backoff"} => r \in h
  /\ \A r \in h : p[r] \notin Finished \cup {"new", "queued"}
  /\ \A r \in Rows : p[r] = "queued" <=> \E i \in DOMAIN q : q[i] = r
  /\ \A i, j \in DOMAIN q : i # j => q[i] # q[j]

\* What a step does to the slots: they stay accounted for, and none is given out
\* above the limit.
SlotsKept ==
  /\ holders' \in SUBSET Rows /\ waiters' \in Seq(Rows) /\ pc' \in [Rows -> States]
  /\ SlotsOK(holders', waiters', pc')
  /\ waiters' # <<>> => Cardinality(holders') >= limit'
  /\ holders' \subseteq holders \/ Cardinality(holders') <= limit'

-----------------------------------------------------------------------------

LEMMA HoldersFinite ==
  ASSUME NEW h \in SUBSET Rows
  PROVE  IsFiniteSet(h) /\ Cardinality(h) \in Nat
BY AdmissionAssumption, FS_Subset, FS_CardinalityType

\* The heads of a queue without duplicates: as many as asked for.
LEMMA HeadsCount ==
  ASSUME NEW q \in Seq(Rows), \A i, j \in DOMAIN q : i # j => q[i] # q[j],
         NEW k \in 0..Len(q)
  PROVE  /\ {q[i] : i \in 1..k} \in SUBSET Rows
         /\ Cardinality({q[i] : i \in 1..k}) = k
<1> DEFINE T == {q[i] : i \in 1..k}
           f == [i \in 1..k |-> q[i]]
<1>1. DOMAIN q = 1..Len(q) /\ Len(q) \in Nat
  OBVIOUS
<1>2. \A i \in 1..k : i \in DOMAIN q /\ q[i] \in Rows
  BY <1>1
<1>3. f \in [1..k -> T] /\ \A t \in T : \E i \in 1..k : f[i] = t
  OBVIOUS
<1>4. \A i, j \in 1..k : f[i] = f[j] => i = j
  BY <1>2
<1> HIDE DEF f, T
<1>5. f \in Bijection(1..k, T)
  BY <1>3, <1>4 DEF Bijection, Injection, Surjection, IsInjective
<1>6. ExistsBijection(1..k, T)
  BY <1>5 DEF ExistsBijection
<1>7. Cardinality(T) = k
  <2>1. k \in Nat
    BY <1>1
  <2>2. QED
    BY <2>1, <1>6, FS_CountingElements
<1>8. QED
  BY <1>2, <1>7 DEF T

\* A queue that one row leaves keeps the others, in order.
LEMMA WithoutEffect ==
  ASSUME NEW q \in Seq(Rows), NEW r \in Rows,
         \A i, j \in DOMAIN q : i # j => q[i] # q[j]
  PROVE  /\ Without(q, r) \in Seq(Rows)
         /\ \A x \in Rows : (\E i \in DOMAIN Without(q, r) : Without(q, r)[i] = x)
                              <=> x # r /\ \E i \in DOMAIN q : q[i] = x
         /\ \A i, j \in DOMAIN Without(q, r) :
                              i # j => Without(q, r)[i] # Without(q, r)[j]
<1> DEFINE w == Without(q, r)
<1>1. CASE ~ \E i \in DOMAIN q : q[i] = r
  <2>1. w = q
    BY <1>1 DEF Without
  <2>2. QED
    BY <1>1, <2>1
<1>2. CASE \E i \in DOMAIN q : q[i] = r
  <2>1. PICK c \in DOMAIN q : q[c] = r
    BY <1>2
  <2>2. \A i \in DOMAIN q : q[i] = r <=> i = c
    BY <2>1
  <2>3. c \in 1..Len(q) /\ Len(q) \in Nat /\ DOMAIN q = 1..Len(q)
    BY <2>1
  <2>4. w = [i \in 1..(Len(q) - 1) |-> IF i < c THEN q[i] ELSE q[i + 1]]
    <3>1. w = [i \in 1..(Len(q) - 1) |->
                 IF \E j \in {k \in DOMAIN q : q[k] = r} : j <= i THEN q[i + 1] ELSE q[i]]
      BY <1>2 DEF Without
    <3>2. {k \in DOMAIN q : q[k] = r} = {c}
      BY <2>1, <2>2
    <3>3. \A i \in 1..(Len(q) - 1) : (\E j \in {c} : j <= i) <=> ~(i < c)
      BY <2>3
    <3>4. QED
      BY <3>1, <3>2, <3>3
  <2> HIDE DEF w
  <2>6. /\ w \in Seq(Rows) /\ DOMAIN w = 1..(Len(q) - 1)
        /\ \A i \in 1..(Len(q) - 1) : w[i] = IF i < c THEN q[i] ELSE q[i + 1]
    <3>1. \A i \in 1..(Len(q) - 1) : w[i] = IF i < c THEN q[i] ELSE q[i + 1]
      BY <2>4
    <3>2. \A i \in 1..(Len(q) - 1) : w[i] \in Rows
      BY <3>1, <2>3
    <3>3. Len(q) - 1 \in Nat /\ DOMAIN w = 1..(Len(q) - 1)
      BY <2>3, <2>4
    <3>4. w \in [1..(Len(q) - 1) -> Rows]
      BY <2>4, <3>2, <3>3
    <3>5. w \in Seq(Rows)
      BY <3>3, <3>4, IsASeq
    <3>6. QED
      BY <3>1, <3>3, <3>5
  <2> DEFINE at(i) == IF i < c THEN i ELSE i + 1
  <2>5. ASSUME NEW i \in DOMAIN w
        PROVE  at(i) \in DOMAIN q /\ at(i) # c /\ w[i] = q[at(i)]
    BY <2>3, <2>6
  <2>9. ASSUME NEW i \in DOMAIN w, NEW j \in DOMAIN w, i # j PROVE at(i) # at(j)
    BY <2>9, <2>3, <2>6
  <2> HIDE DEF at
  <2>7. ASSUME NEW x \in Rows
        PROVE  (\E i \in DOMAIN w : w[i] = x) <=> x # r /\ \E i \in DOMAIN q : q[i] = x
    <3>1. ASSUME NEW i \in DOMAIN w, w[i] = x PROVE x # r /\ \E j \in DOMAIN q : q[j] = x
      BY <3>1, <2>2, <2>5
    <3>2. ASSUME x # r, NEW i \in DOMAIN q, q[i] = x PROVE \E j \in DOMAIN w : w[j] = x
      <4>1. CASE i < c
        BY <3>2, <4>1, <2>3, <2>6
      <4>2. CASE i > c
        <5>1. i - 1 \in DOMAIN w /\ w[i - 1] = q[i]
          BY <4>2, <2>3, <2>6
        <5>2. QED
          BY <5>1, <3>2
      <4>3. QED
        BY <3>2, <4>1, <4>2, <2>1, <2>3
    <3>3. QED
      BY <3>1, <3>2
  <2>8. \A i, j \in DOMAIN w : i # j => w[i] # w[j]
    BY <2>5, <2>9
  <2>10. QED
    BY <2>6, <2>7, <2>8 DEF w
<1>3. QED
  BY <1>1, <1>2

-----------------------------------------------------------------------------

\* What the window does when a step leaves it h, q and n: it hands the free slots
\* to the head of the queue, and touches no other row.
LEMMA GrantEffect ==
  ASSUME NEW h \in SUBSET Rows, NEW q \in Seq(Rows), NEW n \in Nat,
         NEW p \in [Rows -> States], SlotsOK(h, q, p), Grant(h, q, n, p)
  PROVE  /\ holders' \in SUBSET Rows /\ waiters' \in Seq(Rows)
         /\ pc' \in [Rows -> States]
         /\ SlotsOK(holders', waiters', pc')
         /\ waiters' # <<>> => Cardinality(holders') >= n
         /\ holders' \subseteq h \/ Cardinality(holders') <= n
         /\ \A x \in Rows : \/ pc'[x] = p[x] /\ (x \in holders' <=> x \in h)
                            \/ p[x] = "queued" /\ pc'[x] = "granted"
<1> DEFINE free  == IF n > Cardinality(h) THEN n - Cardinality(h) ELSE 0
           k     == IF free < Len(q) THEN free ELSE Len(q)
           heads == {q[i] : i \in 1..k}
<1>1. /\ holders' = h \cup heads
      /\ waiters' = SubSeq(q, k + 1, Len(q))
      /\ pc' = [x \in Rows |-> IF x \in heads THEN "granted" ELSE p[x]]
  BY DEF Grant
<1>2. Cardinality(h) \in Nat /\ IsFiniteSet(h)
  BY HoldersFinite
<1>3. Len(q) \in Nat /\ DOMAIN q = 1..Len(q)
  OBVIOUS
<1>4. free \in Nat /\ k \in 0..Len(q) /\ k <= free
  BY <1>2, <1>3
<1>5. \A i, j \in DOMAIN q : i # j => q[i] # q[j]
  BY DEF SlotsOK
<1>6. heads \in SUBSET Rows /\ Cardinality(heads) = k
  BY <1>4, <1>5, HeadsCount
<1>7. \A x \in heads : p[x] = "queued"
  <2>1. \A i \in 1..k : i \in DOMAIN q
    BY <1>3, <1>4
  <2>2. QED
    BY <2>1, <1>6 DEF SlotsOK
<1>8. h \cap heads = {}
  BY <1>7 DEF SlotsOK
<1>9. Cardinality(h \cup heads) = Cardinality(h) + k
  <2>1. IsFiniteSet(heads)
    BY <1>6, HoldersFinite
  <2>2. Cardinality(h \cup heads) = Cardinality(h) + Cardinality(heads) - Cardinality({})
    BY <2>1, <1>2, <1>8, FS_Union
  <2>3. QED
    BY <2>2, <1>2, <1>4, <1>6, FS_EmptySet
<1>10. DOMAIN waiters' = 1..(Len(q) - k) /\ waiters' \in Seq(Rows)
       /\ \A i \in 1..(Len(q) - k) : waiters'[i] = q[k + i] /\ k + i \in DOMAIN q
  BY <1>1, <1>3, <1>4
<1> HIDE DEF free, k, heads
<1>11. waiters' # <<>> => k < Len(q)
  BY <1>3, <1>4, <1>10
<1>12. waiters' # <<>> => Cardinality(holders') >= n
  BY <1>1, <1>2, <1>3, <1>4, <1>9, <1>11 DEF free, k
<1>13. holders' \subseteq h \/ Cardinality(holders') <= n
  <2>1. CASE k = 0
    BY <2>1, <1>1 DEF heads
  <2>2. CASE k > 0
    BY <2>2, <1>1, <1>2, <1>3, <1>4, <1>9 DEF free, k
  <2>3. QED
    BY <2>1, <2>2, <1>4
<1>14. pc' \in [Rows -> States] /\ holders' \in SUBSET Rows
  BY <1>1, <1>6 DEF States, Awaiting
<1>15. ASSUME NEW x \in Rows
       PROVE  \/ pc'[x] = p[x] /\ (x \in holders' <=> x \in h)
              \/ p[x] = "queued" /\ pc'[x] = "granted" /\ x \in holders'
  BY <1>1, <1>7
<1>16. SlotsOK(holders', waiters', pc')
  <2>1. \A r \in Rows : pc'[r] \in {"granted", "sending", "backoff"} => r \in holders'
    BY <1>1 DEF SlotsOK
  <2>2. \A r \in holders' : pc'[r] \notin Finished \cup {"new", "queued"}
    BY <1>1, <1>6 DEF SlotsOK, Finished
  <2>3. ASSUME NEW r \in Rows
        PROVE  pc'[r] = "queued" <=> \E i \in DOMAIN waiters' : waiters'[i] = r
    <3>1. ASSUME NEW i \in DOMAIN waiters', waiters'[i] = r PROVE pc'[r] = "queued"
      <4>1. k + i \in DOMAIN q /\ q[k + i] = r
        BY <3>1, <1>10
      <4>2. r \notin heads
        BY <4>1, <1>3, <1>4, <1>5, <1>10, <3>1 DEF heads
      <4>3. QED
        BY <4>1, <4>2, <1>1 DEF SlotsOK
    <3>2. ASSUME pc'[r] = "queued" PROVE \E i \in DOMAIN waiters' : waiters'[i] = r
      <4>1. r \notin heads /\ p[r] = "queued"
        BY <3>2, <1>1
      <4>2. PICK j \in DOMAIN q : q[j] = r
        BY <4>1 DEF SlotsOK
      <4>3. j > k
        BY <4>1, <4>2, <1>3, <1>4 DEF heads
      <4>4. j - k \in 1..(Len(q) - k) /\ k + (j - k) = j
        BY <4>2, <4>3, <1>3, <1>4
      <4>5. QED
        BY <4>2, <4>4, <1>10
    <3>3. QED
      BY <3>1, <3>2
  <2>4. ASSUME NEW i \in DOMAIN waiters', NEW j \in DOMAIN waiters', i # j
        PROVE  waiters'[i] # waiters'[j]
    <3>1. k + i # k + j
      BY <2>4, <1>3, <1>4, <1>10
    <3>2. QED
      BY <3>1, <1>5, <1>10
  <2>5. QED
    BY <2>1, <2>2, <2>3, <2>4 DEF SlotsOK
<1>17. QED
  BY <1>10, <1>12, <1>13, <1>14, <1>15, <1>16

-----------------------------------------------------------------------------

\* What a step of one row does to another one: nothing, or it gets the slot that
\* came free, or the circuit closed and it wakes.
Bystander(x) ==
  \/ pc'[x] = pc[x] /\ (x \in holders' <=> x \in holders)
  \/ pc[x] = "queued" /\ pc'[x] = "granted"
  \/ pc[x] = "waiting" /\ pc'[x] = "woken" /\ (x \in holders' <=> x \in holders)

Others(r) == \A x \in Rows \ {r} : Bystander(x)

\* The rows' states a step may leave before the window is asked: as they are, or
\* with the rows that wait for the circuit woken.
Before(p) == p = pc \/ p = Woken(pc)

LEMMA BeforeEffect ==
  ASSUME TypeOK, NEW p, Before(p)
  PROVE  /\ p \in [Rows -> States]
         /\ \A x \in Rows : p[x] = pc[x] \/ (pc[x] = "waiting" /\ p[x] = "woken")
BY DEF TypeOK, Before, Woken, States, Awaiting

LEMMA LeaveEffect ==
  ASSUME AInv, NEW r \in Rows, NEW how \in Finished, NEW p, Before(p),
         Leave(r, how, p), limit' = limit
  PROVE  /\ SlotsKept /\ Others(r) /\ pc'[r] = how /\ r \notin holders'
         /\ \A x \in Rows \ {r} : pc'[x] = p[x] \/ pc'[x] = "granted"
<1> DEFINE h  == holders \ {r}
           q  == Without(waiters, r)
           p2 == [p EXCEPT ![r] = how]
<1>1. /\ holders \in SUBSET Rows /\ waiters \in Seq(Rows) /\ limit \in Nat
      /\ pc \in [Rows -> States]
  BY AdmissionAssumption DEF AInv, TypeOK
<1>2. /\ p \in [Rows -> States]
      /\ \A x \in Rows : p[x] = pc[x] \/ (pc[x] = "waiting" /\ p[x] = "woken")
  BY BeforeEffect DEF AInv
<1>3. SlotsOK(holders, waiters, pc)
  BY DEF AInv, SlotAccounting, SlotsOK
<1>4. /\ q \in Seq(Rows)
      /\ \A x \in Rows : (\E i \in DOMAIN q : q[i] = x)
                              <=> x # r /\ \E i \in DOMAIN waiters : waiters[i] = x
      /\ \A i, j \in DOMAIN q : i # j => q[i] # q[j]
  BY <1>1, <1>3, WithoutEffect DEF SlotsOK
<1>5. p2 \in [Rows -> States] /\ p2[r] = how /\ \A x \in Rows \ {r} : p2[x] = p[x]
  BY <1>2 DEF States
<1>6. h \in SUBSET Rows /\ Grant(h, q, limit, p2)
  BY <1>1 DEF Leave
<1> HIDE DEF q, p2
<1>7. SlotsOK(h, q, p2)
  <2>1. \A x \in Rows : p2[x] \in {"granted", "sending", "backoff"} => x \in h
    BY <1>2, <1>3, <1>5 DEF SlotsOK, Finished
  <2>2. \A x \in h : p2[x] \notin Finished \cup {"new", "queued"}
    BY <1>1, <1>2, <1>3, <1>5 DEF SlotsOK, Finished
  <2>3. ASSUME NEW x \in Rows
        PROVE  p2[x] = "queued" <=> \E i \in DOMAIN q : q[i] = x
    <3>1. CASE x = r
      BY <3>1, <1>4, <1>5 DEF Finished
    <3>2. CASE x # r
      BY <3>2, <1>2, <1>3, <1>4, <1>5 DEF SlotsOK
    <3>3. QED
      BY <3>1, <3>2
  <2>4. QED
    BY <2>1, <2>2, <2>3, <1>4 DEF SlotsOK
<1>8. /\ holders' \in SUBSET Rows /\ waiters' \in Seq(Rows)
      /\ pc' \in [Rows -> States]
      /\ SlotsOK(holders', waiters', pc')
      /\ waiters' # <<>> => Cardinality(holders') >= limit
      /\ holders' \subseteq h \/ Cardinality(holders') <= limit
      /\ \A x \in Rows : \/ pc'[x] = p2[x] /\ (x \in holders' <=> x \in h)
                         \/ p2[x] = "queued" /\ pc'[x] = "granted"
  <2>1. q \in Seq(Rows) /\ limit \in Nat /\ p2 \in [Rows -> States]
    BY <1>1, <1>4, <1>5
  <2> HIDE DEF h
  <2>2. QED
    BY <2>1, <1>6, <1>7, GrantEffect
<1>9. SlotsKept
  BY <1>8 DEF SlotsKept
<1>10. pc'[r] = how /\ r \notin holders'
  BY <1>5, <1>8 DEF Finished
<1>11. Others(r)
  <2>1. ASSUME NEW x \in Rows \ {r} PROVE Bystander(x)
    <3>1. \/ pc'[x] = p[x] /\ (x \in holders' <=> x \in holders)
          \/ p[x] = "queued" /\ pc'[x] = "granted"
      BY <1>5, <1>8
    <3>2. QED
      BY <3>1, <1>2 DEF Bystander
  <2>2. QED
    BY <2>1 DEF Others
<1>12. \A x \in Rows \ {r} : pc'[x] = p[x] \/ pc'[x] = "granted"
  BY <1>5, <1>8
<1>13. QED
  BY <1>9, <1>10, <1>11, <1>12

\* A row that was let through the gate: it sends, queues, or finds the loop gone.
LEMMA PassEffect ==
  ASSUME AInv, NEW r \in Rows, NEW p, Before(p), Pass(r, p), limit' = limit,
         pc[r] \in {"new", "woken", "granted", "backoff", "probing"},
         pc[r] = "granted" => LoopRuns
  PROVE  /\ SlotsKept /\ Others(r) /\ pc'[r] \in {"sending", "queued", "raised"}
         /\ \A x \in Rows \ {r} : pc'[x] = p[x]
         /\ controller = "ended" /\ r \in holders' => r \in holders /\ pc[r] # "granted"
<1>1. /\ holders \in SUBSET Rows /\ waiters \in Seq(Rows) /\ limit \in Nat
      /\ pc \in [Rows -> States] /\ r \notin {} /\ DOMAIN waiters = 1..Len(waiters)
  BY AdmissionAssumption DEF AInv, TypeOK
<1>2. /\ p \in [Rows -> States]
      /\ \A x \in Rows : p[x] = pc[x] \/ (pc[x] = "waiting" /\ p[x] = "woken")
  BY BeforeEffect DEF AInv
<1>3. /\ SlotsOK(holders, waiters, pc)
      /\ waiters # <<>> => Cardinality(holders) >= limit
  BY DEF AInv, SlotAccounting, SlotsOK
<1>4. p[r] = pc[r]
  BY <1>2
<1>5. CASE r \in holders
  <2>1. pc' = [p EXCEPT ![r] = "sending"] /\ holders' = holders /\ waiters' = waiters
    BY <1>5 DEF Pass, slotVars
  <2>2. pc' \in [Rows -> States]
    BY <2>1, <1>2 DEF States, Awaiting
  <2>3. SlotsOK(holders', waiters', pc')
    BY <2>1, <1>1, <1>2, <1>3, <1>4, <1>5 DEF SlotsOK, Finished
  <2>4. SlotsKept
    BY <2>1, <2>2, <2>3, <1>1, <1>3 DEF SlotsKept
  <2>5. Others(r)
    BY <2>1, <1>2 DEF Others, Bystander
  <2>6. controller = "ended" => pc[r] # "granted"
    BY DEF LoopRuns
  <2>7. QED
    BY <2>1, <2>4, <2>5, <2>6, <1>2, <1>5
<1>6. CASE r \notin holders /\ ~LoopRuns
  <2>1. pc' = [p EXCEPT ![r] = "raised"] /\ holders' = holders /\ waiters' = waiters
    BY <1>6 DEF Pass, Acquire, slotVars
  <2>2. pc' \in [Rows -> States]
    BY <2>1, <1>2 DEF States, Finished
  <2>3. SlotsOK(holders', waiters', pc')
    BY <2>1, <1>1, <1>2, <1>3, <1>4, <1>6 DEF SlotsOK, Finished
  <2>4. SlotsKept
    BY <2>1, <2>2, <2>3, <1>1, <1>3 DEF SlotsKept
  <2>5. Others(r)
    BY <2>1, <1>2 DEF Others, Bystander
  <2>6. QED
    BY <2>1, <2>4, <2>5, <1>2, <1>6
<1>7. CASE r \notin holders /\ LoopRuns /\ waiters = <<>> /\ Cardinality(holders) < limit
  <2>1. /\ pc' = [p EXCEPT ![r] = "sending"] /\ holders' = holders \cup {r}
        /\ waiters' = waiters
    BY <1>7 DEF Pass, Acquire
  <2>2. pc' \in [Rows -> States]
    BY <2>1, <1>2 DEF States, Awaiting
  <2>3. SlotsOK(holders', waiters', pc')
    BY <2>1, <1>1, <1>2, <1>3, <1>4, <1>7 DEF SlotsOK, Finished
  <2>4. Cardinality(holders') <= limit'
    <3>1. Cardinality(holders') = Cardinality(holders) + 1
      BY <2>1, <1>1, <1>7, HoldersFinite, FS_AddElement
    <3>2. QED
      BY <3>1, <1>1, <1>7, HoldersFinite
  <2>5. SlotsKept
    BY <2>1, <2>2, <2>3, <2>4, <1>1, <1>7 DEF SlotsKept
  <2>6. Others(r)
    BY <2>1, <1>2 DEF Others, Bystander
  <2>7. QED
    BY <2>1, <2>5, <2>6, <1>2, <1>7 DEF LoopRuns
<1>8. CASE r \notin holders /\ LoopRuns /\ ~(waiters = <<>> /\ Cardinality(holders) < limit)
  <2>1. /\ pc' = [p EXCEPT ![r] = "queued"] /\ holders' = holders
        /\ waiters' = Append(waiters, r)
    BY <1>8 DEF Pass, Acquire
  <2>2. pc' \in [Rows -> States]
    BY <2>1, <1>2 DEF States, Awaiting
  <2>3. /\ waiters' \in Seq(Rows) /\ DOMAIN waiters' = 1..(Len(waiters) + 1)
        /\ \A i \in 1..(Len(waiters) + 1) :
             waiters'[i] = IF i = Len(waiters) + 1 THEN r ELSE waiters[i]
    BY <2>1, <1>1
  <2>4. \A i \in DOMAIN waiters : waiters[i] # r
    BY <1>3, <1>4 DEF SlotsOK
  <2>5. SlotsOK(holders', waiters', pc')
    <3>1. \A x \in Rows : pc'[x] = "queued" <=> \E i \in DOMAIN waiters' : waiters'[i] = x
      <4>1. \A x \in Rows : (\E i \in DOMAIN waiters' : waiters'[i] = x)
                <=> x = r \/ \E i \in DOMAIN waiters : waiters[i] = x
        BY <2>3, <1>1
      <4>2. \A x \in Rows : pc'[x] = "queued" <=> x = r \/ pc[x] = "queued"
        BY <2>1, <1>2
      <4>3. QED
        BY <4>1, <4>2, <1>3 DEF SlotsOK
    <3>2. \A i, j \in DOMAIN waiters' : i # j => waiters'[i] # waiters'[j]
      BY <2>3, <2>4, <1>1, <1>3 DEF SlotsOK
    <3>3. \A x \in Rows : pc'[x] \in {"granted", "sending", "backoff"} => x \in holders'
      BY <2>1, <1>2, <1>3 DEF SlotsOK
    <3>4. \A x \in holders' : pc'[x] \notin Finished \cup {"new", "queued"}
      BY <2>1, <1>1, <1>2, <1>3, <1>8 DEF SlotsOK, Finished
    <3>5. QED
      BY <3>1, <3>2, <3>3, <3>4 DEF SlotsOK
  <2>6. Cardinality(holders) >= limit
    BY <1>1, <1>3, <1>8, HoldersFinite
  <2>7. SlotsKept
    BY <2>1, <2>2, <2>3, <2>5, <2>6, <1>1 DEF SlotsKept
  <2>8. Others(r)
    BY <2>1, <1>2 DEF Others, Bystander
  <2>9. QED
    BY <2>1, <2>7, <2>8, <1>2, <1>8
<1>9. QED
  BY <1>5, <1>6, <1>7, <1>8

\* A row changes its state and no slot.
LEMMA OwnMove ==
  ASSUME AInv, NEW r \in Rows, NEW s \in {"waiting", "probing", "pausing", "backoff"},
         pc[r] # "queued", s = "backoff" => r \in holders,
         pc' = [pc EXCEPT ![r] = s], UNCHANGED slotVars, limit' = limit
  PROVE  SlotsKept /\ Others(r) /\ pc'[r] = s
<1>1. /\ holders \in SUBSET Rows /\ waiters \in Seq(Rows) /\ pc \in [Rows -> States]
      /\ holders' = holders /\ waiters' = waiters
  BY DEF AInv, TypeOK, slotVars
<1>2. /\ SlotsOK(holders, waiters, pc)
      /\ waiters # <<>> => Cardinality(holders) >= limit
  BY DEF AInv, SlotAccounting, SlotsOK
<1>3. pc' \in [Rows -> States] /\ pc'[r] = s
  BY <1>1 DEF States, Awaiting, Opening
<1>4. SlotsOK(holders', waiters', pc')
  BY <1>1, <1>2 DEF SlotsOK, Finished
<1>5. SlotsKept
  BY <1>1, <1>2, <1>3, <1>4 DEF SlotsKept
<1>6. Others(r)
  BY <1>1 DEF Others, Bystander
<1>7. QED
  BY <1>3, <1>5, <1>6

-----------------------------------------------------------------------------
(* From what one row does to the invariant and the action properties.       *)

Breakers == open \in BOOLEAN /\ dead \in BOOLEAN /\ consecutive \in Nat /\ probes \in 0..Probes

\* The bodies of PausedWhileOpen and NoAdmissionWithoutLoop.
Paused   == \A r \in Rows : pc[r] # "sending" /\ pc'[r] = "sending" =>
                               ~open' /\ ~dead' /\ consecutive' < Threshold
LoopGone == controller = "ended" => Admitted' \subseteq Admitted

\* Only a row with an attempt left starts to back off.
Backoffs == \A r \in Rows : pc'[r] = "backoff" => pc[r] = "backoff" \/ attempt[r] < MaxAttempts

Kept == SlotsKept /\ OneOpener' /\ Breakers' /\ Paused /\ LoopGone /\ Backoffs

\* The circuit as a step of r leaves it: as it was, opened by r, or closed by r.
Circuit(r) ==
  \/ /\ open' = open /\ (pc'[r] \in Opening <=> pc[r] \in Opening)
     /\ pc'[r] = "waiting" => open
  \/ ~open /\ open' = TRUE /\ pc'[r] = "probing"
  \/ /\ open' = FALSE /\ pc[r] \in Opening /\ pc'[r] \notin Opening \cup {"waiting"}
     /\ \A x \in Rows \ {r} : pc'[x] # "waiting"

\* A bystander neither opens nor sends nor waits nor is admitted.
LEMMA BystanderEffect ==
  ASSUME NEW x, Bystander(x)
  PROVE  /\ pc'[x] \in Opening <=> pc[x] \in Opening
         /\ pc'[x] = "waiting" => pc[x] = "waiting"
         /\ pc'[x] = "sending" => pc[x] = "sending"
         /\ pc'[x] = "backoff" => pc[x] = "backoff"
         /\ x \in holders' /\ pc'[x] # "granted" => x \in holders /\ pc[x] # "granted"
BY DEF Bystander, Opening

LEMMA RowStep ==
  ASSUME AInv, NEW r \in Rows, SlotsKept, Others(r), Breakers', Circuit(r),
         dead' => ~open', pc'[r] = "backoff" => attempt[r] < MaxAttempts,
         pc'[r] = "sending" => ~open' /\ ~dead' /\ consecutive' < Threshold,
         controller = "ended" /\ r \in holders' => r \in holders /\ pc[r] # "granted"
  PROVE  Kept
<1>1. /\ \A x, y \in Rows : pc[x] \in Opening /\ pc[y] \in Opening => x = y
      /\ open <=> \E x \in Rows : pc[x] \in Opening
      /\ \A x \in Rows : pc[x] = "waiting" => open
  BY DEF AInv, OneOpener
<1>2. \A x \in Rows \ {r} :
         /\ pc'[x] \in Opening <=> pc[x] \in Opening
         /\ pc'[x] = "waiting" => pc[x] = "waiting"
         /\ pc'[x] = "sending" => pc[x] = "sending"
         /\ pc'[x] = "backoff" => pc[x] = "backoff"
         /\ x \in holders' /\ pc'[x] # "granted" => x \in holders /\ pc[x] # "granted"
  BY BystanderEffect DEF Others
<1>3. "probing" \in Opening /\ "waiting" \notin Opening
  BY DEF Opening
<1> HIDE DEF Opening
<1>4. OneOpener'
  <2>1. CASE /\ open' = open /\ (pc'[r] \in Opening <=> pc[r] \in Opening)
             /\ pc'[r] = "waiting" => open
    BY <2>1, <1>1, <1>2 DEF OneOpener
  <2>2. CASE ~open /\ open' = TRUE /\ pc'[r] = "probing"
    BY <2>2, <1>1, <1>2, <1>3 DEF OneOpener
  <2>3. CASE /\ open' = FALSE /\ pc[r] \in Opening
             /\ pc'[r] \notin Opening \cup {"waiting"}
             /\ \A x \in Rows \ {r} : pc'[x] # "waiting"
    BY <2>3, <1>1, <1>2 DEF OneOpener
  <2>4. QED
    BY <2>1, <2>2, <2>3 DEF Circuit
<1>5. Paused
  BY <1>2 DEF Paused
<1>6. LoopGone
  <2>1. holders' \subseteq Rows
    BY DEF SlotsKept
  <2>2. ASSUME controller = "ended", NEW x \in Admitted' PROVE x \in Admitted
    <3>1. x \in Rows /\ x \in holders' /\ pc'[x] # "granted"
      BY <2>1, <2>2 DEF Admitted
    <3>2. QED
      BY <3>1, <2>2, <1>2 DEF Admitted
  <2>3. QED
    BY <2>2 DEF LoopGone
<1>7. Backoffs
  BY <1>2 DEF Backoffs
<1>8. QED
  BY <1>4, <1>5, <1>6, <1>7 DEF Kept

\* The gate lets a row through, makes it wait or fail, or makes it the opener.
LEMMA GateKeeps ==
  ASSUME AInv, NEW r \in Rows, pc[r] \in {"new", "woken", "granted", "backoff"},
         pc[r] = "granted" => LoopRuns, Gate(r), limit' = limit
  PROVE  Kept /\ pc'[r] # "backoff"
<1>1. /\ Breakers /\ Before(pc) /\ pc[r] \notin Opening /\ pc[r] # "queued"
      /\ Probes \in Nat /\ (dead => ~open)
  BY AdmissionAssumption DEF AInv, TypeOK, OneOpener, Breakers, Before, Opening
<1>2. CASE dead /\ Leave(r, "raised", pc) /\ UNCHANGED breakerVars
  <2>1. "raised" \in Finished /\ "raised" \notin Opening
    BY DEF Finished, Opening
  <2>2. /\ SlotsKept /\ Others(r) /\ pc'[r] = "raised" /\ r \notin holders'
    BY <1>1, <1>2, <2>1, LeaveEffect
  <2>3. Circuit(r) /\ Breakers' /\ (dead' => ~open')
    BY <1>1, <1>2, <2>1, <2>2 DEF Circuit, Breakers, breakerVars
  <2>4. QED
    BY <2>2, <2>3, RowStep
<1>3. CASE /\ ~dead /\ open
           /\ pc' = [pc EXCEPT ![r] = "waiting"] /\ UNCHANGED <<breakerVars, slotVars>>
  <2>1. SlotsKept /\ Others(r) /\ pc'[r] = "waiting"
    BY <1>1, <1>3, OwnMove
  <2>2. Circuit(r) /\ Breakers' /\ (dead' => ~open')
    BY <1>1, <1>3, <2>1 DEF Circuit, Breakers, breakerVars, Opening
  <2>3. controller = "ended" /\ r \in holders' => r \in holders /\ pc[r] # "granted"
    BY <1>3 DEF slotVars, LoopRuns
  <2>4. QED
    BY <2>1, <2>2, <2>3, RowStep
<1>4. CASE /\ ~dead /\ ~open /\ consecutive < Threshold
           /\ Pass(r, pc) /\ UNCHANGED breakerVars
  <2>1. /\ SlotsKept /\ Others(r) /\ pc'[r] \in {"sending", "queued", "raised"}
        /\ controller = "ended" /\ r \in holders' => r \in holders /\ pc[r] # "granted"
    BY <1>1, <1>4, PassEffect
  <2>2. Circuit(r) /\ Breakers' /\ (dead' => ~open')
    BY <1>1, <1>4, <2>1 DEF Circuit, Breakers, breakerVars, Opening
  <2>3. ~open' /\ ~dead' /\ consecutive' < Threshold
    BY <1>4 DEF breakerVars
  <2>4. QED
    BY <2>1, <2>2, <2>3, RowStep
<1>5. CASE /\ ~dead /\ ~open /\ consecutive >= Threshold
           /\ open' = TRUE /\ probes' = Probes
           /\ pc' = [pc EXCEPT ![r] = "probing"] /\ UNCHANGED <<dead, consecutive, slotVars>>
  <2>1. SlotsKept /\ Others(r) /\ pc'[r] = "probing"
    BY <1>1, <1>5, OwnMove
  <2>2. Circuit(r) /\ Breakers' /\ (dead' => ~open')
    <3>1. Circuit(r) /\ ~dead'
      BY <1>5, <2>1 DEF Circuit
    <3>2. open' \in BOOLEAN /\ dead' \in BOOLEAN /\ consecutive' \in Nat
      BY <1>1, <1>5 DEF Breakers
    <3>3. probes' \in 0..Probes
      BY <1>1, <1>5
    <3>4. QED
      BY <3>1, <3>2, <3>3 DEF Breakers
  <2>3. controller = "ended" /\ r \in holders' => r \in holders /\ pc[r] # "granted"
    BY <1>5 DEF slotVars, LoopRuns
  <2>4. QED
    BY <2>1, <2>2, <2>3, RowStep
<1>6. QED
  BY <1>2, <1>3, <1>4, <1>5 DEF Gate

-----------------------------------------------------------------------------
(* One lemma per action.                                                    *)

\* What the rows' ladder and the loop keep of their own, by inspection.
Ladder == /\ limit \in 1..MaxLimit /\ controller \in {"running", "ended"}
          /\ counts \in Nat /\ decided \in Nat
          /\ attempt \in [Rows -> 1..MaxAttempts] /\ pressured \in [Rows -> BOOLEAN]

LadderKept == /\ Ladder'
              /\ \A r \in Rows : pc'[r] = "backoff" => attempt'[r] = attempt[r]

\* A Kept step that keeps these types keeps the invariant.
LEMMA KeptIsEnough ==
  ASSUME AInv, Kept, LadderKept
  PROVE  AInv'
<1>1. TypeOK'
  BY DEF Kept, SlotsKept, Breakers, Ladder, LadderKept, TypeOK
<1>2. SlotAccounting'
  BY DEF Kept, SlotsKept, SlotsOK, SlotAccounting
<1>3. Budgeted'
  BY DEF AInv, Budgeted, Kept, Backoffs, LadderKept
<1>4. QED
  BY <1>1, <1>2, <1>3 DEF Kept, AInv

\* A row that ends leaves its slot, and the circuit as it was if it is no opener.
LEMMA LeaveKeeps ==
  ASSUME AInv, NEW r \in Rows, NEW how \in Finished, Leave(r, how, pc),
         pc[r] \notin Opening, UNCHANGED <<open, dead>>, Breakers', limit' = limit
  PROVE  Kept
<1>1. /\ Before(pc) /\ how \notin Opening /\ how # "waiting"
      /\ how # "sending" /\ how # "backoff"
  BY DEF Before, Finished, Opening
<1>2. SlotsKept /\ Others(r) /\ pc'[r] = how /\ r \notin holders'
  BY <1>1, LeaveEffect
<1>3. Circuit(r) /\ (dead' => ~open')
  BY <1>1, <1>2 DEF Circuit, AInv, OneOpener
<1>4. QED
  BY <1>1, <1>2, <1>3, RowStep

\* An opener that ends closes the circuit and leaves nobody waiting.
LEMMA OpenerLeaves ==
  ASSUME AInv, NEW r \in Rows, NEW how \in Finished, Leave(r, how, Woken(pc)),
         pc[r] \in Opening, open' = FALSE, Breakers', limit' = limit
  PROVE  Kept
<1>1. /\ Before(Woken(pc)) /\ how \notin Opening \cup {"waiting"}
      /\ how # "sending" /\ how # "backoff"
      /\ \A x \in Rows : Woken(pc)[x] # "waiting"
  BY DEF Before, Finished, Opening, Woken
<1>2. /\ SlotsKept /\ Others(r) /\ pc'[r] = how /\ r \notin holders'
      /\ \A x \in Rows \ {r} : pc'[x] = Woken(pc)[x] \/ pc'[x] = "granted"
  BY <1>1, LeaveEffect
<1>3. Circuit(r)
  BY <1>1, <1>2 DEF Circuit
<1>4. QED
  BY <1>1, <1>2, <1>3, RowStep

LEMMA ProbeAnsweredKeeps ==
  ASSUME AInv, NEW r \in Rows, ProbeAnswered(r)
  PROVE  Kept /\ AInv'
<1>1. /\ pc[r] = "probing" /\ consecutive' = 0 /\ open' = FALSE /\ Pass(r, Woken(pc))
      /\ UNCHANGED <<dead, probes, limit, loopVars, ladderVars>>
  BY DEF ProbeAnswered
<1>2. /\ Before(Woken(pc)) /\ pc[r] \in Opening
      /\ \A x \in Rows : Woken(pc)[x] # "waiting"
  BY <1>1 DEF Before, Opening, Woken
<1>3. /\ SlotsKept /\ Others(r) /\ pc'[r] \in {"sending", "queued", "raised"}
      /\ \A x \in Rows \ {r} : pc'[x] = Woken(pc)[x]
      /\ controller = "ended" /\ r \in holders' => r \in holders /\ pc[r] # "granted"
  BY <1>1, <1>2, PassEffect
<1>4. Circuit(r)
  BY <1>1, <1>2, <1>3 DEF Circuit, Opening
<1>5. Breakers' /\ LadderKept
  BY <1>1 DEF AInv, TypeOK, Breakers, Ladder, LadderKept, loopVars, ladderVars
<1>6. ~dead' /\ 0 < Threshold
  BY <1>1, <1>2, AdmissionAssumption DEF AInv, OneOpener
<1>7. QED
  BY <1>1, <1>3, <1>4, <1>5, <1>6, RowStep, KeptIsEnough

LEMMA ProbesKeep ==
  ASSUME AInv, NEW r \in Rows, ProbeFailed(r) \/ ProbeAgain(r)
  PROVE  Kept /\ AInv'
<1>1. /\ pc[r] \in Opening /\ pc[r] # "queued" /\ pc[r] # "granted"
      /\ UNCHANGED <<open, dead, consecutive, limit, slotVars, loopVars, ladderVars>>
      /\ pc' = [pc EXCEPT ![r] = "pausing"] \/ pc' = [pc EXCEPT ![r] = "probing"]
  BY DEF ProbeFailed, ProbeAgain, Opening, breakerVars
<1>2. probes' \in 0..Probes
  BY AdmissionAssumption DEF AInv, TypeOK, ProbeFailed, ProbeAgain, breakerVars
<1>3. SlotsKept /\ Others(r) /\ pc'[r] \in {"probing", "pausing"}
  BY <1>1, OwnMove
<1>4. Circuit(r) /\ (dead' => ~open')
  BY <1>1, <1>3 DEF Circuit, Opening, AInv, OneOpener
<1>5. Breakers' /\ LadderKept
  BY <1>1, <1>2 DEF AInv, TypeOK, Breakers, Ladder, LadderKept, loopVars, ladderVars
<1>6. controller = "ended" /\ r \in holders' => r \in holders /\ pc[r] # "granted"
  BY <1>1 DEF slotVars
<1>7. QED
  BY <1>3, <1>4, <1>5, <1>6, RowStep, KeptIsEnough

LEMMA BreakerGivesUpKeeps ==
  ASSUME AInv, NEW r \in Rows, BreakerGivesUp(r)
  PROVE  Kept /\ AInv'
<1>1. /\ pc[r] \in Opening /\ dead' = TRUE /\ open' = FALSE
      /\ Leave(r, "raised", Woken(pc)) /\ "raised" \in Finished
      /\ UNCHANGED <<consecutive, probes, limit, loopVars, ladderVars>>
  BY DEF BreakerGivesUp, Opening, Finished
<1>2. Breakers' /\ LadderKept
  BY <1>1 DEF AInv, TypeOK, Breakers, Ladder, LadderKept, loopVars, ladderVars
<1>3. QED
  BY <1>1, <1>2, OpenerLeaves, KeptIsEnough

LEMMA PostKeeps ==
  ASSUME AInv, NEW r \in Rows, Post(r)
  PROVE  Kept /\ AInv'
<1>1. Kept
  BY GateKeeps DEF Post
<1>2. LadderKept
  BY DEF Post, AInv, TypeOK, Ladder, LadderKept, loopVars, ladderVars
<1>3. QED
  BY <1>1, <1>2, KeptIsEnough

LEMMA GrantedKeeps ==
  ASSUME AInv, NEW r \in Rows, Granted(r)
  PROVE  Kept /\ AInv'
<1>1. LadderKept
  BY DEF Granted, AInv, TypeOK, Ladder, LadderKept, loopVars, ladderVars
<1>2. CASE LoopRuns /\ Gate(r)
  <2>1. Kept
    BY <1>2, GateKeeps DEF Granted
  <2>2. QED
    BY <2>1, <1>1, KeptIsEnough
<1>3. CASE Leave(r, "raised", pc) /\ UNCHANGED breakerVars
  <2>1. "raised" \in Finished /\ pc[r] \notin Opening /\ limit' = limit
    BY DEF Finished, Opening, Granted
  <2>2. Breakers' /\ UNCHANGED <<open, dead>>
    BY <1>3 DEF AInv, TypeOK, Breakers, breakerVars
  <2>3. Kept
    BY <1>3, <2>1, <2>2, LeaveKeeps
  <2>4. QED
    BY <2>3, <1>1, KeptIsEnough
<1>4. QED
  BY <1>2, <1>3 DEF Granted

LEMMA SucceededKeeps ==
  ASSUME AInv, NEW r \in Rows, Succeeded(r)
  PROVE  Kept /\ AInv'
<1>1. /\ pc[r] \notin Opening /\ Leave(r, "ok", pc) /\ "ok" \in Finished
      /\ consecutive' = 0 /\ UNCHANGED <<open, dead, probes, limit, loopVars, ladderVars>>
  BY DEF Succeeded, Opening, Finished
<1>2. Breakers' /\ LadderKept
  BY <1>1 DEF AInv, TypeOK, Breakers, Ladder, LadderKept, loopVars, ladderVars
<1>3. QED
  BY <1>1, <1>2, LeaveKeeps, KeptIsEnough

LEMMA AttemptFailedKeeps ==
  ASSUME AInv, NEW r \in Rows, NEW a \in Replies, AttemptFailed(r, a)
  PROVE  Kept /\ AInv'
<1>1. /\ pc[r] = "sending" /\ pc[r] \notin Opening
      /\ UNCHANGED <<open, dead, probes, limit, controller, decided, attempt>>
      /\ consecutive' = consecutive + (IF CountsFailure(a) THEN 1 ELSE 0)
      /\ counts' = counts + (IF Reports(r, a) THEN 1 ELSE 0)
      /\ pressured' = [pressured EXCEPT ![r] = @ \/ Pressure(a)]
  BY DEF AttemptFailed, Opening
<1>2. Breakers'
  BY <1>1 DEF AInv, TypeOK, Breakers
<1>3. LadderKept
  <2>1. counts' \in Nat
    BY <1>1 DEF AInv, TypeOK
  <2>2. pressured' \in [Rows -> BOOLEAN]
    BY <1>1 DEF AInv, TypeOK, Pressure
  <2>3. QED
    BY <1>1, <2>1, <2>2 DEF AInv, TypeOK, Ladder, LadderKept
<1>4. CASE pc' = [pc EXCEPT ![r] = "backoff"] /\ UNCHANGED slotVars
  <2>1. r \in holders /\ attempt[r] < MaxAttempts
    <3>1. r \in holders
      BY <1>1 DEF AInv, SlotAccounting
    <3>2. TriesAgain(r, a)
      BY <1>1, <1>4 DEF AttemptFailed, Leave, Grant, Finished
    <3>3. QED
      BY <3>1, <3>2 DEF TriesAgain
  <2>2. SlotsKept /\ Others(r) /\ pc'[r] = "backoff"
    BY <1>1, <1>4, <2>1, OwnMove
  <2>3. Circuit(r) /\ (dead' => ~open')
    BY <1>1, <2>2 DEF Circuit, Opening, AInv, OneOpener
  <2>4. Kept
    BY <1>1, <1>2, <2>1, <2>2, <2>3, RowStep
  <2>5. QED
    BY <2>4, <1>3, KeptIsEnough
<1>5. CASE Leave(r, "failed", pc)
  <2>1. "failed" \in Finished
    BY DEF Finished
  <2>2. QED
    BY <1>1, <1>2, <1>3, <1>5, <2>1, LeaveKeeps, KeptIsEnough
<1>6. QED
  BY <1>4, <1>5 DEF AttemptFailed

LEMMA BudgetOverKeeps ==
  ASSUME AInv, NEW r \in Rows, BudgetOver(r)
  PROVE  Kept /\ AInv'
<1>1. /\ pc[r] \notin Opening /\ Leave(r, "failed", pc) /\ "failed" \in Finished
      /\ UNCHANGED <<open, dead, consecutive, probes, limit, loopVars, ladderVars>>
  BY DEF BudgetOver, Opening, Finished, breakerVars
<1>2. Breakers' /\ LadderKept
  BY <1>1 DEF AInv, TypeOK, Breakers, Ladder, LadderKept, loopVars, ladderVars
<1>3. QED
  BY <1>1, <1>2, LeaveKeeps, KeptIsEnough

LEMMA RetryKeeps ==
  ASSUME AInv, NEW r \in Rows, Retry(r)
  PROVE  Kept /\ AInv'
<1>1. /\ pc[r] = "backoff" /\ attempt' = [attempt EXCEPT ![r] = @ + 1] /\ Gate(r)
      /\ UNCHANGED <<limit, loopVars, pressured>>
  BY DEF Retry
<1>2. Kept /\ pc'[r] # "backoff"
  BY <1>1, GateKeeps
<1>3. attempt' \in [Rows -> 1..MaxAttempts]
  <2>1. attempt \in [Rows -> 1..MaxAttempts] /\ attempt[r] < MaxAttempts
    BY <1>1 DEF AInv, TypeOK, Budgeted
  <2>2. attempt[r] + 1 \in 1..MaxAttempts
    BY <2>1, AdmissionAssumption
  <2>3. QED
    BY <1>1, <2>1, <2>2
<1>4. LadderKept
  <2>1. \A x \in Rows \ {r} : attempt'[x] = attempt[x]
    BY <1>1 DEF AInv, TypeOK
  <2>2. Ladder'
    BY <1>1, <1>3 DEF AInv, TypeOK, Ladder, loopVars
  <2>3. QED
    BY <1>2, <2>1, <2>2 DEF LadderKept
<1>5. QED
  BY <1>2, <1>4, KeptIsEnough

LEMMA CancelledKeeps ==
  ASSUME AInv, NEW r \in Rows, Cancelled(r)
  PROVE  Kept /\ AInv'
<1>1. /\ UNCHANGED <<dead, consecutive, probes, limit, loopVars, ladderVars>>
      /\ "cancelled" \in Finished
  BY DEF Cancelled, Finished
<1>2. LadderKept
  BY <1>1 DEF AInv, TypeOK, Ladder, LadderKept, loopVars, ladderVars
<1>3. CASE pc[r] \in Opening
  <2>1. open' = FALSE /\ Leave(r, "cancelled", Woken(pc))
    BY <1>3 DEF Cancelled
  <2>2. Breakers'
    BY <1>1, <2>1 DEF AInv, TypeOK, Breakers
  <2>3. QED
    BY <1>1, <1>2, <1>3, <2>1, <2>2, OpenerLeaves, KeptIsEnough
<1>4. CASE pc[r] \notin Opening
  <2>1. open' = open /\ Leave(r, "cancelled", pc)
    BY <1>4 DEF Cancelled
  <2>2. Breakers'
    BY <1>1, <2>1 DEF AInv, TypeOK, Breakers
  <2>3. QED
    BY <1>1, <1>2, <1>4, <2>1, <2>2, LeaveKeeps, KeptIsEnough
<1>5. QED
  BY <1>3, <1>4

\* A step in which every row is a bystander.
LEMMA LoopStep ==
  ASSUME AInv, SlotsKept, \A x \in Rows : Bystander(x), UNCHANGED breakerVars
  PROVE  Kept
<1>1. /\ \A x, y \in Rows : pc[x] \in Opening /\ pc[y] \in Opening => x = y
      /\ open <=> \E x \in Rows : pc[x] \in Opening
      /\ \A x \in Rows : pc[x] = "waiting" => open
      /\ dead => ~open
  BY DEF AInv, OneOpener
<1>2. \A x \in Rows :
         /\ pc'[x] \in Opening <=> pc[x] \in Opening
         /\ pc'[x] = "waiting" => pc[x] = "waiting"
         /\ pc'[x] = "sending" => pc[x] = "sending"
         /\ pc'[x] = "backoff" => pc[x] = "backoff"
         /\ x \in holders' /\ pc'[x] # "granted" => x \in holders /\ pc[x] # "granted"
  BY BystanderEffect
<1> HIDE DEF Opening
<1>3. OneOpener' /\ Paused /\ Backoffs
  BY <1>1, <1>2 DEF OneOpener, Paused, Backoffs, breakerVars
<1>4. LoopGone
  BY <1>2 DEF LoopGone, Admitted, SlotsKept
<1>5. Breakers'
  BY DEF AInv, TypeOK, Breakers, breakerVars
<1>6. QED
  BY <1>3, <1>4, <1>5 DEF Kept

LEMMA TickKeeps ==
  ASSUME AInv, Tick
  PROVE  Kept /\ AInv'
<1>1. PICK n \in 1..MaxLimit : limit' = n /\ Grant(holders, waiters, n, pc)
  BY DEF Tick
<1>2. /\ UNCHANGED <<breakerVars, controller, ladderVars>>
      /\ decided' = decided + counts /\ counts' = 0
  BY DEF Tick
<1>3. n \in Nat
  BY <1>1, AdmissionAssumption
<1>4. /\ holders \in SUBSET Rows /\ waiters \in Seq(Rows) /\ pc \in [Rows -> States]
      /\ SlotsOK(holders, waiters, pc)
  BY DEF AInv, TypeOK, SlotAccounting, SlotsOK
<1>5. /\ holders' \in SUBSET Rows /\ waiters' \in Seq(Rows)
      /\ pc' \in [Rows -> States]
      /\ SlotsOK(holders', waiters', pc')
      /\ waiters' # <<>> => Cardinality(holders') >= n
      /\ holders' \subseteq holders \/ Cardinality(holders') <= n
      /\ \A x \in Rows : \/ pc'[x] = pc[x] /\ (x \in holders' <=> x \in holders)
                         \/ pc[x] = "queued" /\ pc'[x] = "granted"
  BY <1>1, <1>3, <1>4, GrantEffect
<1>6. SlotsKept /\ \A x \in Rows : Bystander(x)
  BY <1>1, <1>5 DEF SlotsKept, Bystander
<1>7. Kept
  BY <1>2, <1>6, LoopStep
<1>8. LadderKept
  BY <1>1, <1>2 DEF AInv, TypeOK, Ladder, LadderKept, ladderVars
<1>9. QED
  BY <1>7, <1>8, KeptIsEnough

\* The loop ends, or nothing happens.
LEMMA StillKeeps ==
  ASSUME AInv, LoopEnds \/ UNCHANGED vars
  PROVE  Kept /\ AInv'
<1>1. /\ UNCHANGED <<breakerVars, limit, slotVars, counts, decided, pc, ladderVars>>
      /\ controller' \in {"running", "ended"}
  BY DEF LoopEnds, vars, loopVars, AInv, TypeOK
<1>2. SlotsKept
  BY <1>1 DEF SlotsKept, AInv, TypeOK, SlotAccounting, SlotsOK, slotVars
<1>3. \A x \in Rows : Bystander(x)
  BY <1>1 DEF Bystander, slotVars
<1>4. LadderKept
  BY <1>1 DEF AInv, TypeOK, Ladder, LadderKept, ladderVars
<1>5. QED
  BY <1>1, <1>2, <1>3, <1>4, LoopStep, KeptIsEnough

-----------------------------------------------------------------------------

LEMMA InitInv ==
  ASSUME Init
  PROVE  AInv
<1>1. TypeOK
  <2>1. 1 \in 1..MaxAttempts /\ 0 \in 0..Probes
    BY AdmissionAssumption
  <2>2. <<>> \in Seq(Rows) /\ {} \in SUBSET Rows
    OBVIOUS
  <2>3. /\ pc \in [Rows -> States] /\ attempt \in [Rows -> 1..MaxAttempts]
        /\ pressured \in [Rows -> BOOLEAN]
    BY <2>1 DEF Init, States
  <2>4. QED
    BY <2>1, <2>2, <2>3 DEF Init, TypeOK
<1>2. OneOpener
  BY DEF Init, OneOpener, Opening
<1>3. SlotAccounting
  BY DEF Init, SlotAccounting
<1>4. Budgeted
  BY DEF Init, Budgeted
<1>5. QED
  BY <1>1, <1>2, <1>3, <1>4 DEF AInv

\* Every step keeps the invariant, and is one that the action properties allow.
LEMMA StepKeeps ==
  ASSUME AInv, [Next]_vars
  PROVE  Kept /\ AInv'
<1>1. ASSUME NEW r \in Rows, Goes(r) PROVE Kept /\ AInv'
  BY <1>1, PostKeeps, GrantedKeeps, SucceededKeeps, AttemptFailedKeeps, BudgetOverKeeps,
     RetryKeeps, ProbeAnsweredKeeps, ProbesKeep, BreakerGivesUpKeeps DEF Goes
<1>2. QED
  BY <1>1, CancelledKeeps, TickKeeps, StillKeeps DEF Next, Over

LEMMA Invariance == Spec => []AInv
<1>1. AInv /\ [Next]_vars => AInv'
  BY StepKeeps
<1>2. QED
  BY <1>1, InitInv, PTL DEF Spec

\* The breaker, the window, the loop and the rows keep their types; no row makes
\* more than MaxAttempts attempts.
THEOREM AdmissionTypes == Spec => []TypeOK
<1>1. AInv => TypeOK
  BY DEF AInv
<1>2. QED
  BY <1>1, Invariance, PTL

\* The circuit is open exactly while one row probes for all (Breaker.gate).
THEOREM OneOpenerAlways == Spec => []OneOpener
<1>1. AInv => OneOpener
  BY DEF AInv
<1>2. QED
  BY <1>1, Invariance, PTL

\* No slot is lost, held twice over or left free while a row waits for one.
THEOREM SlotsAccounted == Spec => []SlotAccounting
<1>1. AInv => SlotAccounting
  BY DEF AInv
<1>2. QED
  BY <1>1, Invariance, PTL

\* Slots are only given out below the window of the moment.
THEOREM WindowHolds == Spec => WindowRespected
<1>1. AInv /\ [Next]_vars => [holders' \subseteq holders \/ Cardinality(holders') <= limit']_vars
  BY StepKeeps DEF Kept, SlotsKept
<1>2. QED
  BY <1>1, Invariance, PTL DEF Spec, WindowRespected

\* An open, tripped or dead breaker starts no attempt.
THEOREM BreakerPauses == Spec => PausedWhileOpen
<1>1. AInv /\ [Next]_vars => Paused
  BY StepKeeps DEF Kept
<1>2. QED
  BY <1>1, Invariance, PTL DEF Spec, PausedWhileOpen, Paused

\* A row is never admitted by a loop that has ended.
THEOREM LoopAdmits == Spec => NoAdmissionWithoutLoop
<1>1. AInv /\ [Next]_vars => LoopGone
  BY StepKeeps DEF Kept
<1>2. QED
  BY <1>1, Invariance, PTL DEF Spec, NoAdmissionWithoutLoop, LoopGone

-----------------------------------------------------------------------------
(* The pressure the controller is told of.                                  *)

LEMMA PressureStep ==
  ASSUME AInv, PressureCountedOnce, [Next]_vars
  PROVE  PressureCountedOnce'
<1> DEFINE S == {x \in Rows : pressured[x]}
<1>1. /\ counts \in Nat /\ decided \in Nat /\ pressured \in [Rows -> BOOLEAN]
      /\ counts + decided = Cardinality(S) /\ IsFiniteSet(S) /\ Cardinality(S) \in Nat
  <2>1. S \in SUBSET Rows
    OBVIOUS
  <2>2. QED
    BY <2>1, HoldersFinite DEF AInv, TypeOK, PressureCountedOnce
<1>2. CASE UNCHANGED <<counts, decided, pressured>>
  BY <1>2 DEF PressureCountedOnce
<1>3. ASSUME NEW r \in Rows, NEW a \in Replies, AttemptFailed(r, a)
      PROVE  PressureCountedOnce'
  <2>1. /\ counts' = counts + (IF Reports(r, a) THEN 1 ELSE 0) /\ decided' = decided
        /\ pressured' = [pressured EXCEPT ![r] = @ \/ Pressure(a)]
    BY <1>3 DEF AttemptFailed
  <2>2. CASE Reports(r, a)
    <3>1. {x \in Rows : pressured'[x]} = S \cup {r} /\ r \notin S
      BY <2>1, <2>2, <1>1 DEF Reports
    <3> HIDE DEF S
    <3>2. Cardinality(S \cup {r}) = Cardinality(S) + 1
      BY <3>1, <1>1, FS_AddElement
    <3>3. QED
      BY <3>1, <3>2, <2>1, <2>2, <1>1 DEF PressureCountedOnce
  <2>3. CASE ~Reports(r, a)
    <3>1. {x \in Rows : pressured'[x]} = S
      BY <2>1, <2>3, <1>1 DEF Reports
    <3> HIDE DEF S
    <3>2. counts' + decided' = Cardinality(S)
      BY <2>1, <2>3, <1>1
    <3>3. QED
      BY <3>1, <3>2 DEF PressureCountedOnce
  <2>4. QED
    BY <2>2, <2>3
<1>4. ASSUME Tick PROVE PressureCountedOnce'
  <2>1. decided' = decided + counts /\ counts' = 0 /\ pressured' = pressured
    BY <1>4 DEF Tick, ladderVars
  <2> HIDE DEF S
  <2>2. counts' + decided' = Cardinality(S)
    BY <2>1, <1>1
  <2>3. QED
    BY <2>1, <2>2 DEF PressureCountedOnce, S
<1>5. ASSUME NEW r \in Rows, Goes(r), ~ \E a \in Replies : AttemptFailed(r, a)
      PROVE  UNCHANGED <<counts, decided, pressured>>
  BY <1>5 DEF Goes, Post, Granted, Succeeded, BudgetOver, Retry, ProbeAnswered,
     ProbeFailed, ProbeAgain, BreakerGivesUp, loopVars, ladderVars
<1>6. ASSUME NEW r \in Rows, Cancelled(r) PROVE UNCHANGED <<counts, decided, pressured>>
  BY <1>6 DEF Cancelled, loopVars, ladderVars
<1>7. QED
  BY <1>2, <1>3, <1>4, <1>5, <1>6 DEF Next, LoopEnds, Over, vars, loopVars, ladderVars

\* Each row under pressure is reported to the controller once, over all its
\* attempts and whenever the ticks fall.
THEOREM PressureOnce == Spec => []PressureCountedOnce
<1>1. Init => PressureCountedOnce
  <2>1. ASSUME Init PROVE {x \in Rows : pressured[x]} = {}
    BY <2>1 DEF Init
  <2>2. Cardinality({}) = 0 /\ 0 + 0 = 0
    BY FS_EmptySet
  <2>3. ASSUME Init PROVE counts + decided = 0
    BY <2>3 DEF Init
  <2>4. QED
    BY <2>1, <2>2, <2>3 DEF PressureCountedOnce
<1>2. AInv /\ PressureCountedOnce /\ [Next]_vars => PressureCountedOnce'
  BY PressureStep
<1>3. QED
  BY <1>1, <1>2, Invariance, PTL DEF Spec

\* Slots and attempts are accounted for together: what the run checks as SlotsSound.
THEOREM SlotsAlwaysSound == Spec => []SlotsSound
<1>1. TypeOK /\ SlotAccounting => SlotsSound
  BY DEF SlotsSound
<1>2. QED
  BY <1>1, AdmissionTypes, SlotsAccounted, PTL

\* No step starts what the breaker, the loop or the window forbids, whatever the row that
\* takes it saw before it queued.
THEOREM GuardedAdmission == Spec => AdmissionGuarded
BY BreakerPauses, LoopAdmits, WindowHolds DEF AdmissionGuarded

=============================================================================
