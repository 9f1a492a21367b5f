--------------------------- MODULE Pipeline_proofs ---------------------------
(***************************************************************************)
(* Theorems about Pipeline, for every number of rows and every limit.      *)
(* The invariants are proved in layers, each using the ones before it:     *)
(*   Shape        types; rows are fed once, in order; END comes once, last *)
(*   accounts     the places of the backlog and of the prepare limit       *)
(*   FailFastInv  what fail_fast held back or gave up                      *)
(*   ReadAheadInv the room of the reader thread                            *)
(*   OnePlace     a finished row is held back, waiting or taken, once      *)
(*   WholeInv     what a run that is over leaves                           *)
(***************************************************************************)
EXTENDS Pipeline, Integers, FiniteSetTheorems, SequenceTheorems, TLAPS

\* Rows are fed once, in order; END is put once, last, when no task is left; the
\* errors held back are finished rows.
Shape ==
  /\ TypeOK
  /\ feeder \in {"backlog", "prepare"} => fed \in Rows
  /\ feeder = "backlog" => pc[fed] = "unfed"
  /\ feeder = "prepare" => pc[fed] = "placed"
  /\ \A r \in Rows : r > fed => pc[r] = "unfed"
  /\ feeder = "closed" => \A r \in Rows : pc[r] \notin Active
  /\ feeder = "closed" => Len(results) > 0 /\ results[Len(results)] = END
  /\ Waiting \in Seq(Rows)
  /\ \A i \in DOMAIN held : pc[held[i]] = "published"

-----------------------------------------------------------------------------

\* What _Run.stop does to the tasks: it dooms those whose await is pending, and
\* neither starts nor ends any.
LEMMA RunStopEffect ==
  ASSUME TypeOK, NEW p \in [Rows -> States], RunStop(p)
  PROVE  /\ room' \in Nat /\ stopped' \in BOOLEAN /\ cancelled' \in BOOLEAN
         /\ feeder' \in FeederStates
         /\ feeder' = "closed" <=> feeder = "closed"
         /\ feeder' \in {"backlog", "prepare"} => feeder' = feeder
         /\ pc' \in [Rows -> States]
         /\ \A r \in Rows : /\ pc'[r] \in Active <=> p[r] \in Active
                            /\ pc'[r] \in PlacedStates <=> p[r] \in PlacedStates
                            /\ \/ pc'[r] = p[r]
                               \/ p[r] \in Waits /\ pc'[r] = "doomed"
<1>1. room \in Nat /\ stopped \in BOOLEAN /\ cancelled \in BOOLEAN
      /\ feeder \in FeederStates
  BY DEF TypeOK
<1>2. stopped' \in BOOLEAN /\ cancelled' \in BOOLEAN
  BY <1>1, Zenon DEF RunStop, scopeVars
<1>3. /\ room' \in Nat
      /\ feeder' \in FeederStates
      /\ feeder' = "closed" <=> feeder = "closed"
      /\ feeder' \in {"backlog", "prepare"} => feeder' = feeder
  <2>1. room' \in Nat
    BY <1>1 DEF RunStop, scopeVars
  <2>2. feeder' = feeder \/ (feeder' = "doomed" /\ FeederBlocked)
    BY DEF RunStop, scopeVars
  <2>3. QED
    BY <1>1, <2>1, <2>2 DEF FeederStates, FeederBlocked
<1>4. pc' = p \/ pc' = [r \in Rows |-> IF p[r] \in Waits THEN "doomed" ELSE p[r]]
  BY DEF RunStop
<1>5. "doomed" \in Active /\ Waits \subseteq Active /\ "doomed" \in States
  BY DEF Active, Waits, States
<1>6. pc' \in [Rows -> States]
  BY <1>4, <1>5
<1>7. ASSUME NEW r \in Rows
      PROVE  /\ pc'[r] \in Active <=> p[r] \in Active
             /\ pc'[r] \in PlacedStates <=> p[r] \in PlacedStates
             /\ pc'[r] = p[r] \/ (p[r] \in Waits /\ pc'[r] = "doomed")
  BY <1>4, <1>5 DEF PlacedStates
<1>8. QED
  BY <1>2, <1>3, <1>6, <1>7

\* The same, for a task that goes on.
LEMMA GoesOnEffect ==
  ASSUME TypeOK, NEW p \in [Rows -> States], GoesOn(p)
  PROVE  /\ room' \in Nat /\ stopped' \in BOOLEAN /\ cancelled' \in BOOLEAN
         /\ feeder' = feeder /\ pc' = p /\ pc' \in [Rows -> States]
         /\ failure' = failure
<1>1. stopped' \in BOOLEAN /\ cancelled' \in BOOLEAN
  BY Zenon DEF GoesOn, TypeOK, scopeVars
<1>2. QED
  BY <1>1 DEF GoesOn, TypeOK, scopeVars

\* What a step of row r's task does to the rest of the run; `ended` are the rows
\* that give up their place among the started ones: none, or r itself.
RowEffect(r, ended) ==
  /\ room' \in Nat /\ stopped' \in BOOLEAN /\ cancelled' \in BOOLEAN
  /\ feeder' \in FeederStates
  /\ feeder' = "closed" <=> feeder = "closed"
  /\ feeder' \in {"backlog", "prepare"} => feeder' = feeder
  /\ pc' \in [Rows -> States]
  /\ pc'[r] \notin {"unfed", "placed"}
  /\ \A q \in Rows \ {r} : \/ pc'[q] = pc[q]
                           \/ pc[q] \in Waits /\ pc'[q] = "doomed"
                           \/ pc[q] = "published" /\ pc'[q] = "dropped"
  /\ Placed' = Placed \ ended
  /\ held' \in Seq(Rows) /\ results' \in Seq(Rows) /\ backlog' \in Nat
  /\ \A i \in DOMAIN held' : pc'[held'[i]] = "published"
  /\ succeeded' \in BOOLEAN /\ discarding' \in BOOLEAN
  /\ failure' \in {"none", "input", "fatal", "fail_fast"}

\* OtherPlaces, as long as the queue is not closed.
Places == backlog + Len(held) + Len(results)

LEMMA PublishEffect ==
  ASSUME Shape, feeder # "closed", NEW r \in Rows, pc[r] \in Active,
         NEW err \in BOOLEAN, Publish(r, err)
  PROVE  /\ RowEffect(r, {r}) /\ Places' = Places + 1
         /\ pc'[r] \notin Active
<1> DEFINE h == Append(held, r)
           p == [pc EXCEPT ![r] = "published"]
           d == [pc EXCEPT ![r] = "dropped"]
           g == [q \in Rows |-> IF \E i \in DOMAIN h : h[i] = q THEN "dropped" ELSE pc[q]]
<1>1. /\ TypeOK /\ pc \in [Rows -> States] /\ held \in Seq(Rows) /\ backlog \in Nat
      /\ results \in Seq(Rows)
      /\ \A i \in DOMAIN held : pc[held[i]] = "published"
      /\ succeeded \in BOOLEAN /\ discarding \in BOOLEAN
      /\ failure \in {"none", "input", "fatal", "fail_fast"}
  BY DEF Shape, TypeOK, Waiting
<1>2. /\ "published" \in States \ PlacedStates /\ "dropped" \in States \ PlacedStates
      /\ {"published", "dropped"} \cap (Active \cup Waits \cup Answers \cup
                                        {"unfed", "placed"}) = {}
      /\ Active \subseteq PlacedStates
  BY DEF States, PlacedStates, Active, Waits, Answers
<1>3. CASE discarding /\ Discard(r)
  <2>1. GoesOn(d) /\ d \in [Rows -> States]
    BY <1>1, <1>2, <1>3 DEF Discard
  <2>2. UNCHANGED <<results, held, succeeded, discarding>> /\ backlog' = backlog + 1
    BY <1>3 DEF Discard
  <2>3. /\ room' \in Nat /\ stopped' \in BOOLEAN /\ cancelled' \in BOOLEAN
        /\ feeder' = feeder /\ pc' = d /\ failure' = failure
    BY <1>1, <2>1, GoesOnEffect
  <2>4. Placed' = Placed \ {r}
    BY <1>1, <1>2, <2>3 DEF Placed
  <2>5. \A i \in DOMAIN held' : pc'[held'[i]] = "published"
    BY <1>1, <1>2, <2>2, <2>3
  <2>6. /\ pc'[r] \in {"published", "dropped"}
        /\ \A q \in Rows \ {r} : \/ pc'[q] = pc[q]
                                 \/ pc[q] \in Waits /\ pc'[q] = "doomed"
                                 \/ pc[q] = "published" /\ pc'[q] = "dropped"
    BY <1>1, <1>2, <2>3
  <2>7. feeder \in FeederStates
    BY <1>1 DEF TypeOK
  <2>8. succeeded' \in BOOLEAN /\ discarding' \in BOOLEAN
    BY <1>1, <2>2, Zenon
  <2>9. RowEffect(r, {r})
    BY <1>2, <1>1, <2>1, <2>2, <2>3, <2>4, <2>5, <2>6, <2>7, <2>8 DEF RowEffect
  <2>10. QED
    BY <1>1, <1>2, <2>2, <2>6, <2>9 DEF Places
<1>4. CASE /\ GiveUpFailFast(h, pc)
  <2>1. /\ held' = <<>> /\ discarding' = TRUE /\ backlog' = backlog + Len(held) + 1
        /\ RunFail("fail_fast", g) /\ UNCHANGED <<results, succeeded>>
    BY <1>1, <1>4 DEF GiveUpFailFast
  <2>2. g \in [Rows -> States] /\ RunStop(g)
        /\ failure' \in {"none", "input", "fatal", "fail_fast"}
    BY <1>1, <1>2, <2>1 DEF RunFail
  <2>3. /\ g[r] = "dropped"
        /\ \A q \in Rows : q # r => g[q] = pc[q] \/ (g[q] = "dropped" /\ pc[q] = "published")
    <3>1. \A i \in DOMAIN h : h[i] = r \/ (i \in DOMAIN held /\ h[i] = held[i])
      BY <1>1
    <3>2. Len(h) \in DOMAIN h /\ h[Len(h)] = r
      BY <1>1
    <3>3. QED
      BY <1>1, <3>1, <3>2
  <2>4. /\ room' \in Nat /\ stopped' \in BOOLEAN /\ cancelled' \in BOOLEAN
        /\ feeder' \in FeederStates
        /\ feeder' = "closed" <=> feeder = "closed"
        /\ feeder' \in {"backlog", "prepare"} => feeder' = feeder
        /\ pc' \in [Rows -> States]
        /\ \A q \in Rows : /\ pc'[q] \in Active <=> g[q] \in Active
                           /\ pc'[q] \in PlacedStates <=> g[q] \in PlacedStates
                           /\ \/ pc'[q] = g[q]
                              \/ g[q] \in Waits /\ pc'[q] = "doomed"
    BY <1>1, <2>2, RunStopEffect
  <2>5. Placed' = Placed \ {r}
    BY <1>2, <2>3, <2>4 DEF Placed
  <2>6. /\ pc'[r] \in {"published", "dropped"}
        /\ \A q \in Rows \ {r} : \/ pc'[q] = pc[q]
                                 \/ pc[q] \in Waits /\ pc'[q] = "doomed"
                                 \/ pc[q] = "published" /\ pc'[q] = "dropped"
    BY <1>2, <2>3, <2>4
  <2>7. succeeded' \in BOOLEAN /\ discarding' \in BOOLEAN
    BY <1>1, <2>1, Zenon
  <2>8. RowEffect(r, {r})
    BY <1>2, <1>1, <2>1, <2>2, <2>4, <2>5, <2>6, <2>7 DEF RowEffect
  <2>9. QED
    BY <1>1, <1>2, <2>1, <2>6, <2>8 DEF Places
<1>5. CASE /\ held' = h /\ GoesOn(p)
           /\ UNCHANGED <<backlog, results, succeeded, discarding>>
  <2>1. p \in [Rows -> States]
    BY <1>1, <1>2
  <2>2. /\ room' \in Nat /\ stopped' \in BOOLEAN /\ cancelled' \in BOOLEAN
        /\ feeder' = feeder /\ pc' = p /\ failure' = failure
    BY <1>1, <1>5, <2>1, GoesOnEffect
  <2>3. Placed' = Placed \ {r}
    BY <1>1, <1>2, <2>2 DEF Placed
  <2>4. held' \in Seq(Rows) /\ \A i \in DOMAIN held' : pc'[held'[i]] = "published"
    BY <1>1, <1>2, <1>5, <2>2
  <2>5. /\ pc'[r] \in {"published", "dropped"}
        /\ \A q \in Rows \ {r} : \/ pc'[q] = pc[q]
                                 \/ pc[q] \in Waits /\ pc'[q] = "doomed"
                                 \/ pc[q] = "published" /\ pc'[q] = "dropped"
    BY <1>1, <1>2, <2>2
  <2>6. succeeded' \in BOOLEAN /\ discarding' \in BOOLEAN
    BY <1>1, <1>5, Zenon
  <2>7. feeder \in FeederStates
    BY <1>1 DEF TypeOK
  <2>8. RowEffect(r, {r})
    BY <1>2, <1>1, <1>5, <2>1, <2>2, <2>3, <2>4, <2>5, <2>6, <2>7 DEF RowEffect
  <2>9. QED
    BY <1>1, <1>2, <1>5, <2>5, <2>8 DEF Places
<1>6. CASE /\ results' = results \o Flush(held, r) /\ held' = <<>>
           /\ succeeded' = (succeeded \/ FailFast > 0)
           /\ GoesOn(p) /\ UNCHANGED <<backlog, discarding>>
  <2>1. p \in [Rows -> States]
    BY <1>1, <1>2
  <2>2. /\ room' \in Nat /\ stopped' \in BOOLEAN /\ cancelled' \in BOOLEAN
        /\ feeder' = feeder /\ pc' = p /\ failure' = failure
    BY <1>1, <1>6, <2>1, GoesOnEffect
  <2>3. Placed' = Placed \ {r}
    BY <1>1, <1>2, <2>2 DEF Placed
  <2>4. /\ results' \in Seq(Rows) /\ held' \in Seq(Rows)
        /\ Len(results') = Len(results) + Len(held) + 1 /\ Len(held') = 0
    BY <1>1, <1>6 DEF Flush
  <2>5. /\ pc'[r] \in {"published", "dropped"}
        /\ \A q \in Rows \ {r} : \/ pc'[q] = pc[q]
                                 \/ pc[q] \in Waits /\ pc'[q] = "doomed"
                                 \/ pc[q] = "published" /\ pc'[q] = "dropped"
    BY <1>1, <1>2, <2>2
  <2>6. succeeded' \in BOOLEAN /\ discarding' \in BOOLEAN
    BY <1>1, <1>6, Zenon
  <2>7. feeder \in FeederStates
    BY <1>1 DEF TypeOK
  <2>8. RowEffect(r, {r})
    BY <1>2, <1>1, <1>6, <2>1, <2>2, <2>3, <2>4, <2>5, <2>6, <2>7 DEF RowEffect
  <2>9. QED
    BY <1>1, <1>2, <1>6, <2>4, <2>5, <2>8 DEF Places
<1>7. QED
  BY <1>3, <1>4, <1>5, <1>6, Zenon DEF Publish, GivenUp

LEMMA AbortEffect ==
  ASSUME Shape, feeder # "closed", NEW r \in Rows, pc[r] \in Active, Abort(r)
  PROVE  /\ RowEffect(r, {r}) /\ Places' = Places + 1
         /\ pc'[r] \notin Active
<1> DEFINE a == [pc EXCEPT ![r] = "aborted"]
<1>1. /\ TypeOK /\ pc \in [Rows -> States] /\ held \in Seq(Rows) /\ backlog \in Nat
      /\ results \in Seq(Rows)
      /\ \A i \in DOMAIN held : pc[held[i]] = "published"
      /\ succeeded \in BOOLEAN /\ discarding \in BOOLEAN
      /\ failure \in {"none", "input", "fatal", "fail_fast"}
  BY DEF Shape, TypeOK, Waiting
<1>2. /\ "aborted" \in States \ PlacedStates
      /\ "aborted" \notin Active \cup Waits \cup {"unfed", "placed"}
      /\ "published" \notin Active \cup Waits
      /\ Active \subseteq PlacedStates
  BY DEF States, PlacedStates, Active, Waits, Answers
<1>3. /\ a \in [Rows -> States] /\ RunStop(a) /\ backlog' = backlog + 1
      /\ failure' \in {"none", "input", "fatal", "fail_fast"}
      /\ UNCHANGED <<results, held, succeeded, discarding>>
  BY <1>1, <1>2 DEF Abort, RunFail
<1>4. /\ room' \in Nat /\ stopped' \in BOOLEAN /\ cancelled' \in BOOLEAN
      /\ feeder' \in FeederStates
      /\ feeder' = "closed" <=> feeder = "closed"
      /\ feeder' \in {"backlog", "prepare"} => feeder' = feeder
      /\ pc' \in [Rows -> States]
      /\ \A q \in Rows : /\ pc'[q] \in PlacedStates <=> a[q] \in PlacedStates
                         /\ pc'[q] = a[q] \/ (a[q] \in Waits /\ pc'[q] = "doomed")
  BY <1>1, <1>3, RunStopEffect
<1>5. pc'[r] = "aborted"
  BY <1>1, <1>2, <1>4
<1>6. Placed' = Placed \ {r}
  BY <1>1, <1>2, <1>4, <1>5 DEF Placed
<1>7. \A i \in DOMAIN held' : pc'[held'[i]] = "published"
  BY <1>1, <1>2, <1>3, <1>4
<1>8. succeeded' \in BOOLEAN /\ discarding' \in BOOLEAN
  BY <1>1, <1>3, Zenon
<1>9. \A q \in Rows \ {r} : \/ pc'[q] = pc[q]
                            \/ pc[q] \in Waits /\ pc'[q] = "doomed"
  BY <1>1, <1>4
<1>10. RowEffect(r, {r})
  BY <1>1, <1>2, <1>3, <1>4, <1>5, <1>6, <1>7, <1>8, <1>9 DEF RowEffect
<1>11. QED
  BY <1>1, <1>2, <1>3, <1>5, <1>10 DEF Places

\* A task that goes on to its next await, or is answered or cancelled there.
LEMMA WaitEffect ==
  ASSUME Shape, feeder # "closed", NEW r \in Rows, pc[r] \in Active,
         NEW w \in (PlacedStates \ {"unfed", "placed"}),
         GoesOn([pc EXCEPT ![r] = w]),
         UNCHANGED <<backlog, held, succeeded, discarding, results>>
  PROVE  RowEffect(r, {}) /\ Places' = Places /\ pc'[r] = w
<1>1. /\ TypeOK /\ pc \in [Rows -> States] /\ held \in Seq(Rows) /\ backlog \in Nat
      /\ results \in Seq(Rows) /\ feeder \in FeederStates
      /\ \A i \in DOMAIN held : pc[held[i]] = "published"
      /\ succeeded \in BOOLEAN /\ discarding \in BOOLEAN
      /\ failure \in {"none", "input", "fatal", "fail_fast"}
  BY DEF Shape, TypeOK, Waiting
<1>2. /\ PlacedStates \subseteq States /\ Active \subseteq PlacedStates
      /\ "published" \notin Active
  BY DEF States, PlacedStates, Active, Waits, Answers
<1>3. [pc EXCEPT ![r] = w] \in [Rows -> States]
  BY <1>1, <1>2
<1>4. /\ room' \in Nat /\ stopped' \in BOOLEAN /\ cancelled' \in BOOLEAN
      /\ feeder' = feeder /\ pc' = [pc EXCEPT ![r] = w]
      /\ failure' = failure
  BY <1>1, <1>3, GoesOnEffect
<1>5. Placed' = Placed \ {}
  BY <1>1, <1>2, <1>4 DEF Placed
<1>6. \A i \in DOMAIN held' : pc'[held'[i]] = "published"
  BY <1>1, <1>2, <1>4
<1>7. succeeded' \in BOOLEAN /\ discarding' \in BOOLEAN
  BY <1>1, Zenon
<1>8. RowEffect(r, {})
  BY <1>1, <1>3, <1>4, <1>5, <1>6, <1>7 DEF RowEffect
<1>9. QED
  BY <1>1, <1>4, <1>8 DEF Places

\* Every step of row r's task: it keeps its place or ends, and it gives back its
\* place in the prepare limit or keeps it while its body is not sent.
RowStepEffect(r) ==
  /\ \/ RowEffect(r, {}) /\ Places' = Places
     \/ RowEffect(r, {r}) /\ Places' = Places + 1 /\ pc'[r] \notin Active
  /\ \/ Admitted(r)
     \/ /\ UNCHANGED <<holding, prepare>>
        /\ pc[r] \in NotSentStates => pc'[r] \in NotSentStates

RowStep(r) == RowLoop(r) \/ RowAnswered(r)

LEMMA PostEffect ==
  ASSUME Shape, feeder # "closed", NEW r \in Rows, pc[r] \in Active, Post(r)
  PROVE  RowStepEffect(r)
<1>1. CASE /\ GoesOn([pc EXCEPT ![r] = Await("admission")])
           /\ UNCHANGED <<holding, prepare, backlog, held, succeeded, discarding,
                          results>>
  <2>1. Await("admission") \in (PlacedStates \ {"unfed", "placed"}) \cap NotSentStates
    BY DEF Await, PlacedStates, Active, Waits, Answers, NotSentStates
  <2>2. RowEffect(r, {}) /\ Places' = Places /\ pc'[r] = Await("admission")
    BY <1>1, <2>1, WaitEffect
  <2>3. QED
    BY <1>1, <2>1, <2>2 DEF RowStepEffect
<1>2. CASE Abort(r) /\ Admitted(r)
  BY <1>2, AbortEffect DEF RowStepEffect
<1>3. QED
  BY <1>1, <1>2 DEF Post

LEMMA RowStepLemma ==
  ASSUME Shape, NEW r \in Rows, RowStep(r)
  PROVE  RowStepEffect(r) /\ pc[r] \in Active /\ feeder # "closed"
<1>1. pc[r] \in Active
  BY DEF RowStep, RowLoop, RowBegin, RowAnswered, RowResume, RowCancelled, Active,
         Waits, Answers
<1>2. feeder # "closed"
  BY <1>1 DEF Shape
<1>3. CASE RowBegin(r)
  <2>1. CASE PrepThreads
    <3>1. Await("building") \in (PlacedStates \ {"unfed", "placed"}) \cap NotSentStates
      BY DEF Await, PlacedStates, Active, Waits, Answers, NotSentStates
    <3>2. /\ GoesOn([pc EXCEPT ![r] = Await("building")])
          /\ UNCHANGED <<holding, prepare, backlog, held, succeeded, discarding,
                         results>>
      BY <1>3, <2>1 DEF RowBegin
    <3>3. RowEffect(r, {}) /\ Places' = Places /\ pc'[r] = Await("building")
      BY <1>1, <1>2, <3>1, <3>2, WaitEffect
    <3>4. QED
      BY <1>1, <1>2, <3>1, <3>2, <3>3 DEF RowStepEffect
  <2>2. CASE Post(r)
    BY <1>1, <1>2, <2>2, PostEffect
  <2>3. CASE Publish(r, TRUE) /\ Admitted(r)
    BY <1>1, <1>2, <2>3, PublishEffect DEF RowStepEffect
  <2>4. QED
    BY <1>3, <2>1, <2>2, <2>3 DEF RowBegin
<1>4. CASE RowResume(r)
  <2>1. CASE Post(r)
    BY <1>1, <1>2, <2>1, PostEffect
  <2>2. CASE /\ Admitted(r) /\ GoesOn([pc EXCEPT ![r] = Await("inflight")])
             /\ UNCHANGED <<backlog, held, succeeded, discarding, results>>
    <3>1. Await("inflight") \in PlacedStates \ {"unfed", "placed"}
      BY DEF Await, PlacedStates, Active, Waits, Answers
    <3>2. RowEffect(r, {}) /\ Places' = Places
      BY <1>1, <1>2, <2>2, <3>1, WaitEffect
    <3>3. QED
      BY <1>1, <1>2, <2>2, <3>2 DEF RowStepEffect
  <2>3. CASE \E err \in BOOLEAN : Publish(r, err) /\ Admitted(r)
    BY <1>1, <1>2, <2>3, PublishEffect DEF RowStepEffect
  <2>4. CASE Abort(r) /\ Admitted(r)
    BY <1>1, <1>2, <2>4, AbortEffect DEF RowStepEffect
  <2>5. QED
    BY <1>4, <2>1, <2>2, <2>3, <2>4 DEF RowResume
<1>5. CASE RowCancelled(r)
  <2>1. "cancelled" \in PlacedStates \ {"unfed", "placed"}
    BY DEF PlacedStates
  <2>2. /\ GoesOn([pc EXCEPT ![r] = "cancelled"]) /\ Admitted(r)
        /\ UNCHANGED <<backlog, held, succeeded, discarding, results>>
    BY <1>5 DEF RowCancelled, GoesOn, failVars, scopeVars
  <2>3. RowEffect(r, {}) /\ Places' = Places
    BY <1>1, <1>2, <2>1, <2>2, WaitEffect
  <2>4. QED
    BY <1>1, <1>2, <2>2, <2>3 DEF RowStepEffect
<1>6. CASE RowAnswered(r)
  <2>1. PICK a \in Answers :
          /\ pc' = [pc EXCEPT ![r] = a]
          /\ pc[r] \in NotSentStates => a \in NotSentStates
    BY <1>6 DEF RowAnswered, Answers, NotSentStates
  <2>2. a \in PlacedStates \ {"unfed", "placed"}
    BY DEF PlacedStates, Active, Answers
  <2>3. /\ GoesOn([pc EXCEPT ![r] = a])
        /\ UNCHANGED <<backlog, held, succeeded, discarding, results, holding, prepare>>
    BY <1>6, <2>1 DEF RowAnswered, GoesOn, failVars, scopeVars
  <2>4. RowEffect(r, {}) /\ Places' = Places /\ pc'[r] = a
    BY <1>1, <1>2, <2>2, <2>3, WaitEffect
  <2>5. QED
    BY <1>1, <1>2, <2>1, <2>3, <2>4 DEF RowStepEffect
<1>7. QED
  BY <1>1, <1>2, <1>3, <1>4, <1>5, <1>6 DEF RowStep, RowLoop

-----------------------------------------------------------------------------
(* Shape is invariant.                                                      *)

LEMMA RowStepFrame ==
  ASSUME NEW r \in Rows, RowStep(r)
  PROVE  UNCHANGED <<readerVars, fed, callerVars>>
BY DEF RowStep, RowLoop, RowBegin, RowAnswered, RowResume, RowCancelled

LEMMA RowStepShape ==
  ASSUME Shape, NEW r \in Rows, RowStep(r)
  PROVE  Shape'
<1>1. TypeOK /\ feeder # "closed" /\ RowStepEffect(r)
  BY RowStepLemma DEF Shape
<1>2. PICK e \in {{}, {r}} : RowEffect(r, e)
  BY <1>1 DEF RowStepEffect
<1>3. UNCHANGED <<reader, read, ending, fed, taken, caller, callerError, raised>>
  BY RowStepFrame DEF readerVars, callerVars
<1>4. holding' \in SUBSET Rows /\ prepare' \in Nat
  BY <1>1 DEF RowStepEffect, Admitted, TypeOK
<1>5. results' \in Seq(Rows \cup {END})
  BY <1>2 DEF RowEffect
<1>6. TypeOK'
  <2>1. stopped' \in BOOLEAN /\ cancelled' \in BOOLEAN /\ succeeded' \in BOOLEAN
        /\ discarding' \in BOOLEAN
    BY <1>2 DEF RowEffect
  <2>2. QED
    BY <1>1, <1>2, <1>3, <1>4, <1>5, <2>1 DEF TypeOK, RowEffect
<1>7. feeder' # "closed" /\ Waiting' \in Seq(Rows)
  BY <1>1, <1>2 DEF RowEffect, Waiting
<1>8. pc[r] \in Active /\ {"unfed", "placed"} \cap (Active \cup Waits \cup {"published"}) = {}
  BY RowStepLemma DEF Active, Waits, Answers
<1>9. \A q \in Rows : pc[q] \in {"unfed", "placed"} => pc'[q] = pc[q]
  BY <1>2, <1>8 DEF RowEffect
<1>10. QED
  BY <1>2, <1>3, <1>6, <1>7, <1>8, <1>9 DEF RowEffect, Shape

LEMMA ReaderShape ==
  ASSUME Shape, Reader
  PROVE  Shape'
<1>1. TypeOK
  BY DEF Shape
<1>2. TypeOK'
  <2>1. CASE ReaderAcquire
    BY <1>1, <2>1 DEF ReaderAcquire, TypeOK, failVars, callerVars
  <2>2. CASE ReaderNext
    BY <1>1, <2>2, ConstantsAssumption DEF ReaderNext, TypeOK, failVars, callerVars, scopeVars
  <2>3. QED
    BY <2>1, <2>2 DEF Reader
<1>3. UNCHANGED <<feeder, fed, pc, results, held>>
  BY DEF Reader, ReaderAcquire, ReaderNext, scopeVars, failVars
<1>4. QED
  BY <1>2, <1>3 DEF Shape, Waiting

LEMMA FeederShape ==
  ASSUME Shape, Feeder
  PROVE  Shape'
<1>1. TypeOK
  BY DEF Shape
<1> USE DEF readerVars, failVars, callerVars, FeederStates
<1>2. CASE FeederStart
  BY <1>1, <1>2 DEF FeederStart, Shape, TypeOK, Waiting
<1>3. CASE FeederGet
  <2>1. TypeOK'
    BY <1>1, <1>3, ConstantsAssumption DEF FeederGet, Shape, TypeOK, Waiting, Rows
  <2>2. QED
    BY <1>1, <1>3, <2>1, ConstantsAssumption DEF FeederGet, Shape, Waiting, TypeOK, Rows
<1>4. CASE FeederEnd
  BY <1>1, <1>4 DEF FeederEnd, ReaderStop, Shape, TypeOK, Waiting
<1>5. CASE FeederBacklog
  <2>1. TypeOK'
    BY <1>1, <1>5, ConstantsAssumption DEF FeederBacklog, Shape, TypeOK, Waiting, Rows, Await, States, Active, Waits, Answers
  <2>2. QED
    BY <1>1, <1>5, <2>1, ConstantsAssumption DEF FeederBacklog, Shape, Waiting, TypeOK, Rows, Await, States, Active, Waits, Answers
<1>6. CASE FeederPrepare
  <2>1. TypeOK'
    BY <1>1, <1>6, ConstantsAssumption DEF FeederPrepare, Shape, TypeOK, Waiting, Rows, Await, States, Active, Waits, Answers
  <2>2. QED
    BY <1>1, <1>6, <2>1, ConstantsAssumption DEF FeederPrepare, Shape, Waiting, TypeOK, Rows, Await, States, Active, Waits, Answers
<1>7. CASE FeederCancelled
  <2>1. TypeOK'
    BY <1>1, <1>7, ConstantsAssumption DEF FeederCancelled, ReaderStop, FeederBlocked, Shape, TypeOK, Waiting, Rows
  <2>2. QED
    BY <1>1, <1>7, <2>1, ConstantsAssumption DEF FeederCancelled, ReaderStop, FeederBlocked, Shape, Waiting, TypeOK, Rows
<1>8. CASE ProduceEnds
  <2>1. /\ feeder' = "closed" /\ feeder # "closed" /\ UNCHANGED pc
        /\ \A r \in Rows : pc[r] \notin Active
    BY <1>8 DEF ProduceEnds
  <2>2. results \in Seq(Rows) /\ held \in Seq(Rows)
    BY <1>1, <2>1 DEF Shape, Waiting, TypeOK
  <2>3. PICK w \in Seq(Rows) : results' = w \o <<END>> /\ (held' = held \/ held' = <<>>)
    <3>1. CASE results' = Append(results, END) /\ UNCHANGED held
      <4>1. results' = results \o <<END>>
        BY <2>2, <3>1
      <4>2. QED
        BY <2>2, <3>1, <4>1
    <3>2. CASE results' = results \o held \o <<END>> /\ held' = <<>>
      <4>1. results \o held \in Seq(Rows)
        BY <2>2
      <4>2. results' = (results \o held) \o <<END>> /\ (held' = held \/ held' = <<>>)
        BY <3>2
      <4>3. QED
        BY <4>1, <4>2, Zenon
    <3>3. QED
      BY <1>8, <3>1, <3>2 DEF ProduceEnds, PublishHeld
  <2>4. /\ results' \in Seq(Rows \cup {END}) /\ Len(results') > 0
        /\ results'[Len(results')] = END
        /\ SubSeq(results', 1, Len(results') - 1) \in Seq(Rows)
    <3>1. w \in Seq(Rows) /\ results' = w \o <<END>>
      BY <2>3
    <3>2. w \in Seq(Rows \cup {END}) /\ <<END>> \in Seq(Rows \cup {END})
      BY <3>1
    <3>3. results' \in Seq(Rows \cup {END}) /\ Len(results') = Len(w) + 1
      BY <3>1, <3>2
    <3>4. results'[Len(w) + 1] = END /\ \A i \in 1..Len(w) : results'[i] = w[i]
      BY <3>1, <3>2
    <3>5. \A i \in 1..Len(w) : w[i] \in Rows
      BY <3>1
    <3>6. SubSeq(results', 1, Len(w)) \in Seq(Rows)
      BY <3>1, <3>3, <3>4, <3>5
    <3>7. QED
      BY <3>1, <3>3, <3>4, <3>6
  <2>5. TypeOK'
    <3>1. held' \in Seq(Rows) /\ feeder' \in FeederStates
      <4>1. <<>> \in Seq(Rows)
        OBVIOUS
      <4>2. QED
        BY <2>1, <2>2, <2>3, <4>1
    <3>2. UNCHANGED <<reader, read, ending, room, stopped, cancelled, fed, pc, holding,
                      prepare, backlog, succeeded, discarding, failure, taken, caller,
                      callerError, raised>>
      BY <1>8 DEF ProduceEnds
    <3>3. QED
      BY <1>1, <2>4, <3>1, <3>2 DEF TypeOK
  <2>6. \A i \in DOMAIN held' : pc'[held'[i]] = "published"
    <3>1. CASE held' = held
      BY <2>1, <3>1 DEF Shape
    <3>2. CASE held' = <<>>
      BY <3>2
    <3>3. QED
      BY <2>3, <3>1, <3>2
  <2>7. Waiting' \in Seq(Rows)
    BY <2>1, <2>4 DEF Waiting
  <2>8. UNCHANGED fed
    BY <1>8 DEF ProduceEnds
  <2>9. QED
    BY <2>1, <2>4, <2>5, <2>6, <2>7, <2>8 DEF Shape
<1>9. QED
  BY <1>2, <1>3, <1>4, <1>5, <1>6, <1>7, <1>8 DEF Feeder

LEMMA CallerShape ==
  ASSUME Shape, Caller
  PROVE  Shape'
<1>1. TypeOK
  BY DEF Shape
<1> USE DEF readerVars, failVars, callerVars, scopeVars
<1>2. CASE Take
  BY <1>1, <1>2 DEF Take, Shape, TypeOK, Waiting
<1>3. CASE TakeWaiting
  <2>1. /\ taken' = taken \o Waiting /\ backlog' = backlog + Len(Waiting)
        /\ results' = IF feeder = "closed" THEN <<END>> ELSE <<>>
        /\ UNCHANGED <<reader, read, ending, room, stopped, feeder, cancelled, fed, pc,
                       holding, prepare, held, succeeded, discarding, failure, caller,
                       callerError, raised>>
    BY <1>3 DEF TakeWaiting
  <2>2. taken' \in Seq(Rows) /\ backlog' \in Nat /\ results' \in Seq(Rows \cup {END})
    <3>1. taken \in Seq(Rows) /\ backlog \in Nat /\ Waiting \in Seq(Rows)
      BY DEF Shape, TypeOK
    <3>2. <<END>> \in Seq(Rows \cup {END}) /\ <<>> \in Seq(Rows \cup {END})
      OBVIOUS
    <3>3. taken \o Waiting \in Seq(Rows) /\ backlog + Len(Waiting) \in Nat
      BY <3>1
    <3>4. QED
      BY <2>1, <3>2, <3>3
  <2>3. TypeOK'
    BY <1>1, <2>1, <2>2 DEF TypeOK
  <2>4. Waiting' \in Seq(Rows)
    BY <1>1, <2>1 DEF Waiting
  <2>5. QED
    BY <2>1, <2>3, <2>4 DEF Shape
<1>4. CASE \/ StopCalled
           \/ \E e \in {"none", "error", "cancel"} : Leave(e)
  <2>1. /\ RunStop(pc) /\ caller' \in {"stopping", "left"}
        /\ callerError' \in {"none", "error", "cancel"}
        /\ UNCHANGED <<reader, read, ending, fed, holding, prepare, backlog, held,
                       succeeded, discarding, failure, results, taken, raised>>
    BY <1>1, <1>4 DEF StopCalled, Leave, TypeOK
  <2>2. pc \in [Rows -> States] /\ {"published", "unfed", "placed"} \cap Waits = {}
    BY <1>1 DEF TypeOK, Waits
  <2>3. /\ room' \in Nat /\ stopped' \in BOOLEAN /\ cancelled' \in BOOLEAN
        /\ feeder' \in FeederStates
        /\ feeder' = "closed" <=> feeder = "closed"
        /\ feeder' \in {"backlog", "prepare"} => feeder' = feeder
        /\ pc' \in [Rows -> States]
        /\ \A r \in Rows : /\ pc'[r] \in Active <=> pc[r] \in Active
                           /\ pc'[r] = pc[r] \/ (pc[r] \in Waits /\ pc'[r] = "doomed")
    BY <1>1, <2>1, <2>2, RunStopEffect
  <2>4. TypeOK'
    BY <1>1, <2>1, <2>3 DEF TypeOK
  <2>5. Waiting' = Waiting
    BY <2>1, <2>3 DEF Waiting
  <2>6. held \in Seq(Rows)
    BY <1>1 DEF TypeOK
  <2>7. QED
    BY <2>1, <2>2, <2>3, <2>4, <2>5, <2>6 DEF Shape
<1>5. CASE StopReturns
  BY <1>1, <1>5 DEF StopReturns, Shape, TypeOK, Waiting
<1>6. CASE ThroughReturns
  BY <1>1, <1>6 DEF ThroughReturns, FirstFailure, Shape, TypeOK, Waiting
<1>7. QED
  BY <1>2, <1>3, <1>4, <1>5, <1>6 DEF Caller

LEMMA ShapeInit == ASSUME Init PROVE Shape
<1>1. TypeOK
  <2>1. /\ <<>> \in Seq(Rows) /\ <<>> \in Seq(Rows \cup {END}) /\ {} \in SUBSET Rows
        /\ "unfed" \in States /\ "created" \in FeederStates
    BY DEF States, FeederStates
  <2>2. pc \in [Rows -> States]
    BY <2>1 DEF Init
  <2>3. /\ read \in 0..NumRows /\ fed \in 0..NumRows /\ fed <= read
        /\ room \in Nat /\ prepare \in Nat /\ backlog \in Nat
    BY ConstantsAssumption DEF Init
  <2>4. QED
    BY <2>1, <2>2, <2>3 DEF Init, TypeOK
<1>2. QED
  BY <1>1 DEF Init, Shape, Waiting, Active, Waits, Answers

LEMMA ShapeStutter == ASSUME Shape, UNCHANGED vars PROVE Shape'
BY DEF vars, readerVars, scopeVars, failVars, callerVars, Shape, TypeOK, Waiting

LEMMA ShapeStep == ASSUME Shape, [Next]_vars PROVE Shape'
<1>1. ASSUME NEW r \in Rows, RowStep(r) PROVE Shape'
  BY <1>1, RowStepShape
<1>2. CASE UNCHANGED vars
  BY <1>2, ShapeStutter
<1>3. QED
  BY <1>1, <1>2, ReaderShape, FeederShape, CallerShape DEF Next, Over, RowStep

THEOREM ShapeInvariant == Spec => []Shape
<1>1. Init => Shape
  BY ShapeInit
<1>2. Shape /\ [Next]_vars => Shape'
  BY ShapeStep
<1>3. QED
  BY <1>1, <1>2, PTL DEF Spec

\* Every variable keeps its type, whatever the number of rows and the limits.
THEOREM TypeCorrect == Spec => []TypeOK
<1>1. Shape => TypeOK
  BY DEF Shape
<1>2. QED
  BY <1>1, ShapeInvariant, PTL

\* No task is left and nothing follows END once `finished` is set: a caller that
\* saw END, or whose stop() returned, has seen every row there will be.
THEOREM NothingFollowsTheEnd == Spec => []NothingAfterFinished
<1>1. Shape => NothingAfterFinished
  <2>1. SUFFICES ASSUME Shape, feeder = "closed"
                 PROVE  \A i \in DOMAIN results : results[i] = END <=> i = Len(results)
    BY DEF Shape, NothingAfterFinished
  <2>2. /\ results \in Seq(Rows \cup {END}) /\ results[Len(results)] = END
        /\ SubSeq(results, 1, Len(results) - 1) \in Seq(Rows) /\ Len(results) > 0
    BY <2>1 DEF Shape, TypeOK, Waiting
  <2>3. \A i \in 1..(Len(results) - 1) : results[i] \in Rows
    <3>1. TAKE i \in 1..(Len(results) - 1)
    <3>2. SubSeq(results, 1, Len(results) - 1)[i] = results[i]
      BY <2>2, <3>1
    <3>3. i \in 1..Len(SubSeq(results, 1, Len(results) - 1))
      BY <2>2, <3>1
    <3>4. QED
      BY <2>2, <3>2, <3>3
  <2>4. END \notin Rows
    BY ConstantsAssumption DEF END, Rows
  <2>5. QED
    BY <2>2, <2>3, <2>4
<1>2. QED
  BY <1>1, ShapeInvariant, PTL

-----------------------------------------------------------------------------
(* The places of the two limits.                                            *)

LEMMA PlacedFinite == IsFiniteSet(Placed) /\ Cardinality(Placed) \in Nat
<1>1. IsFiniteSet(Rows)
  BY ConstantsAssumption, FS_Interval DEF Rows
<1>2. QED
  BY <1>1, FS_Subset, FS_CardinalityType DEF Placed

\* A step moves as many places to or from the started rows as it takes from or
\* gives to the others.
LEMMA BacklogMove ==
  ASSUME BacklogAccounting, OtherPlaces \in Nat,
         NEW d \in -1..1, OtherPlaces' = OtherPlaces + d,
         Cardinality(Placed') = Cardinality(Placed) - d
  PROVE  BacklogAccounting'
BY PlacedFinite DEF BacklogAccounting

LEMMA BacklogStep ==
  ASSUME Shape, Shape', BacklogAccounting, [Next]_vars
  PROVE  BacklogAccounting'
<1>1. /\ TypeOK /\ TypeOK' /\ Waiting \in Seq(Rows) /\ Waiting' \in Seq(Rows)
      /\ held \in Seq(Rows) /\ held' \in Seq(Rows) /\ backlog \in Nat /\ backlog' \in Nat
  BY DEF Shape, TypeOK
<1>2. Cardinality(Placed) \in Nat /\ IsFiniteSet(Placed)
  BY PlacedFinite
<1>3. OtherPlaces \in Nat
  BY <1>1 DEF OtherPlaces
<1>4. ASSUME Placed' = Placed, OtherPlaces' = OtherPlaces
      PROVE  BacklogAccounting'
  BY <1>4 DEF BacklogAccounting
<1>5. ASSUME NEW r \in Rows, RowStep(r)
      PROVE  BacklogAccounting'
  <2>1. RowStepEffect(r) /\ pc[r] \in Active /\ feeder # "closed"
    BY <1>5, RowStepLemma
  <2>2. feeder' # "closed"
    BY <2>1 DEF RowStepEffect, RowEffect
  <2>3. OtherPlaces = Places /\ OtherPlaces' = Places'
    BY <2>1, <2>2 DEF OtherPlaces, Places, Waiting
  <2>4. CASE RowEffect(r, {}) /\ Places' = Places
    <3>1. Placed' = Placed
      BY <2>4 DEF RowEffect
    <3>2. QED
      BY <1>4, <2>3, <2>4, <3>1
  <2>5. CASE RowEffect(r, {r}) /\ Places' = Places + 1
    <3>1. Placed' = Placed \ {r}
      BY <2>5 DEF RowEffect
    <3>2. r \in Placed
      BY <2>1 DEF Placed, PlacedStates
    <3>3. Cardinality(Placed') = Cardinality(Placed) - 1
      BY <1>2, <3>1, <3>2, FS_RemoveElement
    <3>4. QED
      BY <1>3, <2>3, <2>5, <3>3, BacklogMove
  <2>6. QED
    BY <2>1, <2>4, <2>5 DEF RowStepEffect
<1>6. CASE FeederBacklog
  <2>1. /\ fed \in Rows /\ pc[fed] = "unfed" /\ pc \in [Rows -> States]
        /\ feeder # "closed" /\ feeder' # "closed"
    BY <1>1, <1>6 DEF FeederBacklog, Shape, TypeOK, Await
  <2>2. fed \notin Placed
    BY <2>1 DEF Placed, PlacedStates, Active, Waits, Answers
  <2>3. Placed' = Placed \cup {fed}
    BY <1>6, <2>1 DEF FeederBacklog, Placed, PlacedStates
  <2>4. Cardinality(Placed') = Cardinality(Placed) - (-1)
    BY <1>2, <2>2, <2>3, FS_AddElement
  <2>5. UNCHANGED <<held, results>> /\ backlog' = backlog - 1
    BY <1>6 DEF FeederBacklog, failVars
  <2>6. Len(held) \in Nat /\ Len(results) \in Nat
    BY <1>1, <2>1 DEF Waiting
  <2>7. OtherPlaces' = OtherPlaces + (-1)
    BY <1>1, <2>1, <2>5, <2>6 DEF OtherPlaces, Waiting
  <2>8. QED
    BY <1>3, <2>4, <2>7, BacklogMove
<1>7. CASE FeederPrepare
  <2>1. /\ pc' = [pc EXCEPT ![fed] = "started"] /\ UNCHANGED <<backlog, held, results>>
        /\ fed \in Rows /\ pc[fed] = "placed" /\ pc \in [Rows -> States]
        /\ feeder # "closed" /\ feeder' # "closed"
    BY <1>1, <1>7 DEF FeederPrepare, Shape, TypeOK, failVars
  <2>2. Placed' = Placed
    BY <2>1 DEF Placed, PlacedStates, Active
  <2>3. OtherPlaces' = OtherPlaces
    BY <2>1 DEF OtherPlaces, Waiting
  <2>4. QED
    BY <1>4, <2>2, <2>3
<1>8. CASE ProduceEnds
  <2>1. UNCHANGED <<pc, backlog>> /\ feeder # "closed" /\ feeder' = "closed"
    BY <1>8 DEF ProduceEnds
  <2>2. Placed' = Placed
    BY <2>1 DEF Placed
  <2>3. /\ Waiting = results /\ results \in Seq(Rows) /\ held \in Seq(Rows)
        /\ Waiting' = SubSeq(results', 1, Len(results') - 1)
    BY <1>1, <2>1 DEF Waiting
  <2>4. CASE results' = Append(results, END) /\ held' = held
    <3>1. Len(results') = Len(results) + 1 /\ Len(results) \in Nat
      BY <2>3, <2>4
    <3>2. results' \in Seq(Rows \cup {END})
      BY <1>1 DEF TypeOK
    <3>3. Len(Waiting') = Len(results)
      BY <2>3, <3>1, <3>2
    <3>4. OtherPlaces' = OtherPlaces
      BY <2>1, <2>3, <2>4, <3>3 DEF OtherPlaces
    <3>5. QED
      BY <1>4, <2>2, <3>4
  <2>5. CASE results' = results \o held \o <<END>> /\ held' = <<>>
    <3>1. /\ Len(results') = Len(results) + Len(held) + 1
          /\ Len(results) \in Nat /\ Len(held) \in Nat /\ Len(held') = 0
      BY <2>3, <2>5
    <3>2. results' \in Seq(Rows \cup {END})
      BY <1>1 DEF TypeOK
    <3>3. Len(results) + Len(held) \in Nat
      BY <3>1
    <3>4. Len(Waiting') = Len(results) + Len(held)
      BY <2>3, <3>1, <3>2, <3>3
    <3>5. OtherPlaces' = OtherPlaces
      BY <1>1, <2>1, <2>3, <3>1, <3>4 DEF OtherPlaces
    <3>6. QED
      BY <1>4, <2>2, <3>5
  <2>6. QED
    BY <1>8, <2>4, <2>5 DEF ProduceEnds, PublishHeld
<1>9. CASE Take
  <2>1. UNCHANGED <<pc, held, feeder>> /\ backlog' = backlog + 1
        /\ results' = Tail(results) /\ Waiting # <<>>
    BY <1>9 DEF Take, scopeVars, failVars
  <2>2. Placed' = Placed
    BY <2>1 DEF Placed
  <2>3. results \in Seq(Rows \cup {END})
    BY <1>1 DEF TypeOK
  <2>4. Len(Waiting) > 0
    BY <1>1, <2>1
  <2>5. Len(Waiting') = Len(Waiting) - 1
    <3>1. CASE feeder = "closed"
      BY <2>1, <2>3, <2>4, <3>1 DEF Waiting
    <3>2. CASE feeder # "closed"
      BY <2>1, <2>3, <2>4, <3>2 DEF Waiting
    <3>3. QED
      BY <3>1, <3>2
  <2>6. OtherPlaces' = OtherPlaces
    BY <1>1, <2>1, <2>5 DEF OtherPlaces
  <2>7. QED
    BY <1>4, <2>2, <2>6
<1>10. CASE TakeWaiting
  <2>1. UNCHANGED <<pc, held, feeder>> /\ backlog' = backlog + Len(Waiting)
        /\ results' = IF feeder = "closed" THEN <<END>> ELSE <<>>
    BY <1>10 DEF TakeWaiting, scopeVars, failVars
  <2>2. Placed' = Placed
    BY <2>1 DEF Placed
  <2>3. Len(Waiting') = 0
    BY <2>1 DEF Waiting
  <2>4. OtherPlaces' = OtherPlaces
    BY <1>1, <2>1, <2>3 DEF OtherPlaces
  <2>5. QED
    BY <1>4, <2>2, <2>4
<1>11. CASE \/ StopCalled
            \/ \E e \in {"none", "error", "cancel"} : Leave(e)
  <2>1. RunStop(pc) /\ UNCHANGED <<backlog, held, results>>
    BY <1>11 DEF StopCalled, Leave, failVars
  <2>2. pc \in [Rows -> States]
    BY <1>1 DEF TypeOK
  <2>3. /\ feeder' = "closed" <=> feeder = "closed"
        /\ \A r \in Rows : pc'[r] \in PlacedStates <=> pc[r] \in PlacedStates
    BY <1>1, <2>1, <2>2, RunStopEffect
  <2>4. Placed' = Placed
    BY <2>3 DEF Placed
  <2>5. OtherPlaces' = OtherPlaces
    BY <2>1, <2>3 DEF OtherPlaces, Waiting
  <2>6. QED
    BY <1>4, <2>4, <2>5
<1>12. CASE \/ Reader \/ FeederStart \/ FeederGet \/ FeederEnd \/ FeederCancelled
            \/ StopReturns \/ ThroughReturns \/ Over \/ UNCHANGED vars
  <2>1. UNCHANGED <<pc, backlog, held, results>> /\ (feeder' = "closed" <=> feeder = "closed")
    BY <1>12 DEF Reader, ReaderAcquire, ReaderNext, FeederStart, FeederGet, FeederEnd,
                 FeederCancelled, FeederBlocked, StopReturns, ThroughReturns, Over, vars,
                 failVars, scopeVars
  <2>2. Placed' = Placed /\ OtherPlaces' = OtherPlaces
    BY <2>1 DEF Placed, OtherPlaces, Waiting
  <2>3. QED
    BY <1>4, <2>2
<1>13. QED
  BY <1>5, <1>6, <1>7, <1>8, <1>9, <1>10, <1>11, <1>12
  DEF Next, Feeder, Caller, RowStep

\* The backlog's places are conserved, whatever the rows, the limits and the order
\* of events: none is returned twice and none is lost while the run goes on.
THEOREM BacklogConserved == Spec => []BacklogAccounting
<1>1. Init => BacklogAccounting
  <2>1. SUFFICES ASSUME Init PROVE BacklogAccounting
    OBVIOUS
  <2>2. Placed = {}
    <3>1. \A r \in Rows : pc[r] = "unfed"
      BY <2>1 DEF Init
    <3>2. "unfed" \notin PlacedStates
      BY DEF PlacedStates, Active, Waits, Answers
    <3>3. QED
      BY <3>1, <3>2 DEF Placed
  <2>3. OtherPlaces = Backlog
    <3>1. Waiting = <<>> /\ held = <<>> /\ backlog = Backlog
      BY <2>1 DEF Init, Waiting
    <3>2. Len(held) = 0 /\ Len(Waiting) = 0
      BY <3>1
    <3>3. QED
      BY <3>1, <3>2, ConstantsAssumption DEF OtherPlaces
  <2>4. QED
    BY <2>2, <2>3, FS_EmptySet, ConstantsAssumption DEF BacklogAccounting
<1>2. Shape /\ Shape' /\ BacklogAccounting /\ [Next]_vars => BacklogAccounting'
  BY BacklogStep
<1>3. QED
  BY <1>1, <1>2, ShapeInvariant, PTL DEF Spec

LEMMA HoldingFinite ==
  ASSUME TypeOK PROVE IsFiniteSet(holding) /\ Cardinality(holding) \in Nat
<1>1. IsFiniteSet(Rows) /\ holding \subseteq Rows
  BY ConstantsAssumption, FS_Interval DEF Rows, TypeOK
<1>2. QED
  BY <1>1, FS_Subset, FS_CardinalityType

LEMMA PrepareStep ==
  ASSUME Shape, PrepareAccounting, [Next]_vars
  PROVE  PrepareAccounting'
<1>1. TypeOK /\ IsFiniteSet(holding) /\ Cardinality(holding) \in Nat /\ prepare \in Nat
  BY HoldingFinite DEF Shape, TypeOK
<1>2. "doomed" \in NotSentStates
      /\ {"published", "unfed", "placed"} \cap (NotSentStates \cup Waits) = {}
  BY DEF NotSentStates, Waits
<1>3. ASSUME NEW r \in Rows, RowStep(r)
      PROVE  PrepareAccounting'
  <2>1. RowStepEffect(r)
    BY <1>3, RowStepLemma
  <2>2. \A q \in holding \ {r} : pc'[q] \in NotSentStates
    <3>1. holding \subseteq Rows
      BY <1>1 DEF TypeOK
    <3>2. QED
      BY <1>2, <2>1, <3>1 DEF RowStepEffect, RowEffect, PrepareAccounting
  <2>3. CASE Admitted(r)
    <3>1. \A q \in holding' : pc'[q] \in NotSentStates
      BY <2>2, <2>3 DEF Admitted
    <3>2. CASE r \in holding
      <4>1. Cardinality(holding') = Cardinality(holding) - 1 /\ prepare' = prepare + 1
        BY <1>1, <2>3, <3>2, FS_RemoveElement DEF Admitted
      <4>2. QED
        BY <1>1, <3>1, <4>1 DEF PrepareAccounting
    <3>3. CASE r \notin holding
      <4>1. holding' = holding /\ prepare' = prepare
        BY <1>1, <2>3, <3>3 DEF Admitted
      <4>2. QED
        BY <3>1, <4>1 DEF PrepareAccounting
    <3>4. QED
      BY <3>2, <3>3
  <2>4. CASE /\ UNCHANGED <<holding, prepare>>
             /\ pc[r] \in NotSentStates => pc'[r] \in NotSentStates
    BY <2>2, <2>4 DEF PrepareAccounting
  <2>5. QED
    BY <2>1, <2>3, <2>4 DEF RowStepEffect
<1>4. CASE FeederPrepare
  <2>1. /\ prepare' = prepare - 1 /\ holding' = holding \cup {fed}
        /\ pc' = [pc EXCEPT ![fed] = "started"]
        /\ fed \in Rows /\ pc[fed] = "placed" /\ pc \in [Rows -> States]
    BY <1>1, <1>4 DEF FeederPrepare, Shape, TypeOK
  <2>2. fed \notin holding
    BY <1>2, <2>1 DEF PrepareAccounting
  <2>3. Cardinality(holding') = Cardinality(holding) + 1
    BY <1>1, <2>1, <2>2, FS_AddElement
  <2>4. prepare' + Cardinality(holding') = PrepareLimit
    BY <1>1, <2>1, <2>3 DEF PrepareAccounting
  <2>5. \A q \in holding' : pc'[q] \in NotSentStates
    BY <2>1 DEF PrepareAccounting, NotSentStates
  <2>6. QED
    BY <2>4, <2>5 DEF PrepareAccounting
<1>5. CASE FeederBacklog
  <2>1. /\ UNCHANGED <<holding, prepare>> /\ pc' = [pc EXCEPT ![fed] = "placed"]
        /\ pc[fed] = "unfed" /\ pc \in [Rows -> States]
    BY <1>1, <1>5 DEF FeederBacklog, Shape, TypeOK
  <2>2. fed \notin holding
    BY <1>2, <2>1 DEF PrepareAccounting
  <2>3. QED
    BY <2>1, <2>2 DEF PrepareAccounting
<1>6. CASE \/ StopCalled
           \/ \E e \in {"none", "error", "cancel"} : Leave(e)
  <2>1. RunStop(pc) /\ UNCHANGED <<holding, prepare>>
    BY <1>6 DEF StopCalled, Leave
  <2>2. pc \in [Rows -> States] /\ holding \subseteq Rows
    BY <1>1 DEF TypeOK
  <2>3. \A q \in Rows : pc'[q] = pc[q] \/ (pc[q] \in Waits /\ pc'[q] = "doomed")
    BY <1>1, <2>1, <2>2, RunStopEffect
  <2>4. QED
    BY <1>2, <2>1, <2>2, <2>3 DEF PrepareAccounting
<1>7. CASE \/ Reader \/ FeederStart \/ FeederGet \/ FeederEnd \/ FeederCancelled
           \/ ProduceEnds \/ Take \/ TakeWaiting \/ StopReturns \/ ThroughReturns
           \/ Over \/ UNCHANGED vars
  <2>1. UNCHANGED <<pc, holding, prepare>>
    BY <1>7 DEF Reader, ReaderAcquire, ReaderNext, FeederStart, FeederGet, FeederEnd,
                FeederCancelled, ProduceEnds, Take, TakeWaiting, StopReturns,
                ThroughReturns, Over, vars
  <2>2. QED
    BY <2>1 DEF PrepareAccounting
<1>8. QED
  BY <1>3, <1>4, <1>5, <1>6, <1>7 DEF Next, Feeder, Caller, RowStep

\* The prepare limit is never stranded and never exceeded: its places are held by
\* exactly the rows whose body is not in flight yet.
THEOREM PrepareConserved == Spec => []PrepareAccounting
<1>1. Init => PrepareAccounting
  BY FS_EmptySet, ConstantsAssumption DEF Init, PrepareAccounting
<1>2. Shape /\ PrepareAccounting /\ [Next]_vars => PrepareAccounting'
  BY PrepareStep
<1>3. QED
  BY <1>1, <1>2, ShapeInvariant, PTL DEF Spec

-----------------------------------------------------------------------------
(* fail_fast.                                                               *)

\* Until the first success nothing goes into the queue of a run with fail_fast;
\* giving up leaves nothing behind.
FailFastInv ==
  /\ FailFast > 0 /\ ~succeeded /\ feeder # "closed" => results = <<>> /\ taken = <<>>
  /\ discarding => /\ FailFast > 0 /\ ~succeeded
                   /\ held = <<>> /\ Waiting = <<>> /\ taken = <<>>

\* What a row's step does to the finished rows.
FinishedEffect ==
  \/ UNCHANGED <<held, results, succeeded, discarding>>
  \/ /\ ~discarding /\ FailFast > 0 /\ ~succeeded /\ UNCHANGED <<results, succeeded>>
     /\ \/ held' = <<>>
        \/ ~discarding'
  \/ ~discarding /\ ~discarding' /\ (FailFast > 0 => succeeded')

LEMMA PublishFinished ==
  ASSUME TypeOK, NEW r \in Rows, NEW err \in BOOLEAN, Publish(r, err)
  PROVE  FinishedEffect
<1>1. CASE discarding
  BY <1>1 DEF Publish, GivenUp, Discard, FinishedEffect
<1>2. CASE ~discarding /\ err /\ FailFast > 0 /\ ~succeeded
  <2>1. CASE GiveUpFailFast(Append(held, r), pc)
    BY <1>2, <2>1 DEF GiveUpFailFast, FinishedEffect
  <2>2. CASE UNCHANGED <<results, succeeded, discarding>>
    BY <1>2, <2>2 DEF FinishedEffect
  <2>3. QED
    BY <1>2, <2>1, <2>2 DEF Publish, GivenUp
<1>3. CASE ~discarding /\ ~(err /\ FailFast > 0 /\ ~succeeded)
  <2>1. succeeded' = (succeeded \/ FailFast > 0) /\ UNCHANGED discarding
    BY <1>3 DEF Publish, GivenUp
  <2>2. QED
    BY <1>3, <2>1 DEF FinishedEffect
<1>4. QED
  BY <1>1, <1>2, <1>3

LEMMA RowStepFinished ==
  ASSUME TypeOK, NEW r \in Rows, RowStep(r)
  PROVE  FinishedEffect
<1>1. CASE \E err \in BOOLEAN : Publish(r, err)
  BY <1>1, PublishFinished
<1>2. CASE UNCHANGED <<held, results, succeeded, discarding>>
  BY <1>2 DEF FinishedEffect
<1>3. Post(r) => UNCHANGED <<held, results, succeeded, discarding>>
  BY DEF Post, Abort
<1>4. QED
  BY <1>1, <1>2, <1>3
  DEF RowStep, RowLoop, RowBegin, RowResume, RowCancelled, RowAnswered, Abort, failVars

LEMMA FailFastStep ==
  ASSUME Shape, FailFastInv, [Next]_vars
  PROVE  FailFastInv'
<1>1. TypeOK
  BY DEF Shape
<1>2. ASSUME NEW r \in Rows, RowStep(r)
      PROVE  FailFastInv'
  <2>1. /\ FinishedEffect /\ UNCHANGED taken
        /\ feeder # "closed" /\ feeder' # "closed"
    BY <1>1, <1>2, RowStepFinished, RowStepFrame, RowStepLemma
    DEF callerVars, RowStepEffect, RowEffect
  <2>2. Waiting = results /\ Waiting' = results'
    BY <2>1 DEF Waiting
  <2>3. QED
    BY <2>1, <2>2 DEF FinishedEffect, FailFastInv
<1>3. CASE ProduceEnds
  <2>1. /\ feeder # "closed" /\ feeder' = "closed"
        /\ UNCHANGED <<succeeded, discarding, taken>>
    BY <1>3 DEF ProduceEnds, callerVars
  <2>2. CASE discarding
    <3>1. held' = held /\ results = <<>> /\ results' = Append(results, END)
      BY <1>3, <2>1, <2>2 DEF ProduceEnds, PublishHeld, FailFastInv, Waiting
    <3>2. results' = <<END>>
      BY <3>1
    <3>3. Waiting' = <<>>
      BY <2>1, <3>2 DEF Waiting
    <3>4. QED
      BY <2>1, <2>2, <3>1, <3>3 DEF FailFastInv
  <2>3. CASE ~discarding
    BY <2>1, <2>3 DEF FailFastInv
  <2>4. QED
    BY <2>2, <2>3
<1>4. CASE Take \/ TakeWaiting
  <2>1. Waiting # <<>> /\ UNCHANGED <<feeder, held, succeeded, discarding>>
    BY <1>4 DEF Take, TakeWaiting, scopeVars, failVars
  <2>2. ~discarding /\ ~(FailFast > 0 /\ ~succeeded /\ feeder # "closed")
    BY <2>1 DEF FailFastInv, Waiting
  <2>3. QED
    BY <2>1, <2>2 DEF FailFastInv
<1>5. CASE \/ StopCalled
           \/ \E e \in {"none", "error", "cancel"} : Leave(e)
  <2>1. RunStop(pc) /\ UNCHANGED <<held, results, succeeded, discarding, taken>>
    BY <1>5 DEF StopCalled, Leave, failVars
  <2>2. feeder' = "closed" <=> feeder = "closed"
    BY <1>1, <2>1, RunStopEffect DEF TypeOK
  <2>3. QED
    BY <2>1, <2>2 DEF FailFastInv, Waiting
<1>6. CASE \/ Reader \/ FeederStart \/ FeederGet \/ FeederEnd \/ FeederBacklog
           \/ FeederPrepare \/ FeederCancelled \/ StopReturns \/ ThroughReturns
           \/ Over \/ UNCHANGED vars
  <2>1. /\ UNCHANGED <<held, results, succeeded, discarding, taken>>
        /\ feeder' = "closed" <=> feeder = "closed"
    BY <1>6 DEF Reader, ReaderAcquire, ReaderNext, FeederStart, FeederGet, FeederEnd,
                FeederBacklog, FeederPrepare, Await, FeederCancelled, FeederBlocked,
                StopReturns, ThroughReturns, Over, vars, failVars, scopeVars, callerVars
  <2>2. QED
    BY <2>1 DEF FailFastInv, Waiting
<1>7. QED
  BY <1>2, <1>3, <1>4, <1>5, <1>6 DEF Next, Feeder, Caller, RowStep

\* A run that fail_fast gave up stored nothing, and nothing of it will be stored:
\* no row was taken, none is waiting and none is held back.
THEOREM GivingUpStoresNothing == Spec => []FailFastStoresNothing
<1>1. Init => FailFastInv
  BY DEF Init, FailFastInv
<1>2. Shape /\ FailFastInv /\ [Next]_vars => FailFastInv'
  BY FailFastStep
<1>3. FailFastInv => FailFastStoresNothing
  BY DEF FailFastInv, FailFastStoresNothing
<1>4. QED
  BY <1>1, <1>2, <1>3, ShapeInvariant, PTL DEF Spec

-----------------------------------------------------------------------------
(* The reader's lead and the run's first failure.                           *)

Reading == IF reader = "next" THEN 1 ELSE 0

\* Until the stop, the room and the reader's lead stay within READ_AHEAD; after it
\* the room is not worth anything, but the reader takes none of it.
ReadAheadInv ==
  /\ ~stopped => room + (read - fed) + Reading <= ReadAhead
  /\ (read - fed) + Reading <= ReadAhead

LEMMA ReadAheadStep ==
  ASSUME Shape, ReadAheadInv, [Next]_vars
  PROVE  ReadAheadInv'
<1>1. /\ read \in Nat /\ fed \in Nat /\ fed <= read /\ room \in Nat
      /\ Reading \in {0, 1} /\ ReadAhead \in Nat /\ TypeOK
  BY ConstantsAssumption DEF Shape, TypeOK, Reading
<1>2. ASSUME RunStop(pc) \/ UNCHANGED scopeVars, UNCHANGED <<reader, read, fed>>
      PROVE  ReadAheadInv'
  <2>1. Reading' = Reading
    BY <1>2 DEF Reading
  <2>2. (stopped' = stopped /\ room' = room) \/ stopped'
    BY <1>2 DEF RunStop, scopeVars
  <2>3. QED
    BY <1>2, <2>1, <2>2 DEF ReadAheadInv
<1>3. ASSUME NEW r \in Rows, RowStep(r)
      PROVE  ReadAheadInv'
  <2>1. UNCHANGED <<reader, read, fed>>
    BY <1>3, RowStepFrame DEF readerVars
  <2>2. \/ \E p : RunStop(p)
        \/ UNCHANGED scopeVars
    BY <1>3 DEF RowStep, RowLoop, RowBegin, RowResume, RowCancelled, RowAnswered, Post,
                Abort, Publish, Discard, GiveUpFailFast, RunFail, GoesOn
  <2>3. (stopped' = stopped /\ room' = room) \/ stopped'
    BY <2>2 DEF RunStop, scopeVars
  <2>4. Reading' = Reading
    BY <2>1 DEF Reading
  <2>5. QED
    BY <2>1, <2>3, <2>4 DEF ReadAheadInv
<1>4. CASE ReaderAcquire
  <2>1. CASE stopped
    BY <1>1, <1>4, <2>1 DEF ReaderAcquire, StopSeen, ReadAheadInv, Reading
  <2>2. CASE ~stopped
    BY <1>1, <1>4, <2>2 DEF ReaderAcquire, StopSeen, ReadAheadInv, Reading
  <2>3. QED
    BY <2>1, <2>2
<1>5. CASE ReaderNext
  <2>1. /\ Reading = 1 /\ Reading' = 0 /\ UNCHANGED <<stopped, room, fed>>
        /\ read' = read \/ read' = read + 1
    BY <1>5 DEF ReaderNext, Reading, scopeVars
  <2>2. QED
    BY <1>1, <2>1 DEF ReadAheadInv
<1>6. CASE FeederStart
  <2>1. UNCHANGED <<stopped, room, read, fed>> /\ (reader' = "acquire")
    BY <1>6 DEF FeederStart
  <2>2. Reading' = 0
    BY <2>1 DEF Reading
  <2>3. QED
    BY <1>1, <2>1, <2>2 DEF ReadAheadInv
<1>7. CASE FeederGet
  <2>1. Reading' = Reading /\ UNCHANGED <<stopped, read>> /\ fed' = fed + 1
        /\ room' = room + 1
    BY <1>7 DEF FeederGet, readerVars, Reading
  <2>2. QED
    BY <1>1, <2>1 DEF ReadAheadInv
<1>8. CASE FeederEnd \/ FeederCancelled
  <2>1. Reading' = Reading /\ stopped' /\ UNCHANGED <<read, fed>>
    BY <1>8 DEF FeederEnd, FeederCancelled, ReaderStop, readerVars, Reading
  <2>2. QED
    BY <2>1 DEF ReadAheadInv
<1>9. CASE FeederBacklog \/ FeederPrepare \/ ProduceEnds
  <2>1. Reading' = Reading /\ UNCHANGED <<stopped, room, read, fed>>
    BY <1>9 DEF FeederBacklog, FeederPrepare, ProduceEnds, readerVars, Reading
  <2>2. QED
    BY <2>1 DEF ReadAheadInv
<1>10. CASE Caller \/ Over \/ UNCHANGED vars
  <2>1. (RunStop(pc) \/ UNCHANGED scopeVars) /\ UNCHANGED <<reader, read, fed>>
    BY <1>10 DEF Caller, Take, TakeWaiting, StopCalled, StopReturns, Leave,
                 ThroughReturns, Over, vars, readerVars
  <2>2. QED
    BY <1>2, <2>1
<1>11. QED
  BY <1>3, <1>4, <1>5, <1>6, <1>7, <1>8, <1>9, <1>10
  DEF Next, Feeder, Reader, RowStep

\* The reader is at most READ_AHEAD rows ahead, also once a stop gave it room to
\* wake it.
THEOREM ReaderStaysBehind == Spec => []ReadAheadBound
<1>1. Init => ReadAheadInv
  BY ConstantsAssumption DEF Init, ReadAheadInv, Reading
<1>2. Shape /\ ReadAheadInv /\ [Next]_vars => ReadAheadInv'
  BY ReadAheadStep
<1>3. ReadAheadInv => ReadAheadBound
  BY DEF ReadAheadInv, ReadAheadBound, Reading
<1>4. QED
  BY <1>1, <1>2, <1>3, ShapeInvariant, PTL DEF Spec

\* Whatever fails later, the failure through() raises stays the first one.
THEOREM FirstFailureWins == Spec => FirstFailureKept
<1>1. [Next]_vars => [failure # "none" => failure' = failure]_vars
  <2>1. SUFFICES ASSUME Next, failure # "none" PROVE failure' = failure
    OBVIOUS
  <2>2. ASSUME NEW r \in Rows, RowStep(r) PROVE failure' = failure
    BY <2>1, <2>2
    DEF RowStep, RowLoop, RowBegin, RowResume, RowCancelled, RowAnswered, Post, Abort,
        Publish, Discard, GiveUpFailFast, RunFail, GoesOn, failVars
  <2>3. QED
    BY <2>1, <2>2
    DEF Next, Reader, Feeder, Caller, RowStep, ReaderAcquire, ReaderNext, FeederStart,
        FeederGet, FeederEnd, FeederBacklog, FeederPrepare, FeederCancelled, ProduceEnds,
        Take, TakeWaiting, StopCalled, StopReturns, Leave, ThroughReturns, Over, vars,
        failVars
<1>2. QED
  BY <1>1, PTL DEF Spec, FirstFailureKept

\* The limits of a run are conserved together, for every number of rows and every limit: what
\* the pipeline's run checks as PlacesConserved.
THEOREM PlacesAlways == Spec => []PlacesConserved
<1>1. TypeOK /\ BacklogAccounting /\ PrepareAccounting /\ ReadAheadBound => PlacesConserved
  BY DEF PlacesConserved
<1>2. QED
  BY <1>1, TypeCorrect, BacklogConserved, PrepareConserved, ReaderStaysBehind, PTL
-----------------------------------------------------------------------------
(* Finished rows.                                                           *)

Published == {r \in Rows : pc[r] = "published"}

Distinct(s) == \A i, j \in DOMAIN s : i # j => s[i] # s[j]

\* A finished row is in one place: held back, waiting, or taken.
OnePlace ==
  /\ Distinct(held) /\ Distinct(Waiting) /\ Distinct(taken)
  /\ SeqRows(held) \cap SeqRows(Waiting) = {}
  /\ SeqRows(held) \cap SeqRows(taken) = {}
  /\ SeqRows(Waiting) \cap SeqRows(taken) = {}
  /\ SeqRows(held) \cup SeqRows(Waiting) \cup SeqRows(taken) = Published

LEMMA ConcatRows ==
  ASSUME NEW S, NEW s \in Seq(S), NEW t \in Seq(S)
  PROVE  /\ SeqRows(s \o t) = SeqRows(s) \cup SeqRows(t)
         /\ Distinct(s \o t) <=>
              Distinct(s) /\ Distinct(t) /\ SeqRows(s) \cap SeqRows(t) = {}
<1> DEFINE u == s \o t
<1>1. /\ u \in Seq(S) /\ Len(u) = Len(s) + Len(t) /\ Len(s) \in Nat /\ Len(t) \in Nat
      /\ DOMAIN u = 1..Len(u) /\ DOMAIN s = 1..Len(s) /\ DOMAIN t = 1..Len(t)
      /\ \A i \in 1..Len(s) + Len(t) : u[i] = IF i <= Len(s) THEN s[i] ELSE t[i - Len(s)]
  BY ConcatProperties, LenProperties
<1> HIDE DEF u
<1>2. \A i \in DOMAIN s : i \in DOMAIN u /\ u[i] = s[i]
  BY <1>1
<1>3. \A i \in DOMAIN t : i + Len(s) \in DOMAIN u /\ u[i + Len(s)] = t[i] /\ i + Len(s) \notin DOMAIN s
  BY <1>1
<1>4. \A i \in DOMAIN u : i \in DOMAIN s \/ (i - Len(s) \in DOMAIN t /\ i = (i - Len(s)) + Len(s))
  BY <1>1
<1>5. SeqRows(u) = SeqRows(s) \cup SeqRows(t)
  BY <1>2, <1>3, <1>4 DEF SeqRows
<1>6. ASSUME Distinct(u) PROVE Distinct(s) /\ Distinct(t) /\ SeqRows(s) \cap SeqRows(t) = {}
  <2>1. Distinct(s)
    BY <1>2, <1>6 DEF Distinct
  <2>2. Distinct(t)
    <3>1. \A i, j \in DOMAIN t : i # j => i + Len(s) # j + Len(s)
      BY <1>1
    <3>2. QED
      BY <1>3, <1>6, <3>1 DEF Distinct
  <2>3. \A i \in DOMAIN s, j \in DOMAIN t : s[i] # t[j]
    BY <1>2, <1>3, <1>6 DEF Distinct
  <2>4. QED
    BY <2>1, <2>2, <2>3 DEF SeqRows
<1>7. ASSUME Distinct(s), Distinct(t), SeqRows(s) \cap SeqRows(t) = {} PROVE Distinct(u)
  <2>1. \A i \in DOMAIN s, j \in DOMAIN t : s[i] # t[j]
    BY <1>7 DEF SeqRows
  <2>2. SUFFICES ASSUME NEW i \in DOMAIN u, NEW j \in DOMAIN u, i # j PROVE u[i] # u[j]
    BY DEF Distinct
  <2>3. CASE i \in DOMAIN s /\ j \in DOMAIN s
    BY <1>2, <1>7, <2>2, <2>3 DEF Distinct
  <2>4. CASE i \in DOMAIN s /\ j \notin DOMAIN s
    BY <1>2, <1>3, <1>4, <2>1, <2>4
  <2>5. CASE i \notin DOMAIN s /\ j \in DOMAIN s
    BY <1>2, <1>3, <1>4, <2>1, <2>5
  <2>6. CASE i \notin DOMAIN s /\ j \notin DOMAIN s
    <3>1. /\ i - Len(s) \in DOMAIN t /\ j - Len(s) \in DOMAIN t /\ i - Len(s) # j - Len(s)
          /\ u[i] = t[i - Len(s)] /\ u[j] = t[j - Len(s)]
      BY <1>1, <2>2, <2>6
    <3>2. QED
      BY <1>7, <3>1 DEF Distinct
  <2>7. QED
    BY <2>3, <2>4, <2>5, <2>6
<1>8. QED
  BY <1>5, <1>6, <1>7 DEF u

LEMMA OneRow ==
  ASSUME NEW S, NEW x \in S
  PROVE  <<x>> \in Seq(S) /\ SeqRows(<<x>>) = {x} /\ Distinct(<<x>>)
<1>1. <<x>> \in Seq(S) /\ DOMAIN <<x>> = {1} /\ <<x>>[1] = x
  OBVIOUS
<1>2. QED
  BY <1>1 DEF SeqRows, Distinct

LEMMA NoRows == SeqRows(<<>>) = {} /\ Distinct(<<>>)
BY DEF SeqRows, Distinct

LEMMA AppendRows ==
  ASSUME NEW S, NEW s \in Seq(S), NEW x \in S
  PROVE  SeqRows(Append(s, x)) = SeqRows(s) \cup {x}
<1>1. Append(s, x) = s \o <<x>>
  BY AppendIsConcat
<1>2. <<x>> \in Seq(S) /\ SeqRows(<<x>>) = {x}
  BY OneRow
<1>3. SeqRows(s \o <<x>>) = SeqRows(s) \cup SeqRows(<<x>>)
  BY <1>2, ConcatRows
<1>4. QED
  BY <1>1, <1>2, <1>3, Zenon

LEMMA AppendDistinct ==
  ASSUME NEW S, NEW s \in Seq(S), NEW x \in S
  PROVE  Distinct(Append(s, x)) <=> Distinct(s) /\ x \notin SeqRows(s)
<1>1. Append(s, x) = s \o <<x>>
  BY AppendIsConcat
<1>2. <<x>> \in Seq(S) /\ SeqRows(<<x>>) = {x} /\ Distinct(<<x>>)
  BY OneRow
<1>3. Distinct(s \o <<x>>) <=>
        Distinct(s) /\ Distinct(<<x>>) /\ SeqRows(s) \cap SeqRows(<<x>>) = {}
  BY <1>2, ConcatRows
<1>4. QED
  BY <1>1, <1>2, <1>3, Zenon

LEMMA HeadRows ==
  ASSUME NEW S, NEW s \in Seq(S), s # <<>>, Distinct(s)
  PROVE  /\ Head(s) \in S /\ Tail(s) \in Seq(S) /\ s = <<Head(s)>> \o Tail(s)
         /\ SeqRows(s) = {Head(s)} \cup SeqRows(Tail(s))
         /\ Distinct(Tail(s)) /\ Head(s) \notin SeqRows(Tail(s))
<1>1. Head(s) \in S /\ Tail(s) \in Seq(S) /\ s = <<Head(s)>> \o Tail(s)
  BY HeadTailProperties
<1> DEFINE t == Tail(s)
           x == Head(s)
<1>2. <<x>> \in Seq(S) /\ SeqRows(<<x>>) = {x} /\ Distinct(<<x>>) /\ t \in Seq(S)
  BY <1>1, OneRow
<1> HIDE DEF t, x
<1>3. /\ SeqRows(<<x>> \o t) = SeqRows(<<x>>) \cup SeqRows(t)
      /\ Distinct(<<x>> \o t) <=>
           Distinct(<<x>>) /\ Distinct(t) /\ SeqRows(<<x>>) \cap SeqRows(t) = {}
  BY <1>2, ConcatRows
<1>4. s = <<x>> \o t /\ Distinct(<<x>> \o t)
  BY <1>1 DEF t, x
<1>5. SeqRows(s) = {x} \cup SeqRows(t) /\ Distinct(t) /\ x \notin SeqRows(t)
  BY <1>2, <1>3, <1>4, Zenon
<1>6. QED
  BY <1>1, <1>5 DEF t, x

\* What a row's step does to the finished rows.
PublishEffectOn(r) ==
  \/ UNCHANGED <<held, results, Published>>
  \/ r \notin Published /\ Published' = Published \cup {r}
     /\ \/ held' = Append(held, r) /\ UNCHANGED results
        \/ held' = <<>> /\ results' = results \o (held \o <<r>>)
  \/ held' = <<>> /\ UNCHANGED results /\ Published' = Published \ SeqRows(held)

\* A step that leaves the row unfinished.
LEMMA NotPublished ==
  ASSUME TypeOK, NEW r \in Rows, pc[r] # "published", NEW x \in States, x # "published",
         \/ RunStop([pc EXCEPT ![r] = x])
         \/ pc' = [pc EXCEPT ![r] = x]
  PROVE  Published' = Published
<1>1. pc \in [Rows -> States] /\ [pc EXCEPT ![r] = x] \in [Rows -> States]
  BY DEF TypeOK
<1>2. "published" \notin Waits
  BY DEF Waits
<1>3. \A q \in Rows : pc'[q] = "published" <=> [pc EXCEPT ![r] = x][q] = "published"
  BY <1>1, <1>2, RunStopEffect
<1>4. QED
  BY <1>1, <1>3 DEF Published

LEMMA PublishLists ==
  ASSUME Shape, NEW r \in Rows, pc[r] \in Active, NEW err \in BOOLEAN, Publish(r, err)
  PROVE  PublishEffectOn(r)
<1> DEFINE h == Append(held, r)
           p == [pc EXCEPT ![r] = "published"]
           g == [q \in Rows |-> IF \E i \in DOMAIN h : h[i] = q THEN "dropped" ELSE pc[q]]
<1>1. /\ TypeOK /\ pc \in [Rows -> States] /\ held \in Seq(Rows)
      /\ {"published", "dropped"} \cap (Active \cup Waits) = {}
      /\ {"published", "dropped"} \subseteq States
      /\ pc[r] # "published" /\ r \notin Published
  BY DEF Shape, TypeOK, Active, Waits, Answers, States, Published
<1>2. CASE discarding /\ Discard(r)
  <2>1. pc' = [pc EXCEPT ![r] = "dropped"] /\ UNCHANGED <<held, results>>
    BY <1>2 DEF Discard, GoesOn
  <2>2. QED
    BY <1>1, <2>1, NotPublished DEF PublishEffectOn
<1>3. CASE GiveUpFailFast(h, pc)
  <2>1. g \in [Rows -> States]
    BY <1>1
  <2>2. RunStop(g) /\ held' = <<>> /\ UNCHANGED results
    BY <1>3 DEF GiveUpFailFast, RunFail
  <2>3. \A q \in Rows : pc'[q] = "published" <=> g[q] = "published"
    BY <1>1, <2>1, <2>2, RunStopEffect
  <2>4. \A q \in Rows : g[q] = "published" <=> pc[q] = "published" /\ q \notin SeqRows(h)
    BY DEF SeqRows
  <2>5. SeqRows(h) = SeqRows(held) \cup {r}
    <3>1. held \in Seq(Rows) /\ r \in Rows
      BY <1>1
    <3>2. QED
      BY <3>1, AppendRows, AppendDistinct
  <2>6. Published' = Published \ SeqRows(held)
    BY <1>1, <2>3, <2>4, <2>5 DEF Published
  <2>7. QED
    BY <2>2, <2>6 DEF PublishEffectOn
<1>4. CASE GoesOn(p) /\ \/ held' = h /\ UNCHANGED results
                        \/ held' = <<>> /\ results' = results \o (held \o <<r>>)
  <2>1. pc' = p
    BY <1>4 DEF GoesOn
  <2>2. Published' = Published \cup {r}
    BY <1>1, <2>1 DEF Published
  <2>3. QED
    BY <1>1, <1>4, <2>2 DEF PublishEffectOn
<1>5. QED
  BY <1>2, <1>3, <1>4 DEF Publish, GivenUp, Flush

LEMMA RowStepLists ==
  ASSUME Shape, NEW r \in Rows, RowStep(r)
  PROVE  PublishEffectOn(r)
<1>1. TypeOK /\ pc[r] \in Active /\ pc[r] # "published"
  BY RowStepLemma DEF Shape, Active, Waits, Answers
<1>2. CASE \E err \in BOOLEAN : Publish(r, err)
  BY <1>1, <1>2, PublishLists
<1>3. ASSUME NEW x \in States \ {"published"}, UNCHANGED <<held, results>>,
             RunStop([pc EXCEPT ![r] = x]) \/ pc' = [pc EXCEPT ![r] = x]
      PROVE  PublishEffectOn(r)
  BY <1>1, <1>3, NotPublished DEF PublishEffectOn
<1>4. /\ Await("building") \in States \ {"published"}
      /\ Await("admission") \in States \ {"published"}
      /\ Await("inflight") \in States \ {"published"}
      /\ Answers \cup {"aborted", "cancelled"} \subseteq States \ {"published"}
  BY DEF Await, States, Active, Waits, Answers
<1>5. CASE Abort(r)
  <2>1. RunStop([pc EXCEPT ![r] = "aborted"]) /\ UNCHANGED <<held, results>>
    BY <1>5 DEF Abort, RunFail
  <2>2. QED
    BY <1>3, <1>4, <2>1
<1>6. CASE Post(r)
  <2>1. CASE GoesOn([pc EXCEPT ![r] = Await("admission")]) /\ UNCHANGED <<held, results>>
    BY <1>3, <1>4, <2>1 DEF GoesOn
  <2>2. QED
    BY <1>5, <1>6, <2>1 DEF Post
<1>7. CASE RowBegin(r)
  <2>1. CASE GoesOn([pc EXCEPT ![r] = Await("building")]) /\ UNCHANGED <<held, results>>
    BY <1>3, <1>4, <2>1 DEF GoesOn
  <2>2. QED
    BY <1>2, <1>6, <1>7, <2>1 DEF RowBegin
<1>8. CASE RowResume(r)
  <2>1. CASE GoesOn([pc EXCEPT ![r] = Await("inflight")]) /\ UNCHANGED <<held, results>>
    BY <1>3, <1>4, <2>1 DEF GoesOn
  <2>2. QED
    BY <1>2, <1>5, <1>6, <1>8, <2>1 DEF RowResume
<1>9. CASE RowCancelled(r)
  <2>1. pc' = [pc EXCEPT ![r] = "cancelled"] /\ UNCHANGED <<held, results>>
    BY <1>9 DEF RowCancelled, failVars
  <2>2. QED
    BY <1>3, <1>4, <2>1
<1>10. CASE RowAnswered(r)
  <2>1. \E a \in Answers : pc' = [pc EXCEPT ![r] = a]
    BY <1>10 DEF RowAnswered, Answers
  <2>2. UNCHANGED <<held, results>>
    BY <1>10 DEF RowAnswered, failVars
  <2>3. QED
    BY <1>3, <1>4, <2>1, <2>2
<1>11. QED
  BY <1>7, <1>8, <1>9, <1>10 DEF RowStep, RowLoop

LEMMA OnePlaceStep ==
  ASSUME Shape, OnePlace, [Next]_vars
  PROVE  OnePlace'
<1>1. /\ TypeOK /\ pc \in [Rows -> States] /\ held \in Seq(Rows) /\ Waiting \in Seq(Rows)
      /\ taken \in Seq(Rows)
  BY DEF Shape, TypeOK
<1>2. ASSUME NEW r \in Rows, RowStep(r) PROVE OnePlace'
  <2>1. PublishEffectOn(r) /\ UNCHANGED taken /\ Waiting = results /\ Waiting' = results'
    BY <1>2, RowStepLists, RowStepFrame, RowStepLemma
    DEF callerVars, Waiting, RowStepEffect, RowEffect
  <2>2. CASE UNCHANGED <<held, results, Published>>
    BY <2>1, <2>2 DEF OnePlace
  <2>3. CASE /\ r \notin Published /\ Published' = Published \cup {r}
             /\ held' = Append(held, r) /\ UNCHANGED results
    <3>1. SeqRows(held') = SeqRows(held) \cup {r} /\ (Distinct(held') <=> Distinct(held) /\ r \notin SeqRows(held))
      BY <1>1, <2>3, AppendRows, AppendDistinct
    <3>2. QED
      BY <2>1, <2>3, <3>1 DEF OnePlace
  <2>4. CASE /\ r \notin Published /\ Published' = Published \cup {r}
             /\ held' = <<>> /\ results' = results \o (held \o <<r>>)
    <3>1. /\ held \o <<r>> \in Seq(Rows) /\ SeqRows(held \o <<r>>) = SeqRows(held) \cup {r}
          /\ Distinct(held \o <<r>>) <=> Distinct(held) /\ r \notin SeqRows(held)
      <4>1. held \in Seq(Rows) /\ r \in Rows
        BY <1>1
      <4>2. held \o <<r>> = Append(held, r) /\ held \o <<r>> \in Seq(Rows)
        BY <4>1, AppendIsConcat, AppendProperties
      <4>3. SeqRows(Append(held, r)) = SeqRows(held) \cup {r}
            /\ (Distinct(Append(held, r)) <=> Distinct(held) /\ r \notin SeqRows(held))
        BY <4>1, AppendRows, AppendDistinct
      <4>4. QED
        BY <4>2, <4>3
    <3>2. /\ SeqRows(results') = SeqRows(results) \cup SeqRows(held \o <<r>>)
          /\ Distinct(results') <=> /\ Distinct(results) /\ Distinct(held \o <<r>>)
                                    /\ SeqRows(results) \cap SeqRows(held \o <<r>>) = {}
      BY <1>1, <2>1, <2>4, <3>1, ConcatRows
    <3>3. SeqRows(held') = {} /\ Distinct(held')
      BY <2>4, NoRows
    <3>4. QED
      BY <2>1, <2>4, <3>1, <3>2, <3>3 DEF OnePlace
  <2>5. CASE held' = <<>> /\ UNCHANGED results /\ Published' = Published \ SeqRows(held)
    <3>1. SeqRows(held') = {} /\ Distinct(held')
      BY <2>5, NoRows
    <3>2. QED
      BY <2>1, <2>5, <3>1 DEF OnePlace
  <2>6. QED
    BY <2>1, <2>2, <2>3, <2>4, <2>5 DEF PublishEffectOn
<1>3. CASE ProduceEnds
  <2>1. feeder # "closed" /\ feeder' = "closed" /\ UNCHANGED <<pc, taken>> /\ Waiting = results
    BY <1>3 DEF ProduceEnds, Waiting, callerVars
  <2>2. UNCHANGED Published
    BY <2>1 DEF Published
  <2>3. ASSUME NEW w \in Seq(Rows), results' = Append(w, END) PROVE Waiting' = w
    <3>1. w \in Seq(Rows \cup {END}) /\ END \in Rows \cup {END} /\ Len(w) \in Nat
      BY <2>3
    <3>2. /\ Len(results') = Len(w) + 1 /\ results' \in Seq(Rows \cup {END})
          /\ \A i \in 1..Len(w) : results'[i] = w[i]
      BY <2>3, <3>1, AppendProperties
    <3>3. SubSeq(results', 1, Len(w)) = w
      BY <2>3, <3>1, <3>2
    <3>4. QED
      BY <2>1, <3>1, <3>2, <3>3 DEF Waiting
  <2>4. CASE results' = Append(results, END) /\ UNCHANGED held
    <3>1. Waiting' = Waiting
      BY <1>1, <2>1, <2>3, <2>4
    <3>2. QED
      BY <2>1, <2>2, <2>4, <3>1 DEF OnePlace
  <2>5. CASE results' = results \o held \o <<END>> /\ held' = <<>>
    <3>1. results \o held \in Seq(Rows)
      BY <1>1, <2>1, ConcatProperties
    <3>2. results \o held \in Seq(Rows \cup {END}) /\ END \in Rows \cup {END}
      BY <3>1
    <3>3. (results \o held) \o <<END>> = Append(results \o held, END)
      BY <3>2, AppendIsConcat
    <3>4. Waiting' = Waiting \o held
      BY <2>1, <2>3, <2>5, <3>1, <3>3
    <3>5. /\ SeqRows(Waiting') = SeqRows(Waiting) \cup SeqRows(held)
          /\ Distinct(Waiting') <=> /\ Distinct(Waiting) /\ Distinct(held)
                                    /\ SeqRows(Waiting) \cap SeqRows(held) = {}
      BY <1>1, <3>4, ConcatRows
    <3>6. SeqRows(held') = {} /\ Distinct(held')
      BY <2>5, NoRows
    <3>7. QED
      BY <2>1, <2>2, <3>5, <3>6 DEF OnePlace
  <2>6. QED
    BY <1>3, <2>4, <2>5 DEF ProduceEnds, PublishHeld
<1>4. CASE Take
  <2>1. /\ UNCHANGED <<pc, held, feeder>> /\ Waiting # <<>> /\ results' = Tail(results)
        /\ taken' = Append(taken, Head(results))
    BY <1>4 DEF Take, scopeVars, failVars
  <2>2. UNCHANGED Published
    BY <2>1 DEF Published
  <2>3. Head(results) = Head(Waiting) /\ Waiting' = Tail(Waiting)
    <3>1. CASE feeder # "closed"
      BY <2>1, <3>1 DEF Waiting
    <3>2. CASE feeder = "closed"
      <4>1. results \in Seq(Rows \cup {END}) /\ Len(results) > 0 /\ Waiting = SubSeq(results, 1, Len(results) - 1)
            /\ Waiting' = SubSeq(results', 1, Len(results') - 1)
        BY <2>1, <3>2 DEF Shape, TypeOK, Waiting
      <4>2. Len(results) >= 2
        BY <2>1, <4>1
      <4>3. /\ results' \in Seq(Rows \cup {END}) /\ Len(results') = Len(results) - 1
            /\ \A i \in 1..Len(results') : results'[i] = results[i + 1]
        BY <2>1, <4>1, <4>2, HeadTailProperties
      <4>4. Head(results) = results[1] /\ Head(Waiting) = results[1]
        BY <4>1, <4>2
      <4>5. Waiting' = Tail(Waiting)
        <5>1. Len(Waiting) = Len(results) - 1 /\ \A i \in 1..Len(Waiting) : Waiting[i] = results[i]
          BY <4>1, <4>2
        <5>2. Tail(Waiting) \in Seq(Rows) /\ Len(Tail(Waiting)) = Len(results) - 2
              /\ \A i \in 1..Len(results) - 2 : Tail(Waiting)[i] = results[i + 1]
          BY <1>1, <2>1, <4>1, <4>2, <5>1, HeadTailProperties
        <5>3. Waiting' \in Seq(Rows) /\ Len(Waiting') = Len(results) - 2
              /\ \A i \in 1..Len(results) - 2 : Waiting'[i] = results[i + 1]
          <6>1. \A i \in 1..Len(results) - 2 : results'[i] = results[i + 1] /\ Tail(Waiting)[i] \in Rows
            BY <4>1, <4>2, <4>3, <5>2
          <6>2. \A i \in 1..Len(results) - 2 : results'[i] \in Rows
            BY <5>2, <6>1
          <6>3. QED
            BY <4>1, <4>2, <4>3, <6>1, <6>2
        <5>4. QED
          BY <4>1, <4>2, <5>2, <5>3, SeqEqual
      <4>6. QED
        BY <4>4, <4>5
    <3>3. QED
      BY <3>1, <3>2
  <2>4. Distinct(Waiting)
    BY DEF OnePlace
  <2>5. /\ Head(Waiting) \in Rows
        /\ SeqRows(Waiting) = {Head(Waiting)} \cup SeqRows(Waiting')
        /\ Distinct(Waiting') /\ Head(Waiting) \notin SeqRows(Waiting')
    BY <1>1, <2>1, <2>3, <2>4, HeadRows
  <2>6. /\ SeqRows(taken') = SeqRows(taken) \cup {Head(Waiting)}
        /\ Distinct(taken') <=> Distinct(taken) /\ Head(Waiting) \notin SeqRows(taken)
    <3>1. taken \in Seq(Rows) /\ Head(Waiting) \in Rows /\ taken' = Append(taken, Head(Waiting))
      BY <1>1, <2>1, <2>3, <2>5
    <3>2. QED
      BY <3>1, AppendRows, AppendDistinct
  <2>7. QED
    BY <2>1, <2>2, <2>5, <2>6 DEF OnePlace
<1>5. CASE TakeWaiting
  <2>1. /\ UNCHANGED <<pc, held, feeder>> /\ taken' = taken \o Waiting
        /\ results' = IF feeder = "closed" THEN <<END>> ELSE <<>>
    BY <1>5 DEF TakeWaiting, scopeVars, failVars
  <2>2. UNCHANGED Published
    BY <2>1 DEF Published
  <2>3. Waiting' = <<>>
    BY <2>1 DEF Waiting
  <2>4. /\ SeqRows(taken') = SeqRows(taken) \cup SeqRows(Waiting)
        /\ Distinct(taken') <=> /\ Distinct(taken) /\ Distinct(Waiting)
                                /\ SeqRows(taken) \cap SeqRows(Waiting) = {}
    BY <1>1, <2>1, ConcatRows
  <2>5. SeqRows(Waiting') = {} /\ Distinct(Waiting')
    BY <2>3, NoRows
  <2>6. QED
    BY <2>1, <2>2, <2>4, <2>5 DEF OnePlace
<1>6. ASSUME UNCHANGED <<held, Waiting, taken>>,
             \A r \in Rows : pc'[r] = "published" <=> pc[r] = "published"
      PROVE  OnePlace'
  <2>1. UNCHANGED Published
    BY <1>6 DEF Published
  <2>2. QED
    BY <1>6, <2>1 DEF OnePlace
<1>7. CASE StopCalled \/ \E e \in {"none", "error", "cancel"} : Leave(e)
  <2>1. RunStop(pc) /\ UNCHANGED <<held, results, taken>> /\ "published" \notin Waits
    BY <1>7 DEF StopCalled, Leave, failVars, Waits
  <2>2. /\ feeder' = "closed" <=> feeder = "closed"
        /\ \A r \in Rows : pc'[r] = pc[r] \/ (pc[r] \in Waits /\ pc'[r] = "doomed")
    BY <1>1, <2>1, RunStopEffect
  <2>3. UNCHANGED Waiting /\ \A r \in Rows : pc'[r] = "published" <=> pc[r] = "published"
    BY <2>1, <2>2 DEF Waiting
  <2>4. QED
    BY <1>6, <2>1, <2>3
<1>8. CASE FeederBacklog \/ FeederPrepare
  <2>1. /\ UNCHANGED <<held, results, taken>>
        /\ feeder # "closed" /\ feeder' # "closed"
        /\ fed \in Rows /\ pc[fed] \in {"unfed", "placed"}
        /\ \E x \in {"placed", "started"} : pc' = [pc EXCEPT ![fed] = x]
    BY <1>8 DEF FeederBacklog, FeederPrepare, Await, failVars, callerVars, Shape
  <2>2. UNCHANGED Waiting /\ \A r \in Rows : pc'[r] = "published" <=> pc[r] = "published"
    BY <1>1, <2>1 DEF Waiting
  <2>3. QED
    BY <1>6, <2>1, <2>2
<1>9. CASE \/ Reader \/ FeederStart \/ FeederGet \/ FeederEnd \/ FeederCancelled
           \/ StopReturns \/ ThroughReturns \/ Over \/ UNCHANGED vars
  <2>1. /\ UNCHANGED <<pc, held, results, taken>>
        /\ feeder' = "closed" <=> feeder = "closed"
    BY <1>9 DEF Reader, ReaderAcquire, ReaderNext, FeederStart, FeederGet, FeederEnd,
                FeederCancelled, FeederBlocked,
                StopReturns, ThroughReturns, Over, vars, failVars, scopeVars, callerVars
  <2>2. QED
    BY <1>6, <2>1 DEF Waiting
<1>10. QED
  BY <1>2, <1>3, <1>4, <1>5, <1>7, <1>8, <1>9 DEF Next, Feeder, Caller, RowStep

LEMMA OnePlaceIs ==
  ASSUME Shape, OnePlace
  PROVE  NoFinishedRowLost
<1> DEFINE all == held \o Waiting \o taken
<1>1. held \in Seq(Rows) /\ Waiting \in Seq(Rows) /\ taken \in Seq(Rows)
  BY DEF Shape, TypeOK
<1>2. /\ held \o Waiting \in Seq(Rows)
      /\ SeqRows(held \o Waiting) = SeqRows(held) \cup SeqRows(Waiting)
      /\ Distinct(held \o Waiting)
  BY <1>1, ConcatRows, ConcatProperties DEF OnePlace
<1> DEFINE hw == held \o Waiting
<1>a. all = hw \o taken
  BY <1>1
<1>b. hw \in Seq(Rows) /\ Distinct(hw) /\ SeqRows(hw) \cap SeqRows(taken) = {}
  BY <1>2 DEF OnePlace
<1> HIDE DEF hw
<1>c. /\ SeqRows(hw \o taken) = SeqRows(hw) \cup SeqRows(taken)
      /\ Distinct(hw \o taken) <=> Distinct(hw) /\ Distinct(taken) /\ SeqRows(hw) \cap SeqRows(taken) = {}
  BY <1>1, <1>b, ConcatRows
<1>3. SeqRows(all) = SeqRows(held \o Waiting) \cup SeqRows(taken) /\ Distinct(all)
  BY <1>a, <1>b, <1>c DEF OnePlace, hw
<1>4. QED
  BY <1>2, <1>3 DEF NoFinishedRowLost, OnePlace, Distinct, Published

\* Every row that finished is held back, waiting or taken, in one place and once: neither
\* a stop, a cancel, fail_fast nor the end of the run loses a result or gives it twice.
THEOREM FinishedRowsKept == Spec => []NoFinishedRowLost
<1>1. Init => OnePlace
  <2>1. SUFFICES ASSUME Init PROVE OnePlace
    OBVIOUS
  <2>2. held = <<>> /\ Waiting = <<>> /\ taken = <<>> /\ Published = {}
    BY <2>1 DEF Init, Waiting, Published
  <2>3. QED
    BY <2>2, NoRows DEF OnePlace
<1>2. Shape /\ OnePlace /\ [Next]_vars => OnePlace'
  BY OnePlaceStep
<1>3. Shape /\ OnePlace => NoFinishedRowLost
  BY OnePlaceIs
<1>4. QED
  BY <1>1, <1>2, <1>3, ShapeInvariant, PTL DEF Spec

-----------------------------------------------------------------------------
(* What a run that is over leaves.                                          *)

\* What a row's task does while nothing cancels the run.
Going == (Active \ {"doomed"}) \cup {"published"}

\* Nothing is cancelled before _produce runs; who cancels records why.
Cancelling ==
  /\ feeder = "created" => fed = 0 /\ ending = "none" /\ ~cancelled /\ reader = "off"
  /\ discarding => cancelled
  /\ failure = "fail_fast" => discarding
  /\ feeder = "doomed" => cancelled

\* The input that ended was read to its end, and nothing is read behind it.
Ended ==
  /\ ending # "none" => reader = "done"
  /\ ending = "end" => read = NumRows

\* As long as nothing is cancelled, every row that was fed is on its way or finished, and
\* the feeder leaves only behind the last row.
Uncancelled == ~cancelled =>
  /\ feeder \in {"joining", "closed"} => fed = read /\ ending # "none"
  /\ \A r \in Rows : r <= fed =>
       pc[r] \in Going \/ (r = fed /\ feeder \in {"backlog", "prepare"})

WholeInv == Cancelling /\ Ended /\ Uncancelled /\ FinishedRowsReadable

\* What a row's step does to the run.
RunEffectOn(r) ==
  /\ cancelled => cancelled'
  /\ ~cancelled' => /\ UNCHANGED <<feeder, discarding, failure>>
                    /\ pc[r] # "doomed" => \E x \in Going : pc' = [pc EXCEPT ![r] = x]
  /\ discarding => discarding'
  /\ discarding' => cancelled'
  /\ failure' = "fail_fast" => discarding'
  /\ feeder' = "doomed" => cancelled'
  /\ feeder # "created" /\ feeder' # "created"

LEMMA StopCancels ==
  ASSUME Shape, feeder # "created", NEW p, RunStop(p)
  PROVE  cancelled' /\ feeder' # "created"
BY DEF RunStop, Shape, TypeOK

LEMMA RowStepRun ==
  ASSUME Shape, Cancelling, NEW r \in Rows, RowStep(r)
  PROVE  RunEffectOn(r)
<1>1. /\ pc[r] \in Active /\ feeder # "created"
      /\ discarding \in BOOLEAN /\ cancelled \in BOOLEAN
      /\ failure \in {"none", "input", "fatal", "fail_fast"}
  <2>1. pc[r] \in Active /\ pc[r] # "unfed"
    BY RowStepLemma DEF Active, Waits, Answers
  <2>2. r <= fed /\ fed # 0
    BY <2>1, ConstantsAssumption DEF Shape, TypeOK, Rows
  <2>3. QED
    BY <2>1, <2>2 DEF Cancelling, Shape, TypeOK
<1>2. ASSUME NEW x, x \in Going \/ (cancelled /\ x = "doomed"), GoesOn([pc EXCEPT ![r] = x]),
             UNCHANGED discarding
      PROVE  RunEffectOn(r)
  BY <1>1, <1>2 DEF GoesOn, scopeVars, RunEffectOn, Cancelling
<1>3. CASE Abort(r)
  <2>1. RunStop([pc EXCEPT ![r] = "aborted"]) /\ UNCHANGED discarding
        /\ (failure' = "fail_fast" => failure = "fail_fast")
    BY <1>3 DEF Abort, RunFail
  <2>2. cancelled' /\ feeder' # "created"
    BY <1>1, <2>1, StopCancels
  <2>3. QED
    BY <1>1, <2>1, <2>2 DEF RunEffectOn, Cancelling
<1>4. ASSUME NEW err \in BOOLEAN, Publish(r, err) PROVE RunEffectOn(r)
  <2>1. "published" \in Going
    BY DEF Going
  <2>2. CASE discarding /\ Discard(r)
    <3>1. UNCHANGED <<scopeVars, failure, discarding>>
      BY <2>2 DEF Discard, GoesOn
    <3>2. cancelled
      BY <2>2 DEF Cancelling
    <3>3. QED
      BY <1>1, <2>2, <3>1, <3>2 DEF RunEffectOn, Cancelling, scopeVars
  <2>3. CASE GiveUpFailFast(Append(held, r), pc)
    <3>1. discarding' /\ \E p : RunStop(p)
      BY <2>3 DEF GiveUpFailFast, RunFail
    <3>2. cancelled' /\ feeder' # "created"
      BY <1>1, <3>1, StopCancels
    <3>3. QED
      BY <1>1, <3>1, <3>2 DEF RunEffectOn
  <2>4. CASE GoesOn([pc EXCEPT ![r] = "published"]) /\ UNCHANGED discarding
    BY <1>2, <2>1, <2>4
  <2>5. QED
    BY <1>4, <2>2, <2>3, <2>4 DEF Publish, GivenUp
<1>5. /\ Waits \cup Answers \subseteq Going
      /\ \A w \in Waits : Await(w) \in Going \/ (cancelled /\ Await(w) = "doomed")
      /\ {"building", "admission", "inflight"} \subseteq Waits
  BY DEF Going, Active, Waits, Answers, Await
<1>6. CASE Post(r)
  <2>1. CASE GoesOn([pc EXCEPT ![r] = Await("admission")]) /\ UNCHANGED discarding
    BY <1>2, <1>5, <2>1
  <2>2. QED
    BY <1>3, <1>6, <2>1 DEF Post
<1>7. CASE RowBegin(r)
  <2>1. CASE GoesOn([pc EXCEPT ![r] = Await("building")]) /\ UNCHANGED discarding
    BY <1>2, <1>5, <2>1
  <2>2. QED
    BY <1>4, <1>6, <1>7, <2>1 DEF RowBegin
<1>8. CASE RowResume(r)
  <2>1. CASE GoesOn([pc EXCEPT ![r] = Await("inflight")]) /\ UNCHANGED discarding
    BY <1>2, <1>5, <2>1
  <2>2. QED
    BY <1>3, <1>4, <1>6, <1>8, <2>1 DEF RowResume
<1>9. CASE RowCancelled(r)
  <2>1. pc[r] = "doomed" /\ UNCHANGED <<scopeVars, failVars>>
    BY <1>9 DEF RowCancelled
  <2>2. QED
    BY <1>1, <2>1 DEF RunEffectOn, Cancelling, scopeVars, failVars
<1>10. CASE RowAnswered(r)
  <2>1. \E a \in Answers : pc' = [pc EXCEPT ![r] = a]
    BY <1>10 DEF RowAnswered, Answers
  <2>2. UNCHANGED <<scopeVars, failVars>>
    BY <1>10 DEF RowAnswered
  <2>3. QED
    BY <1>1, <1>5, <2>1, <2>2 DEF RunEffectOn, Cancelling, scopeVars, failVars
<1>11. QED
  BY <1>7, <1>8, <1>9, <1>10 DEF RowStep, RowLoop

LEMMA WholeStep ==
  ASSUME Shape, FailFastInv, WholeInv, [Next]_vars
  PROVE  WholeInv'
<1>1. /\ TypeOK /\ pc \in [Rows -> States] /\ fed \in Nat /\ read \in Nat /\ fed <= read
      /\ read <= NumRows /\ NumRows \in Nat
      /\ "doomed" \notin Going /\ "published" \in Going /\ "started" \in Going
  BY ConstantsAssumption DEF Shape, TypeOK, Going, Active, Waits, Answers
<1>2. ASSUME NEW r \in Rows, RowStep(r) PROVE WholeInv'
  <2>1. /\ RunEffectOn(r) /\ UNCHANGED <<reader, read, ending, fed>>
        /\ feeder # "closed" /\ feeder' # "closed" /\ pc[r] \in Active
    BY <1>2, RowStepRun, RowStepFrame, RowStepLemma
    DEF WholeInv, readerVars, RowStepEffect, RowEffect
  <2>2. Cancelling' /\ Ended' /\ FinishedRowsReadable'
    BY <2>1 DEF WholeInv, Cancelling, Ended, FinishedRowsReadable, RunEffectOn
  <2>3. ASSUME ~cancelled' PROVE Uncancelled'
    <3>1. ~cancelled /\ UNCHANGED feeder /\ r <= fed /\ pc[r] \notin {"unfed", "placed"}
      BY <1>1, <2>1, <2>3 DEF RunEffectOn, Shape, Rows, Active, Waits, Answers
    <3>2. pc[r] \in Going
      BY <2>1, <3>1 DEF WholeInv, Uncancelled, Shape
    <3>3. PICK x \in Going : pc' = [pc EXCEPT ![r] = x]
      BY <1>1, <2>1, <2>3, <3>2 DEF RunEffectOn
    <3>4. QED
      BY <1>1, <2>1, <3>1, <3>3 DEF WholeInv, Uncancelled
  <2>4. QED
    BY <2>2, <2>3 DEF WholeInv, Uncancelled
<1>3. CASE Reader
  <2>1. /\ UNCHANGED <<cancelled, feeder, fed, pc, discarding, failure, held>>
        /\ ending = "none" /\ reader # "done"
    BY <1>3 DEF Reader, ReaderAcquire, ReaderNext, scopeVars, failVars, readerVars, WholeInv, Ended
  <2>2. Ended' /\ feeder # "created"
    BY <1>1, <1>3, <2>1 DEF Reader, ReaderAcquire, ReaderNext, readerVars, Ended, Shape, WholeInv, Cancelling
  <2>3. QED
    BY <2>1, <2>2 DEF WholeInv, Cancelling, Uncancelled, FinishedRowsReadable
<1>4. CASE FeederStart
  BY <1>1, <1>4 DEF FeederStart, WholeInv, Cancelling, Ended, Uncancelled, FinishedRowsReadable, failVars
<1>5. CASE FeederGet
  <2>1. /\ UNCHANGED <<reader, read, ending, cancelled, pc, discarding, failure, held>>
        /\ fed' = fed + 1 /\ feeder = "get" /\ feeder' = "backlog"
    BY <1>5 DEF FeederGet, readerVars, failVars
  <2>2. QED
    BY <1>1, <2>1 DEF WholeInv, Cancelling, Ended, Uncancelled, FinishedRowsReadable, Rows
<1>6. CASE FeederEnd
  <2>1. /\ UNCHANGED <<reader, read, ending, cancelled, fed, pc, discarding, held>>
        /\ feeder = "get" /\ feeder' = "joining" /\ fed = read /\ ending # "none"
        /\ failure' = "fail_fast" => failure = "fail_fast"
    BY <1>6 DEF FeederEnd, EndReached, readerVars
  <2>2. QED
    BY <1>1, <2>1 DEF WholeInv, Cancelling, Ended, Uncancelled, FinishedRowsReadable
<1>7. CASE FeederBacklog
  <2>1. /\ UNCHANGED <<reader, read, ending, cancelled, fed, discarding, failure, held>>
        /\ feeder = "backlog" /\ feeder' = (IF cancelled THEN "doomed" ELSE "prepare")
        /\ pc' = [pc EXCEPT ![fed] = "placed"]
    BY <1>7 DEF FeederBacklog, Await, readerVars, failVars
  <2>2. QED
    BY <1>1, <2>1 DEF WholeInv, Cancelling, Ended, Uncancelled, FinishedRowsReadable
<1>8. CASE FeederPrepare
  <2>1. /\ UNCHANGED <<reader, read, ending, cancelled, fed, discarding, failure, held>>
        /\ feeder = "prepare" /\ feeder' = "get"
        /\ pc' = [pc EXCEPT ![fed] = "started"]
    BY <1>8 DEF FeederPrepare, readerVars, failVars
  <2>2. QED
    BY <1>1, <2>1 DEF WholeInv, Cancelling, Ended, Uncancelled, FinishedRowsReadable
<1>9. CASE FeederCancelled
  <2>1. /\ UNCHANGED <<reader, read, ending, cancelled, fed, pc, discarding, failure, held>>
        /\ cancelled /\ feeder' = "joining"
    BY <1>9 DEF FeederCancelled, readerVars, failVars
  <2>2. QED
    BY <1>1, <2>1 DEF WholeInv, Cancelling, Ended, Uncancelled, FinishedRowsReadable
<1>10. CASE ProduceEnds
  <2>1. /\ UNCHANGED <<reader, read, ending, cancelled, fed, pc, discarding, failure>>
        /\ feeder = "joining" /\ feeder' = "closed"
    BY <1>10 DEF ProduceEnds, readerVars
  <2>2. FinishedRowsReadable'
    <3>1. discarding => held = <<>>
      BY DEF FailFastInv
    <3>2. held' = held \/ held' = <<>>
      BY <1>10 DEF ProduceEnds, PublishHeld
    <3>3. CASE discarding \/ failure \in {"fatal", "fail_fast"}
      BY <2>1, <3>1, <3>2, <3>3 DEF FinishedRowsReadable, WholeInv, Cancelling
    <3>4. CASE ~(discarding \/ failure \in {"fatal", "fail_fast"})
      BY <1>10, <3>4 DEF ProduceEnds, PublishHeld, FinishedRowsReadable
    <3>5. QED
      BY <3>3, <3>4
  <2>3. QED
    BY <1>1, <2>1, <2>2 DEF WholeInv, Cancelling, Ended, Uncancelled
<1>11. CASE StopCalled \/ \E e \in {"none", "error", "cancel"} : Leave(e)
  <2>1. /\ RunStop(pc)
        /\ UNCHANGED <<reader, read, ending, fed, discarding, failure, held>>
    BY <1>11 DEF StopCalled, Leave, readerVars, failVars
  <2>2. CASE feeder = "created"
    <3>1. UNCHANGED <<pc, cancelled, feeder>>
      BY <2>1, <2>2 DEF RunStop, scopeVars
    <3>2. QED
      BY <2>1, <3>1 DEF WholeInv, Cancelling, Ended, Uncancelled, FinishedRowsReadable
  <2>3. CASE feeder # "created"
    <3>1. cancelled' /\ feeder' # "created" /\ (feeder' = "closed" <=> feeder = "closed")
      BY <1>1, <2>1, <2>3, StopCancels, RunStopEffect
    <3>2. QED
      BY <2>1, <3>1 DEF WholeInv, Cancelling, Ended, Uncancelled, FinishedRowsReadable
  <2>4. QED
    BY <2>2, <2>3
<1>12. CASE Take \/ TakeWaiting \/ StopReturns \/ ThroughReturns \/ Over \/ UNCHANGED vars
  <2>1. UNCHANGED <<reader, read, ending, cancelled, feeder, fed, pc, discarding, failure, held>>
    BY <1>12 DEF Take, TakeWaiting, StopReturns, ThroughReturns, Over, vars, readerVars,
                 scopeVars, failVars
  <2>2. QED
    BY <2>1 DEF WholeInv, Cancelling, Ended, Uncancelled, FinishedRowsReadable
<1>13. QED
  BY <1>2, <1>3, <1>4, <1>5, <1>6, <1>7, <1>8, <1>9, <1>10, <1>11, <1>12
  DEF Next, Feeder, Caller, RowStep

\* A run that nobody stopped finished every row its input gave, to the end of the input,
\* and whoever stopped it, every row that finished can be read, unless the endpoint was gone.
THEOREM RunsEndWhole == Spec => []RunEndsWhole
<1>1. Init => WholeInv
  BY ConstantsAssumption
  DEF Init, WholeInv, Cancelling, Ended, Uncancelled, FinishedRowsReadable, Rows
<1>2. Shape /\ FailFastInv /\ WholeInv /\ [Next]_vars => WholeInv'
  BY WholeStep
<1>3. Shape /\ WholeInv => RunEndsWhole
  <2>1. SUFFICES ASSUME Shape, WholeInv PROVE CompleteUnlessStopped
    BY DEF WholeInv, RunEndsWhole
  <2>2. SUFFICES ASSUME feeder = "closed", ~cancelled
                 PROVE  /\ ending # "none" /\ (ending = "end" => read = NumRows)
                        /\ \A r \in 1..read : pc[r] = "published"
    BY DEF CompleteUnlessStopped
  <2>3. ending # "none" /\ (ending = "end" => read = NumRows) /\ fed = read
    BY <2>1, <2>2 DEF WholeInv, Ended, Uncancelled
  <2>4. ASSUME NEW r \in 1..read PROVE pc[r] = "published"
    <3>1. r \in Rows /\ r <= fed
      BY <2>1, <2>3, ConstantsAssumption DEF Shape, TypeOK, Rows
    <3>2. pc[r] \in Going /\ pc[r] \notin Active
      BY <2>1, <2>2, <3>1 DEF WholeInv, Uncancelled, Shape
    <3>3. QED
      BY <3>2 DEF Going
  <2>5. QED
    BY <2>3, <2>4
<1>4. Spec => []FailFastInv
  <2>1. Init => FailFastInv
    BY DEF Init, FailFastInv
  <2>2. Shape /\ FailFastInv /\ [Next]_vars => FailFastInv'
    BY FailFastStep
  <2>3. QED
    BY <2>1, <2>2, ShapeInvariant, PTL DEF Spec
<1>5. QED
  BY <1>1, <1>2, <1>3, <1>4, ShapeInvariant, PTL DEF Spec

=============================================================================
