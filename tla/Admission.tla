------------------------------ MODULE Admission ------------------------------
(***************************************************************************)
(* AdaptiveClient.post of saturate/core.py: a row passes the circuit       *)
(* breaker's gate, waits for a slot in the admission window, and makes its *)
(* attempts (call_endpoint of transport.py), passing the gate again before *)
(* each one.  The controller loop resizes the window meanwhile.            *)
(*                                                                         *)
(* An action is what a task does between two awaits; the breaker and the   *)
(* window are only touched by the event loop.  Breaker._closed is set      *)
(* exactly when `open` is false, so it is not a variable of its own.       *)
(***************************************************************************)
EXTENDS Naturals, Sequences, FiniteSets

CONSTANTS
  Rows,        \* the calls of post(), one per row
  Multipart,   \* the rows whose request carries files: sent once
  Threshold,   \* Breaker(threshold=)
  MaxAttempts, \* range(5) in call_endpoint
  Probes,      \* probes that fit in the breaker's max_open_s
  MaxLimit     \* the largest window the controller asks for

ASSUME AdmissionAssumption ==
  /\ IsFiniteSet(Rows) /\ Multipart \subseteq Rows
  /\ Threshold \in Nat \ {0} /\ MaxAttempts \in Nat \ {0}
  /\ Probes \in Nat \ {0} /\ MaxLimit \in Nat \ {0}

VARIABLES
  open, dead, consecutive, probes,  \* Breaker; the probes left to the opener
  limit, holders, waiters,          \* the window, its slots, its queue
  controller, counts, decided,      \* the loop, and the pressure it is told of
  pc, attempt, pressured            \* the rows

breakerVars == <<open, dead, consecutive, probes>>
slotVars    == <<holders, waiters>>
loopVars    == <<controller, counts, decided>>
ladderVars  == <<attempt, pressured>>
vars == <<breakerVars, limit, slotVars, loopVars, pc, ladderVars>>

Opening  == {"probing", "pausing"}  \* the row that opened the circuit probes
Finished == {"ok", "failed", "raised", "cancelled"}
Awaiting == {"waiting", "woken", "queued", "granted", "sending", "backoff"}
              \cup Opening
States   == Awaiting \cup Finished \cup {"new"}

Init ==
  /\ open = FALSE /\ dead = FALSE /\ consecutive = 0 /\ probes = 0
  /\ limit \in 1..MaxLimit /\ holders = {} /\ waiters = <<>>
  /\ controller = "running" /\ counts = 0 /\ decided = 0
  /\ pc = [r \in Rows |-> "new"]
  /\ attempt = [r \in Rows |-> 1] /\ pressured = [r \in Rows |-> FALSE]

-----------------------------------------------------------------------------
(* What the reply to an attempt means (classify, unreadable_body and        *)
(* transport_failure): "poison" is a 3xx or 4xx, "paced" a 429 with a       *)
(* Retry-After, "busy" one without, "down" a 5xx or no reply, "unreadable"  *)
(* a 2xx without a JSON object.                                             *)

Replies          == {"result", "poison", "paced", "busy", "down", "unreadable"}
Retried(a)       == a \in {"paced", "busy", "down", "unreadable"}
Pressure(a)      == a \in {"busy", "down"}
CountsFailure(a) == a \in {"down", "unreadable"}

-----------------------------------------------------------------------------
(* The window (anyio's CapacityLimiter): slots that come free or are added  *)
(* go to the head of the queue at once.  h, q, n and p are the holders, the *)
(* queue, the limit and the rows' states as the step leaves them.           *)

\* The queue without r, which is in it once at most.
Without(q, r) ==
  LET at == {i \in DOMAIN q : q[i] = r} IN
  IF at = {} THEN q
  ELSE [i \in 1..(Len(q) - 1) |-> IF \E j \in at : j <= i THEN q[i + 1] ELSE q[i]]

Grant(h, q, n, p) ==
  LET free  == IF n > Cardinality(h) THEN n - Cardinality(h) ELSE 0
      k     == IF free < Len(q) THEN free ELSE Len(q)
      heads == {q[i] : i \in 1..k}
  IN /\ holders' = h \cup heads
     /\ waiters' = SubSeq(q, k + 1, Len(q))
     /\ pc' = [x \in Rows |-> IF x \in heads THEN "granted" ELSE p[x]]

\* mutant: a cancelled row keeps its slot
LeaveKeepingSlot(r, how, p) ==
  IF how = "cancelled"
    THEN Grant(holders, Without(waiters, r), limit, [p EXCEPT ![r] = how])
    ELSE Grant(holders \ {r}, waiters, limit, [p EXCEPT ![r] = how])

\* The row's post() ends: it gives its slot back, or leaves the queue.
Leave(r, how, p) ==
  Grant(holders \ {r}, Without(waiters, r), limit,
        [p EXCEPT ![r] = how])
LoopRuns      == controller = "running"    \* _Slot._check

\* Take a free slot, or queue for one.
Acquire(r, p) ==
  IF ~LoopRuns THEN pc' = [p EXCEPT ![r] = "raised"] /\ UNCHANGED slotVars
  ELSE IF waiters = <<>> /\ Cardinality(holders) < limit
    THEN /\ holders' = holders \cup {r} /\ UNCHANGED waiters
         /\ pc' = [p EXCEPT ![r] = "sending"]
    ELSE /\ waiters' = Append(waiters, r) /\ UNCHANGED holders
         /\ pc' = [p EXCEPT ![r] = "queued"]

-----------------------------------------------------------------------------
(* Breaker.gate.                                                            *)

\* A row with a slot goes on to its attempt.  One without goes to the window; if
\* a slot is free it passes call_endpoint's gate in the same step.
Pass(r, p) ==
  IF r \in holders THEN pc' = [p EXCEPT ![r] = "sending"] /\ UNCHANGED slotVars
                   ELSE Acquire(r, p)

WakesNobody(p) == p                        \* mutant: `finally` sets no event
Woken(p) == [x \in Rows |-> IF p[x] = "waiting" THEN "woken" ELSE p[x]]

\* One turn of the gate's loop; the last case makes the row the opener.
Gate(r) ==
  \/ dead /\ Leave(r, "raised", pc) /\ UNCHANGED breakerVars
  \/ /\ ~dead /\ open
     /\ pc' = [pc EXCEPT ![r] = "waiting"] /\ UNCHANGED <<breakerVars, slotVars>>
  \/ /\ ~dead /\ ~open /\ consecutive < Threshold
     /\ Pass(r, pc) /\ UNCHANGED breakerVars
  \/ /\ ~dead /\ ~open /\ consecutive >= Threshold
     /\ open' = TRUE /\ probes' = Probes
     /\ pc' = [pc EXCEPT ![r] = "probing"] /\ UNCHANGED <<dead, consecutive, slotVars>>

\* A probe was answered by the server: the circuit closes and the opener goes on.
ProbeAnswered(r) ==
  /\ pc[r] = "probing"
  /\ consecutive' = 0 /\ open' = FALSE /\ Pass(r, Woken(pc))
  /\ UNCHANGED <<dead, probes, limit, loopVars, ladderVars>>

ProbeFailed(r) ==
  /\ pc[r] = "probing" /\ pc' = [pc EXCEPT ![r] = "pausing"]
  /\ UNCHANGED <<breakerVars, limit, slotVars, loopVars, ladderVars>>

ProbeAgain(r) ==
  /\ pc[r] = "pausing" /\ probes > 1
  /\ probes' = probes - 1 /\ pc' = [pc EXCEPT ![r] = "probing"]
  /\ UNCHANGED <<open, dead, consecutive, limit, slotVars, loopVars, ladderVars>>

\* max_open_s is over, after Probes probes at the latest.
BreakerGivesUp(r) ==
  /\ pc[r] = "pausing"
  /\ dead' = TRUE /\ open' = FALSE /\ Leave(r, "raised", Woken(pc))
  /\ UNCHANGED <<consecutive, probes, limit, loopVars, ladderVars>>

-----------------------------------------------------------------------------
(* post() and call_endpoint().                                              *)

\* Its first step, or the circuit closed while it waited.
Post(r) ==
  /\ pc[r] \in {"new", "woken"} /\ Gate(r)
  /\ UNCHANGED <<limit, loopVars, ladderVars>>

GrantedSends(r) ==                         \* mutant: no gate once the slot is there
  /\ pc[r] = "granted" /\ LoopRuns /\ pc' = [pc EXCEPT ![r] = "sending"]
  /\ UNCHANGED <<breakerVars, slotVars, limit, loopVars, ladderVars>>

\* The queue gave the row a slot.  The loop may have died meanwhile, and the
\* circuit may have opened.
Granted(r) ==
  /\ pc[r] = "granted"
  /\ \/ LoopRuns /\ Gate(r)
     \/ ~LoopRuns /\ Leave(r, "raised", pc) /\ UNCHANGED breakerVars
  /\ UNCHANGED <<limit, loopVars, ladderVars>>

Succeeded(r) ==
  /\ pc[r] = "sending"
  /\ consecutive' = 0 /\ Leave(r, "ok", pc)
  /\ UNCHANGED <<open, dead, probes, limit, loopVars, ladderVars>>

ReportsEach(r, a) == Pressure(a)           \* mutant: pressure on every attempt
Reports(r, a)     == Pressure(a) /\ ~pressured[r]

TriesAgain(r, a) == Retried(a) /\ attempt[r] < MaxAttempts /\ r \notin Multipart

AttemptFailed(r, a) ==
  /\ pc[r] = "sending" /\ a # "result"
  /\ counts' = counts + (IF Reports(r, a) THEN 1 ELSE 0)
  /\ pressured' = [pressured EXCEPT ![r] = @ \/ Pressure(a)]
  /\ consecutive' = consecutive + (IF CountsFailure(a) THEN 1 ELSE 0)
  /\ IF TriesAgain(r, a) THEN pc' = [pc EXCEPT ![r] = "backoff"] /\ UNCHANGED slotVars
                         ELSE Leave(r, "failed", pc)
  /\ UNCHANGED <<open, dead, probes, limit, controller, decided, attempt>>

\* The backoff is over: the row's budget too, or the next attempt comes.
BudgetOver(r) ==
  /\ pc[r] = "backoff" /\ Leave(r, "failed", pc)
  /\ UNCHANGED <<breakerVars, limit, loopVars, ladderVars>>

Retry(r) ==
  /\ pc[r] = "backoff" /\ attempt' = [attempt EXCEPT ![r] = @ + 1] /\ Gate(r)
  /\ UNCHANGED <<limit, loopVars, pressured>>

\* mutant: an opener that is cancelled leaves the circuit open behind it
CancelledStrands(r) ==
  /\ pc[r] \in Awaiting /\ Leave(r, "cancelled", pc)
  /\ UNCHANGED <<breakerVars, limit, loopVars, ladderVars>>

\* The row's task is cancelled at its await; an opener closes the circuit behind
\* it, and the failures it was opened for still count.
Cancelled(r) ==
  /\ pc[r] \in Awaiting
  /\ IF pc[r] \in Opening
       THEN open' = FALSE /\ Leave(r, "cancelled", Woken(pc))
       ELSE Leave(r, "cancelled", pc) /\ UNCHANGED open
  /\ UNCHANGED <<dead, consecutive, probes, limit, loopVars, ladderVars>>

Goes(r) ==
  \/ Post(r) \/ Granted(r) \/ Succeeded(r) \/ \E a \in Replies : AttemptFailed(r, a)
  \/ BudgetOver(r) \/ Retry(r)
  \/ ProbeAnswered(r) \/ ProbeFailed(r) \/ ProbeAgain(r) \/ BreakerGivesUp(r)

-----------------------------------------------------------------------------
(* The controller loop (AdaptiveLimiter._tick).                             *)


\* One decision: it takes the reports since the last one and resizes the window.
Tick ==
  /\ controller = "running"
  /\ decided' = decided + counts /\ counts' = 0
  /\ \E n \in 1..MaxLimit : limit' = n /\ Grant(holders, waiters, n, pc)
  /\ UNCHANGED <<breakerVars, controller, ladderVars>>

\* The loop crashed, or was cancelled by someone else.
LoopEnds ==
  /\ controller = "running" /\ controller' = "ended"
  /\ UNCHANGED <<breakerVars, limit, slotVars, counts, decided, pc, ladderVars>>

Over == (\A r \in Rows : pc[r] \in Finished) /\ UNCHANGED vars

Next == \/ \E r \in Rows : Goes(r) \/ Cancelled(r)
        \/ Tick \/ LoopEnds \/ Over

\* The loop runs every task that can run; every probe, attempt and backoff ends
\* (each has a timeout).  Nothing makes a cancel, a tick or a good reply happen.
Fairness == \A r \in Rows : WF_vars(Goes(r))

Spec == Init /\ [][Next]_vars /\ Fairness

-----------------------------------------------------------------------------
(* Properties.                                                              *)

TypeOK ==
  /\ open \in BOOLEAN /\ dead \in BOOLEAN /\ consecutive \in Nat /\ probes \in 0..Probes
  /\ limit \in 1..MaxLimit /\ holders \in SUBSET Rows /\ waiters \in Seq(Rows)
  /\ controller \in {"running", "ended"} /\ counts \in Nat /\ decided \in Nat
  /\ pc \in [Rows -> States] /\ attempt \in [Rows -> 1..MaxAttempts]
  /\ pressured \in [Rows -> BOOLEAN]

\* "One caller probes; the rest wait": the circuit is open exactly while one row
\* probes, so a row that waits for it to close always has someone to wake it, also
\* when the one that opened it is cancelled; one that gave up never opens again.
OneOpener ==
  /\ dead => ~open
  /\ \A r, s \in Rows : pc[r] \in Opening /\ pc[s] \in Opening => r = s
  /\ open <=> \E r \in Rows : pc[r] \in Opening
  /\ \A r \in Rows : pc[r] = "waiting" => open

\* Slots: a row in its attempts holds one, a finished, new or queued one does not,
\* whichever way it ended; the queue is the queued rows, each once; and no slot is
\* free while a row waits for one.
SlotAccounting ==
  /\ \A r \in Rows : pc[r] \in {"granted", "sending", "backoff"} => r \in holders
  /\ \A r \in holders : pc[r] \notin Finished \cup {"new", "queued"}
  /\ \A r \in Rows : pc[r] = "queued" <=> \E i \in DOMAIN waiters : waiters[i] = r
  /\ \A i, j \in DOMAIN waiters : i # j => waiters[i] # waiters[j]
  /\ waiters # <<>> => Cardinality(holders) >= limit

\* The same, and no row makes more attempts than it may.
SlotsSound == TypeOK /\ SlotAccounting

\* The window: a slot is only given out below the limit, also after it shrank below
\* what is in flight.
WindowRespected == [][holders' \subseteq holders \/ Cardinality(holders') <= limit']_vars

\* "An open breaker pauses the whole pump, not just new rows": no attempt starts
\* while the circuit is open, at the threshold, or given up; rows that passed the
\* gate before it opened and got their slot later included.
PausedWhileOpen ==
  [][\A r \in Rows : pc[r] # "sending" /\ pc'[r] = "sending" =>
        ~open' /\ ~dead' /\ consecutive' < Threshold]_vars

\* The rows whose slot was confirmed (AdaptiveLimiter._admitted): once the
\* controller loop has ended no row joins them, queued ones included.
Admitted == {r \in holders : pc[r] # "granted"}
NoAdmissionWithoutLoop == [][controller = "ended" => Admitted' \subseteq Admitted]_vars

\* What no step may start, whatever a row saw before it queued: an attempt while the circuit
\* is open, a row when the loop is gone, a slot above the limit of the moment.
AdmissionGuarded == PausedWhileOpen /\ NoAdmissionWithoutLoop /\ WindowRespected

\* Every row under pressure reaches the controller's decisions exactly once, over
\* all its attempts and whenever the ticks fall.
PressureCountedOnce ==
  counts + decided = Cardinality({r \in Rows : pressured[r]})

\* Every post() ends: no row waits for ever for the circuit or for a slot, whatever
\* the server answers and whoever is cancelled, also when the controller is gone.
EveryPostEnds == <>(\A r \in Rows : pc[r] \in Finished)
=============================================================================
