-------------------------------- MODULE Ahead --------------------------------
(***************************************************************************)
(* rolling_map of saturate/source.py: calls of fn run ahead of a consumer  *)
(* on a pool of threads and their results come out in the order of the     *)
(* items.  prepare_ahead and bucket_rows' _fetch own the pool.  The items  *)
(* are an iterable of the caller's, which may raise.                       *)
(*                                                                         *)
(* An action is what the consumer's thread does up to the next submit, or  *)
(* one step of a call in the pool.                                         *)
(***************************************************************************)
EXTENDS Naturals, Sequences, FiniteSets

CONSTANTS
  Its,         \* the iterators, each with its consumer and pool
  Items,       \* what they map over
  None,        \* no item
  Window,      \* rolling_map(window=)
  PoolSize,    \* the threads of the executor
  Executor,    \* prepare_ahead's "own" pool, one it is "given", or _fetch's, which is "joined"
  FnRaises,    \* the items fn may raise for
  InputRaises  \* may the iterable raise?

\* What a module that instantiates this one assumes of the constants.
AheadConstants ==
  /\ Window \in Nat \ {0} /\ PoolSize \in Nat \ {0}
  /\ Executor \in {"own", "given", "joined"} /\ InputRaises \in BOOLEAN
  /\ FnRaises \subseteq Items /\ None \notin Items

VARIABLES
  items, left,       \* what the iterator maps over, and what of it is not pulled yet
  pending, current,  \* the calls submitted, in order; the one whose result is due
  call,              \* each item's call
  gen, fate,         \* the generator, and why it ended
  taken              \* the results the consumer got

source == <<items, left>>
vars   == <<source, pending, current, call, gen, fate, taken>>

Uncalled == [i \in Items |-> "none"]

Init ==
  /\ items = [r \in Its |-> <<>>] /\ left = [r \in Its |-> <<>>]
  /\ pending = [r \in Its |-> <<>>] /\ current = [r \in Its |-> None]
  /\ call = [r \in Its |-> Uncalled]
  /\ gen = [r \in Its |-> "off"] /\ fate = [r \in Its |-> "none"]
  /\ taken = [r \in Its |-> <<>>]

In(s) == {s[k] : k \in DOMAIN s}
Calls(r, state) == {i \in Items : call[r][i] = state}

\* The consumer's first next(): the items are known, nothing is pulled.
Open(r, s) ==
  /\ gen[r] = "off" /\ gen' = [gen EXCEPT ![r] = "prime"]
  /\ items' = [items EXCEPT ![r] = s] /\ left' = [left EXCEPT ![r] = s]
  /\ UNCHANGED <<pending, current, call, fate, taken>>

\* One item pulled from the iterable, its call submitted behind those in `queue`.
Pull(r, queue) ==
  /\ left' = [left EXCEPT ![r] = Tail(@)]
  /\ pending' = [pending EXCEPT ![r] = Append(queue, Head(left[r]))]
  /\ call' = [call EXCEPT ![r][Head(left[r])] = "queued"]
  /\ UNCHANGED <<items, taken>>

\* mutant: one call more
PrimedLate(r) == left[r] = <<>> \/ Len(pending[r]) > Window

\* Priming the window.
Primed(r) == left[r] = <<>> \/ Len(pending[r]) >= Window

Prime(r) ==
  /\ gen[r] = "prime" /\ ~Primed(r)
  /\ Pull(r, pending[r]) /\ UNCHANGED <<current, gen, fate>>

Rolling(r) == gen[r] = "yielded" \/ (gen[r] = "prime" /\ Primed(r))

\* mutant: the oldest call that is done goes first
RollAnyDone(r) ==
  /\ Rolling(r) /\ pending[r] # <<>> /\ gen' = [gen EXCEPT ![r] = "waiting"]
  /\ \E k \in DOMAIN pending[r] :
       LET rest == SubSeq(pending[r], 1, k - 1) \o SubSeq(pending[r], k + 1, Len(pending[r])) IN
       /\ k = 1 \/ call[r][pending[r][k]] = "ok"
       /\ current' = [current EXCEPT ![r] = pending[r][k]]
       /\ \/ left[r] # <<>> /\ Pull(r, rest)
          \/ left[r] = <<>> /\ pending' = [pending EXCEPT ![r] = rest]
             /\ UNCHANGED <<source, call, taken>>
  /\ UNCHANGED fate

\* One out, one in: the oldest call is taken out first, so while its result is awaited
\* Window others are pending.
Roll(r) ==
  /\ Rolling(r) /\ pending[r] # <<>> /\ gen' = [gen EXCEPT ![r] = "waiting"]
  /\ current' = [current EXCEPT ![r] = Head(pending[r])]
  /\ \/ left[r] # <<>> /\ Pull(r, Tail(pending[r]))
     \/ left[r] = <<>> /\ pending' = [pending EXCEPT ![r] = Tail(@)]
        /\ UNCHANGED <<source, call, taken>>
  /\ UNCHANGED fate

\* The result is there and goes to the consumer.
Yield(r) ==
  /\ gen[r] = "waiting" /\ call[r][current[r]] = "ok"
  /\ gen' = [gen EXCEPT ![r] = "yielded"]
  /\ taken' = [taken EXCEPT ![r] = Append(@, current[r])]
  /\ current' = [current EXCEPT ![r] = None]
  /\ UNCHANGED <<source, pending, call, fate>>

LeaveQueued(r, due, rest) == UNCHANGED call     \* mutant: the calls queued stay in the pool
\* fut.cancel() of what is pending, and with its own pool prepare_ahead cancels the call
\* taken out too (cancel_futures).  A call that runs is not stopped.
CancelQueued(r, due, rest) ==
  LET gone == In(rest) \cup (IF Executor = "own" THEN {due} ELSE {})
  IN call' = [call EXCEPT ![r] = [i \in Items |->
                IF i \in gone /\ @[i] = "queued" THEN "cancelled" ELSE @[i]]]

Ends(r, why, due, rest) ==
  /\ gen' = [gen EXCEPT ![r] = "closing"] /\ fate' = [fate EXCEPT ![r] = why]
  /\ current' = [current EXCEPT ![r] = due] /\ pending' = [pending EXCEPT ![r] = rest]
  /\ CancelQueued(r, due, rest)
  /\ UNCHANGED <<source, taken>>

Exhausted(r) == Rolling(r) /\ pending[r] = <<>> /\ Ends(r, "end", None, <<>>)

\* fn raised for the item whose turn it is: the consumer gets the exception.
Raise(r) ==
  gen[r] = "waiting" /\ call[r][current[r]] = "error" /\ Ends(r, "raised", current[r], pending[r])

\* The iterable raised when it was pulled: a call that was taken out already is dropped.
InputFailed(r) ==
  /\ InputRaises
  /\ \/ gen[r] = "prime" /\ ~Primed(r) /\ Ends(r, "input", None, pending[r])
     \/ /\ Rolling(r) /\ pending[r] # <<>>
        /\ Ends(r, "input", Head(pending[r]), Tail(pending[r]))

\* The consumer stops early: the generator is closed where it yielded.
Drop(r) == gen[r] = "yielded" /\ Ends(r, "dropped", None, pending[r])

Closed(r) ==
  /\ gen[r] = "closing" /\ (Executor = "joined" => Calls(r, "running") = {})
  /\ gen' = [gen EXCEPT ![r] = "closed"]
  /\ UNCHANGED <<source, pending, current, call, fate, taken>>

\* The pool takes calls in the order of their submission.
CallStarts(r) ==
  /\ Cardinality(Calls(r, "running")) < PoolSize
  /\ \E k \in DOMAIN items[r] :
       /\ call[r][items[r][k]] = "queued"
       /\ \A j \in 1..(k - 1) : call[r][items[r][j]] # "queued"
       /\ call' = [call EXCEPT ![r][items[r][k]] = "running"]
  /\ UNCHANGED <<source, pending, current, gen, fate, taken>>

CallEnds(r, how) ==
  /\ \E i \in Calls(r, "running") :
       /\ how = "error" => i \in FnRaises
       /\ call' = [call EXCEPT ![r][i] = how]
  /\ UNCHANGED <<source, pending, current, gen, fate, taken>>

-----------------------------------------------------------------------------
(* Properties.                                                              *)

States == {"off", "prime", "waiting", "yielded", "closing", "closed"}

TypeOK ==
  /\ items \in [Its -> Seq(Items)] /\ left \in [Its -> Seq(Items)]
  /\ pending \in [Its -> Seq(Items)] /\ current \in [Its -> Items \cup {None}]
  /\ call \in [Its -> [Items -> {"none", "queued", "running", "ok", "error", "cancelled"}]]
  /\ gen \in [Its -> States] /\ taken \in [Its -> Seq(Items)]
  /\ fate \in [Its -> {"none", "end", "raised", "input", "dropped"}]

\* Results come out in the order of the items, none left out or taken twice, whatever
\* the order in which the calls finish, and an exception of fn is the consumer's exactly
\* when all the results before it were: "the first exception from fn is raised".
Due(r) == IF current[r] = None THEN <<>> ELSE <<current[r]>>
OrderKept == \A r \in Its :
  /\ taken[r] \o Due(r) \o pending[r] \o left[r] = items[r]
  /\ \A i \in In(taken[r]) : call[r][i] = "ok"
  /\ fate[r] = "raised" => call[r][items[r][Len(taken[r]) + 1]] = "error"
  /\ fate[r] = "end" => taken[r] = items[r]

\* The look-ahead is bounded, so a slow consumer never accumulates results: besides the
\* results taken there are the one that is due and Window more.
AheadBounded == \A r \in Its :
  Cardinality({i \in Items : call[r][i] # "none"}) <= Len(taken[r]) + Window + 1

\* However the iterator ended, no call of it is left waiting in its pool, and where the
\* pool is joined none is running when the consumer goes on.
NothingLeftBehind == \A r \in Its :
  /\ gen[r] \in {"closing", "closed"} /\ Executor # "given" => Calls(r, "queued") = {}
  /\ gen[r] = "closed" /\ Executor = "joined" => Calls(r, "running") = {}
=============================================================================
