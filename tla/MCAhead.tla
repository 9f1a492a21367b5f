------------------------------- MODULE MCAhead -------------------------------
(* Model checking of Ahead alone: one iterator over a caller's own pool.     *)
EXTENDS Ahead, TLC

MCItems == <<1, 2, 3, 4>>

Next == \E r \in Its :
  \/ Open(r, MCItems) \/ Prime(r) \/ Roll(r) \/ Yield(r) \/ Raise(r) \/ InputFailed(r)
  \/ Exhausted(r) \/ Drop(r) \/ Closed(r)
  \/ CallStarts(r) \/ CallEnds(r, "ok") \/ CallEnds(r, "error")

Spec == Init /\ [][Next]_vars

\* "At most `workers` calls in flight" (prepare_ahead), "never more than `window` in flight"
\* (rolling_map).
AtMostWindowInFlight == \A r \in Its : Cardinality(Calls(r, "running")) <= Window
=============================================================================
