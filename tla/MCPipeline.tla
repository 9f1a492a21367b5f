----------------------------- MODULE MCPipeline -----------------------------
(* Model checking of Pipeline: the claims of its documentation that the code *)
(* does not keep, each checked by a run that finds the counterexample.       *)
EXTENDS Pipeline

\* "Leaving the `async with` early stops the run" (through's docstring).  It does
\* not when the body leaves before its first await: _produce has not run, so
\* stop() finds neither reader nor scope, and through() then feeds the whole input
\* with nobody to take the rows.
LeavingStopsTheRun ==
  EnvironmentFairness => ((caller = "left") ~> (caller = "returned"))

\* "Finished rows (step 6) are always written" and "the endpoint is gone |
\* cancelled | written" (docs/pipeline.md).
FinishedRowsAlwaysReadable ==
  feeder = "closed" /\ ~discarding => held = <<>>

=============================================================================
