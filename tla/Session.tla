-------------------------------- MODULE Session --------------------------------
(***************************************************************************)
(* A job with its own server: `with Engine(...)` around pump() with a      *)
(* sink.  It composes the server (Engine), the signals (Scrape),           *)
(* AdaptiveClient with the task of its tick loop (core.py), and what       *)
(* pump() writes beside the rows: the trajectory in periodic writes,       *)
(* stats, and the completion marker (__init__.py, sink.py).                *)
(*                                                                         *)
(* The rows are elsewhere (Pipeline, Writer): here the body of the client  *)
(* ends, with an error or without.  Ctrl-C cancels what the run awaits.    *)
(***************************************************************************)
EXTENDS Naturals, Sequences, FiniteSets

CONSTANTS
  Consecutive, MaxPolls, Sweeps, MaxMishaps,               \* of Engine
  Series, MaxFails, RetryEvery, MaxServed, MaxEvents,      \* of Scrape
  Every,        \* telemetry_every_ticks
  MaxTicks,     \* bound: ticks of a run
  MaxRuns,      \* bound: pump() calls
  MaxFaults,    \* bound: loop crashes and writes that fail
  MaxTroubles   \* bound: the three of them (mishaps, events, faults) in all

VARIABLES eng, leader, child, streak, polls, answers, swept, booted, mishaps, cut
VARIABLES kind, exporter, shown, count, events, named, path, off, fails, blind, skipped,
          prefix, rate, since, truth, late, drained
VARIABLES
  at,               \* where the run is
  http, loop,       \* the HTTP client; the task of the tick loop
  body, held,       \* how the client's body ended; is a cancel held in __aexit__?
  outcome,          \* what the run returns or raises
  ticks, nextAt,    \* len(lines), next_at
  writers,          \* the threads that write telemetry: their snapshot, and file once open
  files, name,      \* the telemetry files: [n, whole]; _telemetry_names, 0 for none
  completed,        \* a record for each marker written
  runs, faults      \* spent of the bounds

engineVars == <<eng, leader, child, streak, polls, answers, swept, booted, mishaps, cut>>
scrapeVars == <<kind, exporter, shown, count, events, named, path, off, fails, blind, skipped,
                prefix, rate, since, truth, late, drained>>
client     == <<http, loop, body, held>>
telemetry  == <<ticks, nextAt, writers, files, name>>
ended      == <<outcome, completed>>
vars       == <<engineVars, scrapeVars, at, client, telemetry, ended, runs, faults>>

E == INSTANCE Engine
S == INSTANCE Scrape

ASSUME SessionAssumption ==
  /\ E!EngineConstants /\ S!ScrapeConstants
  /\ Every \in Nat \ {0} /\ MaxTicks \in Nat /\ MaxRuns \in Nat /\ MaxFaults \in Nat
  /\ MaxTroubles \in Nat

Init ==
  /\ E!Init /\ S!Init
  /\ at = "start" /\ http = "closed" /\ loop = "none" /\ body = "none" /\ held = FALSE
  /\ outcome = "none" /\ ticks = 0 /\ nextAt = Every /\ writers = {} /\ files = <<>> /\ name = 0
  /\ completed = {} /\ runs = 0 /\ faults = 0

\* Room for one more trouble.
Room == mishaps + events + faults < MaxTroubles
Interrupt ==
  /\ Room /\ mishaps < MaxMishaps /\ mishaps' = mishaps + 1
  /\ UNCHANGED <<eng, leader, child, streak, polls, answers, swept, booted, cut>>
Fault == Room /\ faults < MaxFaults /\ faults' = faults + 1

-----------------------------------------------------------------------------
(* The server's side.                                                       *)

EngineBoots == E!Boots /\ UNCHANGED <<scrapeVars, at, client, telemetry, ended, runs, faults>>
EngineExits == E!Exits /\ UNCHANGED <<scrapeVars, at, client, telemetry, ended, runs, faults>>
EngineMoves ==
  /\ E!Server \/ E!BootInterrupted \/ E!ExitInterrupted
  /\ mishaps' = mishaps \/ Room
  /\ UNCHANGED <<scrapeVars, at, client, telemetry, ended, runs, faults>>
GaugesMove ==
  /\ at = "body" /\ S!ServerMoves
  /\ events' = events \/ Room
  /\ UNCHANGED <<engineVars, at, client, telemetry, ended, runs, faults>>

\* The body of `with Engine` is over.
EngineLeft ==
  /\ at = "start" /\ runs > 0 /\ E!Leave
  /\ UNCHANGED <<scrapeVars, at, client, telemetry, ended, runs, faults>>

-----------------------------------------------------------------------------
(* The client: __aenter__ and __aexit__.                                    *)

\* pump(): the sink begins a run, and the client is built.
Starts ==
  /\ at = "start" /\ eng = "ready" /\ runs < MaxRuns /\ runs' = runs + 1
  /\ at' = "probe" /\ http' = "open" /\ loop' = "none" /\ body' = "none" /\ held' = FALSE
  /\ outcome' = "none" /\ ticks' = 0 /\ nextAt' = Every /\ name' = 0
  /\ UNCHANGED <<engineVars, scrapeVars, writers, files, completed, faults>>

Begins ==
  /\ at = "probe" /\ at' = "body" /\ loop' = "run"
  /\ \E answered \in BOOLEAN : S!Probed(answered /\ E!Serving)
  /\ UNCHANGED <<engineVars, http, body, held, telemetry, ended, runs, faults>>

\* Cancelled before the run began: nothing else will close the client.
BeginCancelled ==
  /\ at = "probe" /\ Interrupt /\ at' = "teardown" /\ http' = "closed" /\ outcome' = "cancel"
  /\ UNCHANGED <<scrapeVars, loop, body, held, telemetry, completed, runs, faults>>

\* The tick loop raises: the controller, or on_tick.
LoopFails ==
  /\ at = "body" /\ loop = "run" /\ Fault /\ loop' = "failed"
  /\ UNCHANGED <<engineVars, scrapeVars, at, http, body, held, telemetry, ended, runs>>

\* The body is over, and the loop is cancelled.
BodyEnds(how) ==
  /\ at = "body" /\ at' = "exit" /\ body' = how
  /\ loop' = IF loop = "run" THEN "stopping" ELSE loop
  /\ S!Fresh /\ UNCHANGED <<kind, exporter, events, http, held, telemetry, ended, runs, faults>>

Finishes == (BodyEnds("ok") \/ BodyEnds("error")) /\ UNCHANGED engineVars
Cancelled == BodyEnds("cancel") /\ Interrupt

LoopStops ==
  /\ loop = "stopping" /\ loop' = "stopped"
  /\ UNCHANGED <<engineVars, scrapeVars, at, http, body, held, telemetry, ended, runs, faults>>

ExitGivesUp ==          \* mutant: the first cancel stops the waiting
  /\ at = "exit" /\ loop = "stopping" /\ Interrupt
  /\ at' = "close" /\ outcome' = "cancel"
  /\ UNCHANGED <<scrapeVars, client, telemetry, completed, runs, faults>>

\* _wait_for_loop: a cancel is held until the loop has ended, a second one is not.
ExitCancelled ==
  /\ at = "exit" /\ loop = "stopping" /\ Interrupt
  /\ \/ ~held /\ held' = TRUE /\ UNCHANGED <<at, outcome>>
     \/ held /\ at' = "close" /\ outcome' = "cancel" /\ UNCHANGED held
  /\ UNCHANGED <<scrapeVars, http, loop, body, telemetry, completed, runs, faults>>

\* What __aexit__ raises: the held cancel, or a crash of the loop unless the body raised.
ExitDone ==
  /\ at = "exit" /\ loop \in {"stopped", "failed"} /\ at' = "close"
  /\ outcome' = IF held THEN "cancel" ELSE IF body = "ok" /\ loop = "failed" THEN "loop" ELSE body
  /\ UNCHANGED <<engineVars, scrapeVars, client, telemetry, completed, runs, faults>>

\* The client is closed, whatever the exit raised.
Closes ==
  /\ at = "close" /\ http' = "closed" /\ at' = IF outcome = "ok" THEN "await" ELSE "teardown"
  /\ UNCHANGED <<engineVars, scrapeVars, loop, body, held, telemetry, ended, runs, faults>>

-----------------------------------------------------------------------------
(* Telemetry.                                                               *)

Spawned(n) == [n |-> n, file |-> 0]

SpawnAlways ==          \* mutant: not asked whether the last one has ended
  /\ ticks' = ticks + 1
  /\ IF ticks' >= nextAt
     THEN writers' = writers \cup {Spawned(ticks')} /\ nextAt' = ticks' + Every
     ELSE UNCHANGED <<writers, nextAt>>
\* on_tick: a write of the trajectory so far, unless one is still going on; the next one is
\* due after a quarter of the run's length.
OnTick ==
  /\ ticks' = ticks + 1
  /\ IF ticks' >= nextAt /\ writers = {}
     THEN /\ writers' = {Spawned(ticks')}
          /\ nextAt' = ticks' + (IF ticks' \div 4 > Every THEN ticks' \div 4 ELSE Every)
     ELSE UNCHANGED <<writers, nextAt>>

\* A tick: the gauges are read, and the record goes to on_tick.
Tick ==
  /\ at = "body" /\ loop = "run" /\ ticks < MaxTicks
  /\ S!Read(E!Serving) /\ OnTick
  /\ UNCHANGED <<engineVars, at, client, files, name, ended, runs, faults>>

\* write_telemetry of the sink, on a thread: one file per run, opened anew each time.
WriterOpens(w) ==
  /\ w \in writers /\ w.file = 0
  /\ \E f \in {IF name = 0 THEN Len(files) + 1 ELSE name} :
       /\ name' = f /\ writers' = (writers \ {w}) \cup {[w EXCEPT !.file = f]}
       /\ files' = IF f > Len(files) THEN Append(files, [n |-> 0, whole |-> FALSE])
                   ELSE [files EXCEPT ![f] = [n |-> 0, whole |-> FALSE]]
  /\ UNCHANGED <<engineVars, scrapeVars, at, client, ticks, nextAt, ended, runs, faults>>

WriterEnds(w) ==
  /\ w \in writers /\ w.file # 0 /\ writers' = writers \ {w}
  /\ files' = [files EXCEPT ![w.file] = [n |-> w.n, whole |-> TRUE]]
  /\ UNCHANGED <<engineVars, scrapeVars, at, client, ticks, nextAt, name, ended, runs, faults>>

\* A write that fails leaves what it had written; the run goes on.
WriterFails(w) ==
  /\ w \in writers /\ w.file # 0 /\ Fault /\ writers' = writers \ {w}
  /\ UNCHANGED <<engineVars, scrapeVars, at, client, ticks, nextAt, files, name, ended, runs>>

Writes == \E w \in writers : WriterOpens(w) \/ WriterEnds(w)

-----------------------------------------------------------------------------
(* The end of pump().                                                       *)
\* The periodic write is awaited, and the complete trajectory written.
Final ==
  /\ at = "await" /\ writers = {} /\ at' = "final"
  /\ writers' = IF ticks > 0 THEN {Spawned(ticks)} ELSE {}
  /\ UNCHANGED <<engineVars, scrapeVars, client, ticks, nextAt, files, name, ended, runs, faults>>

\* The write has ended, one way or the other, stats are written or not, then the marker, which
\* may fail: that one is raised.
Marks ==
  /\ at = "final" /\ writers = {} /\ at' = "teardown"
  /\ \/ /\ outcome' = "ok" /\ name' = 0 /\ UNCHANGED faults
        /\ completed' = completed \cup {[run |-> runs, file |-> name, ticks |-> ticks, loop |-> loop]}
     \/ outcome' = "error" /\ Fault /\ UNCHANGED <<name, completed>>
  /\ UNCHANGED <<engineVars, scrapeVars, client, ticks, nextAt, writers, files, runs>>

EndCancelled ==
  /\ at \in {"await", "final"} /\ Interrupt /\ at' = "teardown" /\ outcome' = "cancel"
  /\ UNCHANGED <<scrapeVars, client, telemetry, completed, runs, faults>>

\* asyncio.run ends the tasks that are left and waits for the threads.
Teardown ==
  /\ at = "teardown" /\ writers = {} /\ at' = "start"
  /\ loop' = "none" /\ body' = "none" /\ held' = FALSE
  /\ UNCHANGED <<engineVars, scrapeVars, http, telemetry, ended, runs, faults>>

Run ==
  \/ Starts \/ Begins \/ Finishes \/ LoopStops \/ ExitDone \/ Closes \/ Final \/ Marks \/ Teardown
Interrupts == BeginCancelled \/ Cancelled \/ ExitCancelled \/ EndCancelled

Over == (eng = "left" \/ booted = "port") /\ UNCHANGED vars

Next ==
  \/ EngineBoots \/ EngineExits \/ EngineMoves \/ EngineLeft \/ GaugesMove
  \/ Run \/ Interrupts \/ LoopFails \/ Tick \/ Writes \/ (\E w \in writers : WriterFails(w)) \/ Over

\* The main thread goes on, and so do the threads that write; the body of a client ends
\* (Pipeline's and Writer's properties), and a job leaves its engine after its last run.
Fairness ==
  /\ WF_vars(EngineBoots) /\ WF_vars(EngineExits) /\ WF_vars(EngineLeft)
  /\ WF_vars(Run) /\ WF_vars(Writes)

Spec == Init /\ [][Next]_vars /\ Fairness

-----------------------------------------------------------------------------
(* Properties.                                                              *)

EngineSound == E!TypeOK /\ E!ReadyIsReady /\ E!NoOrphans
ScrapeSound == S!ScrapeSound

TypeOK ==
  /\ at \in {"start", "probe", "body", "exit", "close", "await", "final", "teardown"}
  /\ http \in {"open", "closed"} /\ loop \in {"none", "run", "stopping", "stopped", "failed"}
  /\ body \in {"none", "ok", "error", "cancel"} /\ held \in BOOLEAN
  /\ outcome \in {"none", "ok", "error", "cancel", "loop"}
  /\ ticks \in 0..MaxTicks /\ runs \in 0..MaxRuns /\ faults \in 0..MaxFaults

\* "Never two writers on one file", "a crashed run's partial trajectory is kept": no two
\* threads write telemetry at once, and the file of a run that has its marker is the whole
\* trajectory for ever after, unless the last write failed.
TelemetryWhole ==
  /\ Cardinality(writers) <= 1
  /\ \A c \in completed : c.ticks > 0 =>
       /\ files[c.file].whole => files[c.file].n = c.ticks
       /\ ~files[c.file].whole => faults > 0

\* However the run ends - a body that raised, a crashed tick loop, cancels at any point - the
\* HTTP client is closed and the loop has ended, unless a second cancel cut the waiting short;
\* a crash of the loop never dies silently, and never hides what the body raised.
After == {"await", "final", "teardown"}
ClientClosed ==
  /\ TypeOK
  /\ at \in After \cup {"start"} => http = "closed"
  /\ at \in After \cup {"close"} => loop # "run" /\ (loop = "stopping" => held /\ outcome = "cancel")
  /\ loop = "failed" /\ at \in After \cup {"close"} => outcome # "ok"
  /\ body = "error" /\ at \in After \cup {"close"} => outcome \in {"error", "cancel"}
  /\ \A c \in completed : c.loop = "stopped"

\* A job ends: whatever dies, hangs on to its group or is cancelled, and however often.
SessionEnds == <>(eng = "left" \/ booted = "port")
=============================================================================
