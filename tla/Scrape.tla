-------------------------------- MODULE Scrape --------------------------------
(***************************************************************************)
(* Where the controller's observations come from: probe() and HttpScrape   *)
(* of saturate/signals.py.  The probe names the engine where it can; the   *)
(* scrape reads the gauges, goes blind after MaxFails misses, asks again   *)
(* every RetryEvery reads, and takes vLLM's hit rate from two readings of  *)
(* its counters, series by series.                                         *)
(*                                                                         *)
(* Of the gauges only the counters are kept: queries and hits of the       *)
(* prefix cache, per series (an engine behind the endpoint).               *)
(***************************************************************************)
EXTENDS Naturals, FiniteSets, Functions, FiniteSetsExt

CONSTANTS
  Series,       \* the engines behind one /metrics
  MaxFails,     \* HttpScrape(max_fails=)
  RetryEvery,   \* HttpScrape(retry_every=)
  MaxServed,    \* bound: queries served by one engine between its restarts
  MaxEvents     \* bound: what the engines do

\* What a module that instantiates this one assumes of the constants.
ScrapeConstants ==
  /\ IsFiniteSet(Series) /\ MaxFails \in Nat \ {0} /\ RetryEvery \in Nat \ {0}
  /\ MaxServed \in Nat \ {0} /\ MaxEvents \in Nat

VARIABLES
  kind,                   \* the server: "vllm", "trtllm" or "llamacpp"
  exporter,               \* are its gauges on?
  shown, count,           \* vLLM: the series it shows, and their counters
  events,                 \* spent of the bound
  named, path, off,       \* HttpScrape: engine or dialect, url, _off
  fails, blind, skipped,  \* _fails, _blind, _skipped
  prefix, rate,           \* _prefix; the hit rate of the last read
  since,                  \* history: what the engines did since the last good read
  truth,                  \* history: what they did in the interval `rate` is about
  late, drained           \* history: reads in a row that asked for nothing while there were
                          \* gauges; reads of trtllm-serve's statistics, which clear them

server  == <<kind, exporter, shown, count, events>>
scraper == <<named, path, off, fails, blind, skipped, prefix, rate>>
ghosts  == <<since, truth, late, drained>>
vars    == <<server, scraper, ghosts>>

NoCounts == [q |-> 0, h |-> 0]
None     == [none |-> TRUE]
Zero     == [s \in Series |-> NoCounts]
Earlier  == [s \in Series |-> [q |-> 1, h |-> 0]]     \* served to others before the run
Nothing  == [work |-> Zero, restarted |-> {}, gap |-> FALSE, was |-> Zero]

\* A scraper goes with its client, and the next one is as new.  It compares readings of its
\* own only, so what the engines did before it is one fixed reading.
Fresh ==
  /\ shown' = Series /\ count' = Earlier
  /\ named' = "none" /\ path' = "/metrics" /\ off' = FALSE
  /\ fails' = 0 /\ blind' = FALSE /\ skipped' = 0 /\ prefix' = None /\ rate' = None
  /\ late' = 0 /\ drained' = 0 /\ since' = Nothing /\ truth' = Nothing

Init ==
  /\ kind \in {"vllm", "trtllm", "llamacpp"} /\ exporter \in BOOLEAN
  /\ shown = Series /\ count = Earlier /\ events = 0
  /\ named = "none" /\ path = "/metrics" /\ off = FALSE
  /\ fails = 0 /\ blind = FALSE /\ skipped = 0 /\ prefix = None /\ rate = None
  /\ since = Nothing /\ truth = Nothing /\ late = 0 /\ drained = 0

-----------------------------------------------------------------------------
(* The server.                                                              *)

Event == events < MaxEvents /\ events' = events + 1

\* An engine serves prompts; part of them was in its cache, or not.
Serves(s) ==
  /\ kind = "vllm" /\ Event
  /\ \E q \in 1..(MaxServed - count[s].q) : \E h \in 0..q :
       LET add(c) == [q |-> c.q + q, h |-> c.h + h] IN
       /\ count' = [count EXCEPT ![s] = add(@)]
       /\ since' = [since EXCEPT !.work[s] = add(@)]
  /\ UNCHANGED <<kind, exporter, shown, scraper, truth, late, drained>>

\* One of several engines restarts: its counters begin again.
SeriesRestarts(s) ==
  /\ kind = "vllm" /\ Event /\ count[s] # NoCounts /\ count' = [count EXCEPT ![s] = NoCounts]
  /\ since' = [since EXCEPT !.restarted = @ \cup {s}]
  /\ UNCHANGED <<kind, exporter, shown, scraper, truth, late, drained>>

\* An engine joins the endpoint or leaves it.
SeriesMoves(s) ==
  /\ kind = "vllm" /\ Event /\ shown' = SymDiff(shown, {s}) /\ shown' # {}
  /\ UNCHANGED <<kind, exporter, count, scraper, ghosts>>

\* "An exporter can come up after /health does."  llama.cpp's is a flag of its command line.
ExporterComesUp ==
  /\ ~exporter /\ kind # "llamacpp" /\ exporter' = TRUE
  /\ UNCHANGED <<kind, shown, count, events, scraper, ghosts>>

ServerMoves == ExporterComesUp \/ \E s \in Series : Serves(s) \/ SeriesRestarts(s) \/ SeriesMoves(s)

\* METRICS_PATH: where an engine has its gauges.
MetricsPath(engine) == IF engine = "trtllm" THEN "/prometheus/metrics" ELSE "/metrics"

HasGauges == exporter /\ path = MetricsPath(kind)
HasStats  == kind = "trtllm" /\ path = "/metrics"     \* JSON, cleared by each read

-----------------------------------------------------------------------------
(* probe and identify, before the first request.                            *)

\* What the replies name: vLLM has no page for it, the others are named by theirs when the
\* reply is there in time (trtllm-serve before 1.3 has no such page).
Found(answered) == IF answered /\ kind # "vllm" THEN kind ELSE "none"

\* identify: llama.cpp also says whether its gauges are on.
Identified(engine) ==
  /\ named' = engine /\ path' = MetricsPath(engine)
  /\ off' = (engine = "llamacpp" /\ ~exporter)

Probed(answered) ==
  Identified(Found(answered)) /\ UNCHANGED <<server, fails, blind, skipped, prefix, rate, ghosts>>

-----------------------------------------------------------------------------
(* read.                                                                    *)

SkippedNow == IF blind THEN skipped ELSE 0
SitsOut    == ~off /\ fails >= MaxFails /\ SkippedNow + 1 < RetryEvery
Asks       == ~off /\ ~SitsOut

ReadOff == off /\ blind' = TRUE /\ rate' = None
           /\ UNCHANGED <<server, named, path, off, fails, skipped, prefix, ghosts>>

\* Blind, and not yet time to ask again: no request.
ReadNothing ==
  /\ SitsOut /\ blind' = TRUE /\ skipped' = SkippedNow + 1 /\ rate' = None
  /\ late' = (IF HasGauges THEN late + 1 ELSE 0)
  /\ UNCHANGED <<server, named, path, off, fails, prefix, since, truth, drained>>

Asking == /\ Asks /\ blind' = (blind \/ fails >= MaxFails)
          /\ skipped' = (IF fails >= MaxFails THEN 0 ELSE skipped)
\* No rate across a gap.  (The count of misses stops mattering at MaxFails.)
Miss ==
  /\ fails' = (IF fails < MaxFails THEN fails + 1 ELSE fails) /\ prefix' = None /\ rate' = None
  /\ since' = [since EXCEPT !.gap = TRUE] /\ UNCHANGED truth

\* No reply, or one that is not the engine's gauges.
ReadMiss(lost) ==
  /\ Asking /\ (lost \/ ~(HasGauges \/ (HasStats /\ named = "none")))
  /\ Miss /\ drained' = (IF HasStats /\ ~lost THEN drained + 1 ELSE drained)
  /\ late' = 0
  /\ UNCHANGED <<server, named, path, off>>

\* trtllm-serve's statistics, from a server not yet named: they are never read again.
ReadStats ==
  /\ Asking /\ HasStats /\ named = "none"
  /\ Miss /\ drained' = drained + 1 /\ late' = 0
  /\ named' = "trtllm" /\ path' = MetricsPath("trtllm")
  /\ UNCHANGED <<server, off>>

\* parse_gauges: the counters per series; a reply may lack a counter of one.
Reading(lacks) == [s \in shown |-> IF s \in lacks THEN [q |-> count[s].q] ELSE count[s]]
Whole(c) == DOMAIN c = {"q", "h"}

Sum(w, S, f) == SumFunctionOnSet([s \in S |-> w[s][f]], S)
Rate(queries, hits) ==
  IF queries = 0 THEN None ELSE [queries |-> queries, hits |-> IF hits < queries THEN hits ELSE queries]

HitRateSummed(now) ==     \* mutant: the counters are summed before they are compared
  IF kind # "vllm" \/ prefix = None \/ DOMAIN now # DOMAIN prefix THEN None
  ELSE IF \E s \in DOMAIN now : ~Whole(now[s]) \/ ~Whole(prefix[s]) THEN None
  ELSE LET S == DOMAIN now IN
       IF Sum(now, S, "q") < Sum(prefix, S, "q") \/ Sum(now, S, "h") < Sum(prefix, S, "h") THEN None
       ELSE Rate(Sum(now, S, "q") - Sum(prefix, S, "q"), Sum(now, S, "h") - Sum(prefix, S, "h"))

\* _hit_rate: none on the first reading, or when two readings do not pair up.
HitRate(now) ==
  IF kind # "vllm" \/ prefix = None \/ DOMAIN now # DOMAIN prefix THEN None
  ELSE IF \E s \in DOMAIN now : \/ ~Whole(now[s]) \/ ~Whole(prefix[s])
                                \/ now[s].q < prefix[s].q \/ now[s].h < prefix[s].h THEN None
  ELSE LET S == DOMAIN now IN
       Rate(Sum(now, S, "q") - Sum(prefix, S, "q"), Sum(now, S, "h") - Sum(prefix, S, "h"))

\* The gauges: a rate from the two readings, and a new baseline.
ReadGauges ==
  /\ Asks /\ HasGauges
  /\ fails' = 0 /\ blind' = FALSE /\ named' = kind
  /\ skipped' = (IF fails >= MaxFails THEN 0 ELSE skipped)
  /\ \E lacks \in {{}} \cup {{s} : s \in IF kind = "vllm" THEN shown ELSE {}} :
       \E now \in {Reading(lacks)} :
         /\ rate' = HitRate(now) /\ prefix' = (IF kind = "vllm" THEN now ELSE None)
  /\ truth' = [since EXCEPT !.work = [s \in Series |-> IF s \in shown THEN @[s] ELSE NoCounts]]
  /\ since' = [Nothing EXCEPT !.was = count]
  /\ late' = 0 /\ UNCHANGED <<server, path, off, drained>>

\* read: the server may be unable to answer.
Read(alive) ==
  \/ ReadOff \/ ReadNothing \/ \E lost \in BOOLEAN : ReadMiss(lost)
  \/ alive /\ (ReadStats \/ ReadGauges)

-----------------------------------------------------------------------------
(* Properties.                                                              *)

TypeOK ==
  /\ kind \in {"vllm", "trtllm", "llamacpp"} /\ exporter \in BOOLEAN
  /\ shown \subseteq Series /\ count \in [Series -> [q : 0..MaxServed, h : 0..MaxServed]]
  /\ events \in 0..MaxEvents
  /\ named \in {"none", "vllm", "trtllm", "llamacpp"} /\ off \in BOOLEAN
  /\ fails \in 0..MaxFails /\ blind \in BOOLEAN /\ skipped \in 0..RetryEvery

\* A hit rate is about one interval in which every engine was seen at both ends: no missed
\* read lies in it, no engine's counters went back (one engine's reset is not hidden in a
\* sum), and if no engine restarted unseen it is what the engines did; it is never above 1.
RateHonest ==
  rate # None =>
    /\ ~truth.gap /\ rate.hits <= rate.queries
    /\ \A s \in DOMAIN prefix : prefix[s].q >= truth.was[s].q /\ prefix[s].h >= truth.was[s].h
    /\ truth.restarted = {} =>
         rate = [queries |-> Sum(truth.work, Series, "q"), hits |-> Sum(truth.work, Series, "h")]

\* "One probe every `retry_every` reads keeps the door open", "an exporter can come up after
\* /health does": gauges that are there and answered for are read within RetryEvery reads,
\* however long the run has been blind.
FoundInTime == late < RetryEvery

\* Each read of trtllm-serve's statistics clears them for every other reader: a run takes
\* them at most once, and never when the probe named the server.
StatsReadOnce == drained <= 1

ScrapeSound == TypeOK /\ RateHonest /\ FoundInTime /\ StatsReadOnce
=============================================================================
