------------------------------ MODULE Controller ------------------------------
(***************************************************************************)
(* The window controller Auto of saturate/controller.py: each tick it gets *)
(* an observation, updates its state (_observe) and takes the first rule   *)
(* of RULES that applies, which sets the window.                           *)
(*                                                                         *)
(* Time is in ticks.  Throughput is a level, in factors of `improve`, and  *)
(* 0 is nothing delivered.  The samples of an evidence window are          *)
(* abstracted to how many there are, up to two, and whether they hold a    *)
(* completion: if so, they may hold `limit` of them, at any level.  Engine *)
(* gauges are abstracted to what the conditions make of them, and chosen   *)
(* where a rule asks.                                                      *)
(***************************************************************************)
EXTENDS Integers

CONSTANTS
  MinLimit, MaxLimit,   \* Auto(min_limit=, max_limit=)
  Starts,               \* Auto(initial=), or the engine's capacity: where a run may start
  HardLimits,           \* capacities of engines that reject what is past them; 0: none
  Step,                 \* Auto(step=)
  Excess,               \* how far a queue can be above its band
  StallTicks,           \* Auto(stall_ticks=)
  MaxBackoff,           \* MAX_BACKOFF
  JitterTicks,          \* JITTER_TICKS
  TopLevel,             \* bound: levels of throughput
  MaxLatency            \* bound: latencies

ASSUME ControllerAssumption ==
  /\ MinLimit \in Nat \ {0} /\ MaxLimit \in Nat /\ MinLimit <= MaxLimit
  /\ Starts \subseteq Nat \ {0} /\ Starts # {} /\ HardLimits \subseteq Nat /\ HardLimits # {}
  /\ Step \in Nat \ {0} /\ Excess \subseteq Nat \ {0} /\ StallTicks \in Nat \ {0}
  /\ MaxBackoff \in Nat \ {0} /\ JitterTicks \in Nat
  /\ TopLevel \in Nat /\ MaxLatency \in Nat

VARIABLES
  lo, hi,   \* this run's bounds (Auto.min, Auto.max)
  limit,    \* the window
  state,    \* State: the phase, the ceilings, what was observed since the last change
  reason,   \* last_reason; the reasons of a hold, and those of a halving, are told apart no further
  history   \* what the properties remember of the ticks

vars == <<lo, hi, limit, state, reason, history>>

SmallerOf(m, n) == IF m < n THEN m ELSE n
LargerOf(m, n)  == IF m > n THEN m ELSE n

\* Python's round: half to even.
Round(m, n) ==
  LET q == m \div n
      r == m % n
  IN IF 2 * r < n \/ (2 * r = n /\ q % 2 = 0) THEN q ELSE q + 1

\* MOVES: x2, x4, x1.5, x1.25, x7/8.
Moves == 0..4
Times == [m \in Moves |-> CASE m = 0 -> 2 [] m = 1 -> 4 [] m = 2 -> 3 [] m = 3 -> 5 [] m = 4 -> 7]
Over  == [m \in Moves |-> CASE m < 2 -> 1 [] m = 2 -> 2 [] m = 3 -> 4 [] m = 4 -> 8]
Down(move)      == move = 4
Following(move) == (move + 1) % 5

NoLevel   == -1                      \* no reading
Unknown   == 0                       \* a latency not known
NoCeiling == 0

Above(c) == LargerOf(c + 1, (c * 9) \div 8)
Below(c) == c - LargerOf(1, c \div 8)

Steady(backoff, move, anchor) ==
  [kind |-> "steady", waits |-> 0, backoff |-> backoff, move |-> move, anchor |-> anchor,
   jitter |-> NoLevel]
Fresh == Steady(1, 0, NoLevel)

\* After a failed trial: the next move, after twice the wait.
Failed(trial) == Steady(SmallerOf(MaxBackoff, trial.backoff * 2), Following(trial.move), NoLevel)

ClampFree(c, n) == LargerOf(lo, SmallerOf(hi, n))    \* mutant: the ceiling is forgotten

\* clamp(): within the bounds and an eighth under a ceiling; the minimum wins.
Clamp(c, n) ==
  LET most == IF c = NoCeiling THEN hi ELSE SmallerOf(hi, Below(c)) IN
  LargerOf(lo, SmallerOf(most, n))

Init ==
  /\ \E h \in HardLimits, start \in Starts :
       /\ lo = (IF h = 0 THEN MinLimit ELSE SmallerOf(MinLimit, h))
       /\ hi = (IF h = 0 THEN MaxLimit ELSE SmallerOf(MaxLimit, h))
       /\ limit = SmallerOf(hi, LargerOf(lo, start))
  /\ state = [phase |-> Fresh, ceiling |-> NoCeiling, seen |-> 0, samples |-> 0, rows |-> FALSE,
              latency |-> Unknown, acked |-> FALSE, silent |-> 0, armed |-> FALSE]
  /\ reason = "hold"
  /\ history = [calm |-> TRUE, answered |-> TRUE, best |-> NoLevel, judged |-> NoLevel]

-----------------------------------------------------------------------------
(* _observe.  What the rules ask of the gauges, of backpressure and of the  *)
(* samples is chosen where they ask it.                                     *)

Done(o) == o.flow = "done"
Uses(o) == o.supply = "used"

\* supply: input-bound; under 80% of the window in flight; at least that.  flow: something
\* completed; nothing; nothing of a full window.  old: the oldest request predates the last
\* change (asked for in a cooldown alone).  latency: known from the first success on.
ObsOf(supplies, flows) ==
  [supply : supplies, flow : flows,
   old : IF state.phase.kind = "settling" THEN BOOLEAN ELSE {FALSE},
   latency : IF state.acked \/ flows = {"done"} THEN 1..MaxLatency ELSE {Unknown}]

CalmObs == ObsOf({"used"}, {"done"})
Obs == ObsOf({"starved", "low", "used"}, {"done"}) \cup ObsOf({"starved", "low", "used"}, {"slow"})
         \cup ObsOf({"starved", "used"}, {"silent"})

Patience(o) == LargerOf(StallTicks, 3 * o.latency)

\* No saturated counter is told apart above these.
MostSilent == LargerOf(StallTicks, 3 * MaxLatency)
MostTicks(trial) == LargerOf(3, (2 * MaxLatency * LargerOf(trial.origin, limit) + trial.origin - 1)
                                  \div trial.origin)

\* A ceiling is released when it is old enough, and remembered: at any tick, for a tick can
\* last as long as BP_CEILING_RELEASE_S.
Released(s) == [s EXCEPT !.ceiling = NoCeiling, !.seen = s.ceiling]

\* The latency a trial waits by is the one at its start, or the first one seen.
Trialed(s, o) ==
  IF s.phase.kind # "trial" THEN s
  ELSE [s EXCEPT !.phase.ticks = SmallerOf(MostTicks(s.phase), @ + 1),
                 !.phase.latency = IF @ = Unknown THEN o.latency ELSE @]

\* The old window's requests drain until the hold is over and, within the patience, for as
\* long as the oldest request predates the change.
Drains(p, o) == p.age + 1 <= p.hold \/ (o.old /\ p.age + 1 <= Patience(o))

\* The evidence of this tick.
Counted(s, o) ==
  [s EXCEPT !.armed   = @ \/ Done(o),
            !.silent  = IF o.flow = "silent" THEN SmallerOf(MostSilent, @ + 1) ELSE 0,
            !.samples = IF Uses(o) THEN SmallerOf(2, @ + 1) ELSE @,
            !.rows    = @ \/ (Uses(o) /\ Done(o))]

Observed(known, o) ==
  LET s == Trialed([known EXCEPT !.acked = @ \/ Done(o),
                                 !.latency = IF o.latency = Unknown THEN @ ELSE o.latency], o)
  IN IF s.phase.kind # "settling" THEN Counted(s, o)
     ELSE IF Drains(s.phase, o)
            THEN [s EXCEPT !.phase.age = @ + 1, !.silent = 0, !.samples = 0, !.rows = FALSE]
            ELSE Counted([s EXCEPT !.phase = s.phase.then], o)

-----------------------------------------------------------------------------
(* Auto.settle and Auto.cut.                                                *)

\* Hold for max(2 ticks, the latency), 3 ticks if it is unknown.
Settle(s, then) ==
  [s EXCEPT !.phase = [kind |-> "settling", age |-> 0, then |-> then,
                       hold |-> IF s.latency = Unknown THEN 3 ELSE LargerOf(2, s.latency)],
            !.samples = 0, !.rows = FALSE, !.silent = 0, !.armed = FALSE]

Decision(new, why, s) == limit' = new /\ reason' = why /\ state' = s

\* mutant: a cut during a trial is not held to where the trial began
CutAnywhere(s, target, why, keepTarget) ==
  LET then == IF s.phase.kind = "trial" THEN Failed(s.phase) ELSE Fresh
      new  == Clamp(s.ceiling, target)
  IN \/ new >= limit /\ Decision(limit, "hold", [s EXCEPT !.phase = then])
     \/ new < limit /\ Decision(new, why, Settle(s, then))

\* A trial that meets a cut failed, and unless the queue says how far to step down, the
\* window goes no higher than where the trial began.
Cut(s, target, why, keepTarget) ==
  LET inTrial == s.phase.kind = "trial"
      then == IF inTrial THEN Failed(s.phase) ELSE Fresh
      goal == IF inTrial /\ ~keepTarget THEN SmallerOf(target, s.phase.origin) ELSE target
      new  == Clamp(s.ceiling, goal)
  IN \/ new >= limit /\ Decision(limit, "hold", [s EXCEPT !.phase = then])
     \/ new < limit /\ Decision(new, why, Settle(s, then))

-----------------------------------------------------------------------------
(* The rules, in the order of RULES; s is the observed state.  Those before *)
(* the stall rule and the queue rule depend on inputs that are free here.   *)

Cooldown(s) == s.phase.kind = "settling" /\ Decision(limit, "hold", s)

\* Remember the window as a ceiling; just under one met before, else halve.
CutForBackpressure(s) ==
  LET known  == IF s.ceiling # NoCeiling THEN s.ceiling ELSE s.seen
      atKnown == known # 0 /\ Below(known) <= limit /\ limit <= Above(known)
      lowest == IF s.ceiling = NoCeiling THEN limit ELSE SmallerOf(limit, s.ceiling)
  IN Cut([s EXCEPT !.ceiling = lowest],
         IF atKnown THEN Below(limit) ELSE limit \div 2, "cut", FALSE)

CutForKV(s) == Cut(s, limit \div 2, "cut", FALSE)

StalledOften(s, o) == s.silent >= Patience(o)          \* mutant: more than once an episode
Stalled(s, o)      == s.armed /\ s.silent >= Patience(o)

CutForStall(s, o) == Stalled(s, o) /\ Cut(s, limit \div 2, "cut:stall", FALSE)

HoldInputBound(s) == Decision(limit, "hold", s)

\* By the excess, at least `step`, at most half the window.
CutForQueue(s) ==
  /\ s.acked
  /\ \E n \in Excess :
       Cut(s, limit - SmallerOf(LargerOf(Step, n), limit \div 2), "cut:queue", TRUE)

\* Auto.evidence: a reading takes `limit` completions and two samples.
Readings(s) == IF s.rows /\ s.samples = 2 THEN 0..TopLevel \cup {NoLevel} ELSE {NoLevel}

\* A trial is kept or reverted once its evidence is in, three ticks and two latencies of its
\* window after it began; a gain is kept at once.
JudgeTrial(s, reading) ==
  LET t == s.phase
      up == limit > t.origin
      gain == up /\ reading > t.ref
      kept == IF up THEN gain ELSE reading > 0 /\ reading + 1 >= t.ref
      settled == t.ticks >= 3 /\ t.ticks * t.origin >= 2 * t.latency * LargerOf(t.origin, limit)
      judged == reading # NoLevel /\ (settled \/ gain)
  IN /\ t.kind = "trial"
     /\ \/ ~judged /\ Decision(limit, "hold", s)
        \/ /\ judged /\ kept
           /\ Decision(limit, "kept",
                [s EXCEPT !.samples = 0, !.rows = FALSE,
                          !.phase = IF up THEN Fresh ELSE Steady(1, t.move, t.ref)])
        \/ /\ judged /\ ~kept
           /\ Decision(Clamp(s.ceiling, t.origin), "revert", Settle(s, Failed(t)))

\* The window under 80% used, or a queue in the band.
HoldSteady(s) == s.phase.kind = "steady" /\ Decision(limit, "hold", s)

-----------------------------------------------------------------------------
(* open_trial.                                                              *)

\* The window the next move leads to: within the bounds and the ceiling, and only an eighth
\* past a ceiling that was released.
Target(s) ==
  LET m == s.phase.move
      new == Clamp(s.ceiling, Round(limit * Times[m], Over[m]))
  IN IF s.ceiling = NoCeiling /\ s.seen # 0 /\ limit <= s.seen /\ s.seen < new
       THEN SmallerOf(new, Above(s.seen)) ELSE new

AtCeiling(s) == s.ceiling # NoCeiling /\ limit >= Below(s.ceiling)

\* The jitter is drawn when the trial falls due; none in slow-start.
Jitters(p) == IF p.jitter # NoLevel THEN {p.jitter}
              ELSE IF p.backoff > 1 THEN 0..JitterTicks ELSE {0}

RefNow(s, reading) == reading               \* mutant: each step down against the one before
Ref(s, reading) ==
  IF Target(s) < limit /\ s.phase.anchor # NoLevel THEN s.phase.anchor ELSE reading

SkipAgain(p) == p                          \* mutant: an empty move is tried again and again
Skip(p) == [p EXCEPT !.waits = 0, !.move = Following(p.move), !.jitter = NoLevel]

OpenTrial(s, reading) ==
  LET p == s.phase
      ready == reading > 0 /\ s.silent = 0
      new == Target(s)
      empty == new = limit \/ (Down(p.move) /\ AtCeiling(s))
      used == [s EXCEPT !.samples = 0, !.rows = FALSE]
  IN /\ p.kind = "steady"
     /\ \/ ~ready /\ Decision(limit, "hold", s)
        \/ /\ ready /\ p.waits + 1 < p.backoff
           /\ Decision(limit, "hold", [used EXCEPT !.phase.waits = @ + 1])
        \/ /\ ready /\ p.waits + 1 >= p.backoff
           /\ \E j \in Jitters(p) :
                \/ j > 0 /\ Decision(limit, "hold", [s EXCEPT !.phase.jitter = j - 1])
                \/ /\ j = 0 /\ empty
                   /\ Decision(limit, "hold", [used EXCEPT !.phase = Skip(p)])
                \/ /\ j = 0 /\ ~empty
                   /\ Decision(new, IF new > limit THEN "trial:up" ELSE "trial:down",
                        [used EXCEPT !.phase =
                           [kind |-> "trial", origin |-> limit, ref |-> Ref(s, reading),
                            move |-> p.move, backoff |-> p.backoff,
                            latency |-> s.latency, ticks |-> 0]])

-----------------------------------------------------------------------------
(* decide(), and the loop that calls it every tick.                         *)

\* A tick was calm if it showed a used window that delivers, and nothing the rules hold or
\* cut for; `judged` is the level a trial was kept at, `best` the one where a run of moves
\* down began, and `answered` whether something completed, once drained, since a stall cut.
InRun(p) == p.kind = "trial" \/ (p.kind = "steady" /\ p.anchor # NoLevel)

Remember(o, reading, calm) ==
  /\ UNCHANGED <<lo, hi>>
  /\ history' =
       [calm     |-> calm /\ Uses(o) /\ Done(o),
        answered |-> IF reason' = "cut:stall" THEN FALSE
                     ELSE history.answered \/ (Done(o) /\ state'.phase.kind # "settling"),
        best     |-> IF reason' = "trial:down" /\ history.best = NoLevel THEN reading
                     ELSE IF reason' = "trial:up" \/ ~InRun(state'.phase) THEN NoLevel
                     ELSE history.best,
        judged   |-> IF reason' = "kept" /\ history.best # NoLevel THEN reading ELSE NoLevel]

\* The first rule that applies decides.  Of the last, those of a used window:
Search(s, o) ==
  \E reading \in Readings(s) :
    /\ JudgeTrial(s, reading) \/ (Uses(o) /\ OpenTrial(s, reading))
    /\ Remember(o, reading, reading > 0 \/ Readings(s) = {NoLevel})

Rules(s, o) ==
  \/ Cooldown(s) /\ Remember(o, NoLevel, TRUE)
  \/ /\ s.phase.kind # "settling"
     /\ \/ CutForBackpressure(s) \/ CutForKV(s) \/ CutForStall(s, o)
        \/ ~Stalled(s, o) /\ o.supply = "starved" /\ HoldInputBound(s)
        \/ ~Stalled(s, o) /\ o.supply # "starved" /\ (CutForQueue(s) \/ HoldSteady(s))
     /\ Remember(o, NoLevel, FALSE)
  \/ ~Stalled(s, o) /\ o.supply # "starved" /\ Search(s, o)

Decides(known) == \E o \in Obs : \E s \in {Observed(known, o)} : Rules(s, o)
Tick    == Decides(state)
Release == state.ceiling # NoCeiling /\ Decides(Released(state))

Next == Tick \/ Release

\* The control loop ticks as long as the run lasts, and a ceiling grows old: stated of the calm
\* ticks, for the liveness property is about runs that in the end have no other.
CalmTick ==
  \E known \in {IF state.ceiling = NoCeiling THEN state ELSE Released(state)}, o \in CalmObs :
    \E s \in {Observed(known, o)} :
      (Cooldown(s) /\ Remember(o, NoLevel, TRUE)) \/ (Search(s, o) /\ history'.calm)

Spec == Init /\ [][Next]_vars /\ WF_vars(CalmTick)

-----------------------------------------------------------------------------
(* Properties.                                                              *)

Levels == 0..TopLevel \cup {NoLevel}
Steadies == [kind : {"steady"}, waits : 0..MaxBackoff, backoff : 1..MaxBackoff, move : Moves,
             anchor : Levels, jitter : 0..JitterTicks \cup {NoLevel}]
Trials == [kind : {"trial"}, origin : lo..hi, ref : Levels, move : Moves,
           backoff : 1..MaxBackoff, latency : 0..MaxLatency, ticks : 0..LargerOf(3, 2 * MaxLatency * hi)]
Settlings == [kind : {"settling"}, age : 0..LargerOf(3, MostSilent), then : Steadies,
              hold : 2..LargerOf(3, MaxLatency)]

\* The window is always within the bounds worked out at begin().
TypeOK ==
  /\ limit \in lo..hi
  /\ state.phase \in Steadies \cup Trials \cup Settlings
  /\ state.ceiling \in 0..hi /\ state.seen \in 0..hi /\ state.samples \in 0..2 /\ state.rows \in BOOLEAN
  /\ state.latency \in 0..MaxLatency /\ state.silent \in 0..MostSilent
  /\ state.acked \in BOOLEAN /\ state.armed \in BOOLEAN

\* While a backpressure ceiling stands, no trial, revert or step brings the window back to
\* where it met backpressure: it stays an eighth under, or at the minimum (clamp).
CeilingRespected ==
  state.ceiling # NoCeiling => limit <= LargerOf(lo, Below(state.ceiling))
\* Over every sequence of rules the window stays between its bounds and under its ceiling.
WindowBounded == TypeOK /\ CeilingRespected

\* One stall cut an episode: the next needs a completion after the last has drained, however
\* often other cuts, trials and holds come between (the docstring's rule 4).
OneStallPerEpisode == [][reason' = "cut:stall" => history.answered]_vars

\* Whatever ends a trial but a kept reading or the queue gauge, the window is then no higher
\* than where the trial began.
FailedTrialGoesBack ==
  [][state.phase.kind = "trial" /\ state'.phase.kind # "trial"
       /\ reason' \notin {"kept", "cut:queue"} => limit' <= state.phase.origin]_vars

\* However many moves down are kept in a row, the last one delivers what the first was
\* measured against, but for `improve` (Steady's anchor).
SmallLossesDontAdd ==
  [][reason' = "kept" /\ history.best # NoLevel
       => history'.judged + 1 >= history.best]_vars

\* The search never gives up: while the engine delivers and nothing calls for a cut, trials
\* are opened again and again, from every window, ceiling and backoff ("a plateau is retried
\* rarely but never given up on").
SearchGoesOn == <>[](history.calm) => []<>(reason \in {"trial:up", "trial:down"})
=============================================================================
