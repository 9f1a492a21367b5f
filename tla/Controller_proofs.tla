--------------------------- MODULE Controller_proofs ---------------------------
(***************************************************************************)
(* Theorems about Controller, for every bound, hard limit, step, patience, *)
(* backoff and level.  The invariant CInv types the state with its phase,  *)
(* keeps the window under its ceiling, and says what the phase knows of    *)
(* the ticks before: an armed stall rule has seen an answer (armed), and a *)
(* run of moves down is judged against the level it began at (RunOf).      *)
(***************************************************************************)
EXTENDS Controller, TLAPS

Phases == Steadies \cup Trials \cup Settlings

StateType ==
  [phase : Phases, ceiling : 0..hi, seen : 0..hi, samples : 0..2, rows : BOOLEAN,
   latency : 0..MaxLatency, acked : BOOLEAN, silent : 0..MostSilent, armed : BOOLEAN]

Bounds == lo \in Nat \ {0} /\ hi \in Nat /\ lo <= hi /\ limit \in lo..hi

\* Under the ceiling c, or at the minimum.
Under(c, window) == c # NoCeiling => window <= LargerOf(lo, Below(c))

\* The level a run of moves down began at is the reference of a trial down and the anchor of
\* the phase after it; no other phase has one.
RunOf(best, window, p) ==
  /\ p.kind = "steady" => best = p.anchor
  /\ p.kind = "trial" => /\ p.origin # window
                         /\ best = IF window < p.origin THEN p.ref ELSE NoLevel
  /\ p.kind = "settling" => best = NoLevel /\ p.then.anchor = NoLevel

CInv ==
  /\ Bounds /\ state \in StateType
  /\ Under(state.ceiling, limit)
  /\ state.armed => history.answered
  /\ RunOf(history.best, limit, state.phase)

-----------------------------------------------------------------------------
(* Numbers.                                                                 *)

LEMMA RoundInt ==
  ASSUME NEW m \in Nat, NEW n \in Nat \ {0}
  PROVE  Round(m, n) \in Int
BY DEF Round

LEMMA ClampRange ==
  ASSUME Bounds, NEW c \in Nat, NEW n \in Int
  PROVE  /\ Clamp(c, n) \in lo..hi /\ Under(c, Clamp(c, n))
         /\ Clamp(c, n) <= LargerOf(lo, n)
<1>1. Below(c) \in Int
  BY DEF Below, LargerOf
<1>2. QED
  BY <1>1 DEF Clamp, Under, Bounds, NoCeiling, SmallerOf, LargerOf

LEMMA CeilDiv ==
  ASSUME NEW m \in Nat, NEW n \in Nat \ {0}
  PROVE  (m + n - 1) \div n \in Nat /\ (m + n - 1) \div n <= m
<1> DEFINE q == (m + n - 1) \div n
<1>1. q \in Nat /\ q * n <= m + n - 1
  OBVIOUS
<1> HIDE DEF q
<1>2. ASSUME q >= m + 1 PROVE FALSE
  <2>1. q * n >= (m + 1) * n
    BY <1>1, <1>2
  <2>2. (m + 1) * n = m * n + n /\ m * n >= m
    OBVIOUS
  <2>3. QED
    BY <1>1, <2>1, <2>2
<1>3. q <= m
  BY <1>1, <1>2
<1>4. QED
  BY <1>1, <1>3 DEF q

LEMMA MostTicksBound ==
  ASSUME Bounds, NEW t, t.origin \in lo..hi
  PROVE  MostTicks(t) \in 0..LargerOf(3, 2 * MaxLatency * hi)
<1> DEFINE w == LargerOf(t.origin, limit)
           m == 2 * MaxLatency * w
<1>1. w \in Nat /\ w <= hi /\ t.origin \in Nat \ {0} /\ MaxLatency \in Nat /\ hi \in Nat
  BY ControllerAssumption DEF Bounds, LargerOf
<1>2. m \in Nat /\ m <= 2 * MaxLatency * hi
  <2> HIDE DEF w
  <2>1. MaxLatency * w <= MaxLatency * hi /\ MaxLatency * w \in Nat
    BY <1>1
  <2>2. m = 2 * (MaxLatency * w) /\ 2 * MaxLatency * hi = 2 * (MaxLatency * hi)
    BY <1>1
  <2>3. QED
    BY <1>1, <2>1, <2>2
<1>3. MostTicks(t) = LargerOf(3, (m + t.origin - 1) \div t.origin)
  BY DEF MostTicks
<1> HIDE DEF m
<1>4. (m + t.origin - 1) \div t.origin \in Nat /\ (m + t.origin - 1) \div t.origin <= m
  BY <1>1, <1>2, CeilDiv
<1>5. 2 * MaxLatency * hi \in Nat
  BY <1>1
<1>6. QED
  BY <1>2, <1>3, <1>4, <1>5 DEF LargerOf

-----------------------------------------------------------------------------
(* Phases.                                                                  *)

LEMMA PhaseKinds ==
  ASSUME NEW p \in Phases
  PROVE  /\ p.kind = "steady" <=> p \in Steadies
         /\ p.kind = "trial" <=> p \in Trials
         /\ p.kind = "settling" <=> p \in Settlings
         /\ p.kind \in {"steady", "trial", "settling"}
BY DEF Phases, Steadies, Trials, Settlings

LEMMA FreshSteady == Fresh \in Steadies /\ Fresh.anchor = NoLevel
BY ControllerAssumption DEF Fresh, Steady, Steadies, Levels, Moves, NoLevel

LEMMA NextMove ==
  ASSUME NEW m \in Moves
  PROVE  Following(m) \in Moves
BY DEF Moves, Following

LEMMA FailedSteady ==
  ASSUME NEW t \in Trials
  PROVE  Failed(t) \in Steadies /\ Failed(t).anchor = NoLevel
<1>1. t.move \in Moves /\ t.backoff \in 1..MaxBackoff
  BY DEF Trials
<1>2. SmallerOf(MaxBackoff, t.backoff * 2) \in 1..MaxBackoff
  BY <1>1, ControllerAssumption DEF SmallerOf
<1>3. Following(t.move) \in Moves
  BY <1>1, NextMove
<1>4. QED
  BY <1>2, <1>3, ControllerAssumption DEF Failed, Steady, Steadies, Levels, NoLevel

\* The new window's phase, after a drain of at most three ticks or the latency.
LEMMA SettleType ==
  ASSUME NEW s \in StateType, NEW p \in Steadies
  PROVE  /\ Settle(s, p) \in StateType
         /\ Settle(s, p).phase.kind = "settling" /\ Settle(s, p).phase.then = p
         /\ ~Settle(s, p).armed /\ Settle(s, p).ceiling = s.ceiling
<1> DEFINE h == IF s.latency = Unknown THEN 3 ELSE LargerOf(2, s.latency)
           q == [kind |-> "settling", age |-> 0, then |-> p, hold |-> h]
<1>1. s.latency \in 0..MaxLatency /\ MaxLatency \in Nat /\ StallTicks \in Nat
  BY ControllerAssumption DEF StateType
<1>2. h \in 2..LargerOf(3, MaxLatency) /\ 0 \in 0..LargerOf(3, MostSilent) /\ 0 \in 0..MostSilent
  BY <1>1 DEF LargerOf, MostSilent, Unknown
<1> HIDE DEF h
<1>3. q \in Phases
  BY <1>2 DEF Phases, Settlings
<1>4. Settle(s, p) = [s EXCEPT !.phase = q, !.samples = 0, !.rows = FALSE, !.silent = 0, !.armed = FALSE]
  BY DEF Settle, h
<1> HIDE DEF q
<1>5. Settle(s, p) = [phase |-> q, ceiling |-> s.ceiling, seen |-> s.seen, samples |-> 0, rows |-> FALSE,
                      latency |-> s.latency, acked |-> s.acked, silent |-> 0, armed |-> FALSE]
  BY <1>4 DEF StateType
<1>6. Settle(s, p) \in StateType
  BY <1>2, <1>3, <1>5 DEF StateType
<1>7. QED
  BY <1>5, <1>6 DEF q

\* Another phase, the rest as it was.
LEMMA PhaseOnly ==
  ASSUME NEW s \in StateType, NEW p \in Phases
  PROVE  /\ [s EXCEPT !.phase = p] \in StateType
         /\ [s EXCEPT !.phase = p].phase = p
         /\ [s EXCEPT !.phase = p].ceiling = s.ceiling /\ [s EXCEPT !.phase = p].armed = s.armed
BY DEF StateType

-----------------------------------------------------------------------------
(* What a tick observes.                                                    *)

\* How the phase goes on into the rules: a trial only gets older, and a drain ends.
SameRun(p, q) ==
  /\ p.kind = "steady" => q = p
  /\ p.kind = "trial" => q.kind = "trial" /\ q.origin = p.origin /\ q.ref = p.ref
  /\ p.kind = "settling" => \/ q.kind = "settling" /\ q.then = p.then
                            \/ q = p.then

LEMMA ObsIs ==
  ASSUME NEW o \in Obs
  PROVE  o.latency \in 0..MaxLatency /\ o.flow \in {"done", "slow", "silent"}
         /\ o.supply \in {"starved", "low", "used"}
<1>1. MaxLatency \in Nat
  BY ControllerAssumption
<1>2. \A S, F : \A x \in ObsOf(S, F) : x.latency \in 0..MaxLatency /\ x.flow \in F /\ x.supply \in S
  BY <1>1 DEF ObsOf, Unknown
<1>3. QED
  BY <1>2 DEF Obs

\* The fields of a state with new values.
LEMMA NewEvidence ==
  ASSUME NEW s \in StateType, NEW a, NEW i, NEW n, NEW r
  PROVE  [s EXCEPT !.armed = a, !.silent = i, !.samples = n, !.rows = r]
           = [phase |-> s.phase, ceiling |-> s.ceiling, seen |-> s.seen, samples |-> n, rows |-> r,
              latency |-> s.latency, acked |-> s.acked, silent |-> i, armed |-> a]
<1>1. [s EXCEPT !.armed = a, !.silent = i, !.samples = n, !.rows = r]
        = [f \in DOMAIN s |-> IF f = "rows" THEN r ELSE IF f = "samples" THEN n
                              ELSE IF f = "silent" THEN i ELSE IF f = "armed" THEN a ELSE s[f]]
  BY DEF StateType
<1>2. DOMAIN s = {"phase", "ceiling", "seen", "samples", "rows", "latency", "acked", "silent", "armed"}
  BY DEF StateType
<1>3. QED
  BY <1>1, <1>2

LEMMA NewAnswer ==
  ASSUME NEW s \in StateType, NEW a, NEW l
  PROVE  [s EXCEPT !.acked = a, !.latency = l]
           = [phase |-> s.phase, ceiling |-> s.ceiling, seen |-> s.seen, samples |-> s.samples,
              rows |-> s.rows, latency |-> l, acked |-> a, silent |-> s.silent, armed |-> s.armed]
<1>1. [s EXCEPT !.acked = a, !.latency = l]
        = [f \in DOMAIN s |-> IF f = "latency" THEN l ELSE IF f = "acked" THEN a ELSE s[f]]
  BY DEF StateType
<1>2. DOMAIN s = {"phase", "ceiling", "seen", "samples", "rows", "latency", "acked", "silent", "armed"}
  BY DEF StateType
<1>3. QED
  BY <1>1, <1>2

LEMMA NewDrain ==
  ASSUME NEW s \in StateType, NEW q, NEW i, NEW r
  PROVE  [s EXCEPT !.phase = q, !.silent = i, !.samples = i, !.rows = r]
           = [phase |-> q, ceiling |-> s.ceiling, seen |-> s.seen, samples |-> i, rows |-> r,
              latency |-> s.latency, acked |-> s.acked, silent |-> i, armed |-> s.armed]
<1>1. [s EXCEPT !.phase = q, !.silent = i, !.samples = i, !.rows = r]
        = [f \in DOMAIN s |-> IF f = "rows" THEN r ELSE IF f = "samples" THEN i
                              ELSE IF f = "silent" THEN i ELSE IF f = "phase" THEN q ELSE s[f]]
  BY DEF StateType
<1>2. DOMAIN s = {"phase", "ceiling", "seen", "samples", "rows", "latency", "acked", "silent", "armed"}
  BY DEF StateType
<1>3. QED
  BY <1>1, <1>2

LEMMA NewUse ==
  ASSUME NEW s \in StateType, NEW q, NEW n, NEW r
  PROVE  [s EXCEPT !.samples = n, !.rows = r, !.phase = q]
           = [phase |-> q, ceiling |-> s.ceiling, seen |-> s.seen, samples |-> n, rows |-> r,
              latency |-> s.latency, acked |-> s.acked, silent |-> s.silent, armed |-> s.armed]
<1>1. [s EXCEPT !.samples = n, !.rows = r, !.phase = q]
        = [f \in DOMAIN s |-> IF f = "rows" THEN r ELSE IF f = "samples" THEN n
                              ELSE IF f = "phase" THEN q ELSE s[f]]
  BY DEF StateType
<1>2. DOMAIN s = {"phase", "ceiling", "seen", "samples", "rows", "latency", "acked", "silent", "armed"}
  BY DEF StateType
<1>3. QED
  BY <1>1, <1>2

LEMMA NewTicks ==
  ASSUME NEW p \in Trials, NEW k, NEW l
  PROVE  [p EXCEPT !.ticks = k, !.latency = l]
           = [kind |-> "trial", origin |-> p.origin, ref |-> p.ref, move |-> p.move,
              backoff |-> p.backoff, latency |-> l, ticks |-> k]
<1>1. [p EXCEPT !.ticks = k, !.latency = l]
        = [f \in DOMAIN p |-> IF f = "latency" THEN l ELSE IF f = "ticks" THEN k ELSE p[f]]
  BY DEF Trials
<1>2. DOMAIN p = {"kind", "origin", "ref", "move", "backoff", "latency", "ticks"} /\ p.kind = "trial"
  BY DEF Trials
<1>3. QED
  BY <1>1, <1>2

LEMMA CountedIs ==
  ASSUME NEW s \in StateType, NEW o \in Obs
  PROVE  /\ Counted(s, o) \in StateType /\ Counted(s, o).phase = s.phase
         /\ Counted(s, o).ceiling = s.ceiling
         /\ Counted(s, o).armed => s.armed \/ Done(o)
         /\ Counted(s, o).silent > 0 => ~Done(o)
<1> DEFINE c == Counted(s, o)
<1>1. /\ s.silent \in 0..MostSilent /\ MostSilent \in Nat /\ s.samples \in 0..2
      /\ s.armed \in BOOLEAN /\ s.rows \in BOOLEAN /\ Done(o) \in BOOLEAN /\ Uses(o) \in BOOLEAN
  BY ControllerAssumption DEF StateType, MostSilent, LargerOf, Done, Uses
<1> DEFINE a == s.armed \/ Done(o)
           i == IF o.flow = "silent" THEN SmallerOf(MostSilent, s.silent + 1) ELSE 0
           n == IF Uses(o) THEN SmallerOf(2, s.samples + 1) ELSE s.samples
           r == s.rows \/ (Uses(o) /\ Done(o))
<1>2. c = [s EXCEPT !.armed = a, !.silent = i, !.samples = n, !.rows = r]
  BY DEF Counted
<1>3. n \in 0..2 /\ i \in 0..MostSilent /\ a \in BOOLEAN /\ r \in BOOLEAN
  <2>1. n \in 0..2
    BY <1>1 DEF SmallerOf
  <2>2. i \in 0..MostSilent
    BY <1>1 DEF SmallerOf
  <2>3. a \in BOOLEAN /\ r \in BOOLEAN
    OBVIOUS
  <2>4. QED
    BY <2>1, <2>2, <2>3
<1>4. (a => s.armed \/ Done(o)) /\ (i > 0 => ~Done(o))
  BY DEF Done
<1> HIDE DEF a, i, n, r, c
<1>5. c = [phase |-> s.phase, ceiling |-> s.ceiling, seen |-> s.seen, samples |-> n, rows |-> r,
           latency |-> s.latency, acked |-> s.acked, silent |-> i, armed |-> a]
  <2>1. \A x, y, z, w : [s EXCEPT !.armed = x, !.silent = y, !.samples = z, !.rows = w]
           = [phase |-> s.phase, ceiling |-> s.ceiling, seen |-> s.seen, samples |-> z, rows |-> w,
              latency |-> s.latency, acked |-> s.acked, silent |-> y, armed |-> x]
    BY NewEvidence
  <2>2. QED
    BY <1>2, <2>1, Zenon
<1>6. c \in StateType
  BY <1>3, <1>5 DEF StateType
<1>7. c.phase = s.phase /\ c.ceiling = s.ceiling /\ (c.armed => s.armed \/ Done(o)) /\ (c.silent > 0 => ~Done(o))
  BY <1>4, <1>5
<1>8. QED
  BY <1>6, <1>7 DEF c

LEMMA TrialedIs ==
  ASSUME Bounds, NEW s \in StateType, NEW o \in Obs
  PROVE  /\ Trialed(s, o) \in StateType /\ SameRun(s.phase, Trialed(s, o).phase)
         /\ Trialed(s, o).phase.kind = s.phase.kind
         /\ s.phase.kind # "trial" => Trialed(s, o) = s
         /\ Trialed(s, o).ceiling = s.ceiling /\ Trialed(s, o).armed = s.armed
<1>1. CASE s.phase.kind # "trial"
  BY <1>1 DEF Trialed, SameRun
<1>2. CASE s.phase.kind = "trial"
  <2> DEFINE p == s.phase
             k == SmallerOf(MostTicks(p), p.ticks + 1)
             l == IF p.latency = Unknown THEN o.latency ELSE p.latency
             q == [p EXCEPT !.ticks = k, !.latency = l]
  <2>1. p \in Trials
    BY <1>2, PhaseKinds DEF StateType
  <2>2. k \in 0..LargerOf(3, 2 * MaxLatency * hi)
    <3>1. p.origin \in lo..hi /\ p.ticks \in 0..LargerOf(3, 2 * MaxLatency * hi)
      BY <2>1 DEF Trials
    <3>2. MostTicks(p) \in 0..LargerOf(3, 2 * MaxLatency * hi)
      BY <3>1, MostTicksBound
    <3>3. 2 * MaxLatency * hi \in Nat
      BY ControllerAssumption DEF Bounds
    <3> HIDE DEF p
    <3>4. QED
      BY <3>1, <3>2, <3>3 DEF SmallerOf, LargerOf
  <2>3. l \in 0..MaxLatency
    BY <2>1, ObsIs DEF Trials
  <2> HIDE DEF k, l
  <2>4. q = [kind |-> "trial", origin |-> p.origin, ref |-> p.ref, move |-> p.move,
             backoff |-> p.backoff, latency |-> l, ticks |-> k]
    BY <2>1, NewTicks
  <2>5. q \in Trials
    BY <2>1, <2>2, <2>3, <2>4 DEF Trials
  <2>6. Trialed(s, o) = [s EXCEPT !.phase = q]
    BY <1>2 DEF Trialed, k, l, StateType
  <2> HIDE DEF q
  <2>7. Trialed(s, o) \in StateType /\ Trialed(s, o).phase = q
        /\ Trialed(s, o).ceiling = s.ceiling /\ Trialed(s, o).armed = s.armed
    BY <2>5, <2>6, PhaseOnly DEF Phases
  <2>8. QED
    BY <1>2, <2>4, <2>7 DEF SameRun
<1>3. QED
  BY <1>1, <1>2

LEMMA ObservedIs ==
  ASSUME Bounds, NEW known \in StateType, NEW o \in Obs
  PROVE  LET s == Observed(known, o) IN
         /\ s \in StateType /\ s.ceiling = known.ceiling
         /\ SameRun(known.phase, s.phase)
         /\ s.armed => known.armed \/ (Done(o) /\ s.phase.kind # "settling")
         /\ s.silent > 0 => ~Done(o)
<1> DEFINE k == [known EXCEPT !.acked = @ \/ Done(o), !.latency = IF o.latency = Unknown THEN @ ELSE o.latency]
           t == Trialed(k, o)
<1>1. /\ k \in StateType /\ k.phase = known.phase /\ k.ceiling = known.ceiling /\ k.armed = known.armed
  <2> DEFINE l == IF o.latency = Unknown THEN known.latency ELSE o.latency
             a == known.acked \/ Done(o)
  <2>1. l \in 0..MaxLatency
    BY ObsIs DEF StateType
  <2>2. a \in BOOLEAN
    OBVIOUS
  <2>3. k = [known EXCEPT !.acked = a, !.latency = l]
    OBVIOUS
  <2> HIDE DEF k, l, a
  <2>4. k = [phase |-> known.phase, ceiling |-> known.ceiling, seen |-> known.seen,
             samples |-> known.samples, rows |-> known.rows, latency |-> l,
             acked |-> a, silent |-> known.silent, armed |-> known.armed]
    BY <2>3, NewAnswer
  <2>5. QED
    BY <2>1, <2>2, <2>4 DEF StateType
<1> HIDE DEF k
<1>2. /\ t \in StateType /\ SameRun(known.phase, t.phase) /\ t.ceiling = known.ceiling
      /\ t.armed = known.armed /\ t.phase.kind = known.phase.kind
      /\ known.phase.kind # "trial" => t.phase = known.phase
  BY <1>1, TrialedIs
<1>3. Observed(known, o) =
        IF t.phase.kind # "settling" THEN Counted(t, o)
        ELSE IF Drains(t.phase, o)
               THEN [t EXCEPT !.phase.age = @ + 1, !.silent = 0, !.samples = 0, !.rows = FALSE]
               ELSE Counted([t EXCEPT !.phase = t.phase.then], o)
  BY DEF Observed, k
<1> HIDE DEF t
<1>4. CASE t.phase.kind # "settling"
  BY <1>2, <1>3, <1>4, CountedIs
<1>5. CASE t.phase.kind = "settling" /\ Drains(t.phase, o)
  <2> DEFINE p == t.phase
             q == [p EXCEPT !.age = @ + 1]
             s == [t EXCEPT !.phase = q, !.silent = 0, !.samples = 0, !.rows = FALSE]
  <2>1. p \in Settlings
    BY <1>2, <1>5, PhaseKinds DEF StateType
  <2>2. p.age + 1 \in 0..LargerOf(3, MostSilent)
    <3>1. /\ p.age \in Nat /\ p.hold \in 2..LargerOf(3, MaxLatency)
          /\ o.latency \in 0..MaxLatency /\ MaxLatency \in Nat /\ StallTicks \in Nat
      BY <2>1, ObsIs, ControllerAssumption DEF Settlings
    <3>2. p.age + 1 <= p.hold \/ p.age + 1 <= Patience(o)
      BY <1>5 DEF Drains
    <3> HIDE DEF p
    <3>3. QED
      BY <3>1, <3>2 DEF Patience, LargerOf, MostSilent
  <2>3. q = [kind |-> "settling", age |-> p.age + 1, then |-> p.then, hold |-> p.hold]
    BY <2>1 DEF Settlings
  <2>4. q \in Settlings
    BY <2>1, <2>2, <2>3 DEF Settlings
  <2>5. Observed(known, o) = s
    BY <1>2, <1>3, <1>5 DEF StateType
  <2> HIDE DEF q
  <2>6. s = [phase |-> q, ceiling |-> t.ceiling, seen |-> t.seen, samples |-> 0, rows |-> FALSE,
             latency |-> t.latency, acked |-> t.acked, silent |-> 0, armed |-> t.armed]
    <3>1. \A i, r : [t EXCEPT !.phase = q, !.silent = i, !.samples = i, !.rows = r]
             = [phase |-> q, ceiling |-> t.ceiling, seen |-> t.seen, samples |-> i, rows |-> r,
                latency |-> t.latency, acked |-> t.acked, silent |-> i, armed |-> t.armed]
      BY <1>2, NewDrain
    <3>2. QED
      BY <3>1, Zenon
  <2>7. 0 \in 0..MostSilent
    BY ControllerAssumption DEF MostSilent, LargerOf
  <2> HIDE DEF s, p
  <2>8. s \in StateType
    BY <1>2, <2>4, <2>6, <2>7 DEF StateType, Phases
  <2>9. SameRun(known.phase, s.phase)
    BY <1>2, <1>5, <2>3, <2>6 DEF SameRun, p
  <2>10. QED
    BY <1>2, <2>5, <2>6, <2>8, <2>9
<1>6. CASE t.phase.kind = "settling" /\ ~Drains(t.phase, o)
  <2> DEFINE r == [t EXCEPT !.phase = t.phase.then]
  <2>1. t.phase \in Settlings /\ t.phase.then \in Steadies
    BY <1>2, <1>6, PhaseKinds DEF StateType, Settlings
  <2>2. r \in StateType /\ r.phase = t.phase.then /\ r.ceiling = t.ceiling /\ r.armed = t.armed
    BY <1>2, <2>1, PhaseOnly DEF Phases
  <2>3. Observed(known, o) = Counted(r, o)
    BY <1>3, <1>6
  <2> HIDE DEF r
  <2>4. r.phase.kind = "steady" /\ SameRun(known.phase, r.phase)
    BY <1>2, <1>6, <2>1, <2>2 DEF SameRun, Steadies
  <2>5. QED
    BY <1>2, <2>2, <2>3, <2>4, CountedIs
<1>7. QED
  BY <1>4, <1>5, <1>6

-----------------------------------------------------------------------------
(* What a rule may do to the observed state s.                              *)

Safe(s) ==
  /\ limit' \in lo..hi /\ state' \in StateType /\ Under(state'.ceiling, limit')
  /\ state'.armed => s.armed /\ (state'.phase.kind = "settling" => s.phase.kind = "settling")

\* The window stays, and the phase with it.
Holds(s) ==
  /\ limit' = limit /\ reason' = "hold" /\ state'.phase.kind = s.phase.kind
  /\ s.phase.kind = "steady" => state'.phase.anchor = s.phase.anchor
  /\ s.phase.kind = "trial" => state'.phase.origin = s.phase.origin /\ state'.phase.ref = s.phase.ref
  /\ s.phase.kind = "settling" => state'.phase.then = s.phase.then

\* A run of moves down is over, and with it a trial, unless it was kept, at most at its origin.
Ends(s) ==
  /\ ~InRun(state'.phase)
  /\ state'.phase.kind = "settling" => state'.phase.then.anchor = NoLevel
  /\ reason' \notin {"trial:up", "trial:down"}
  /\ reason' = "kept" => s.phase.kind = "trial" /\ limit > s.phase.origin
  /\ s.phase.kind = "trial" /\ reason' \notin {"kept", "cut:queue"} => limit' <= s.phase.origin

KeepsDown(s, reading) ==
  /\ s.phase.kind = "trial" /\ ~(limit > s.phase.origin) /\ reason' = "kept"
  /\ state'.phase.kind = "steady" /\ state'.phase.anchor = s.phase.ref
  /\ reading + 1 >= s.phase.ref

Opens(s, reading) ==
  /\ s.phase.kind = "steady" /\ reading # NoLevel
  /\ state'.phase.kind = "trial" /\ state'.phase.origin = limit /\ limit' # limit
  /\ reason' = IF limit' > limit THEN "trial:up" ELSE "trial:down"
  /\ state'.phase.ref = IF limit' < limit /\ s.phase.anchor # NoLevel THEN s.phase.anchor ELSE reading

\* A cut: either it changes nothing but a trial's phase, or the window shrinks and drains.
LEMMA CutEffect ==
  ASSUME Bounds, NEW s \in StateType, NEW target \in Int, NEW why, NEW keep \in BOOLEAN,
         Cut(s, target, why, keep)
  PROVE  LET goal == IF s.phase.kind = "trial" /\ ~keep THEN SmallerOf(target, s.phase.origin) ELSE target
         IN /\ Safe(s) /\ ~InRun(state'.phase)
            /\ state'.phase.kind = "settling" => state'.phase.then.anchor = NoLevel
            /\ goal \in Int /\ limit' <= LargerOf(lo, goal)
            /\ reason' \in {"hold", why} /\ (reason' # "hold" => ~state'.armed)
            /\ limit' < limit => reason' = why
<1> DEFINE trial == s.phase.kind = "trial"
           then == IF trial THEN Failed(s.phase) ELSE Fresh
           goal == IF trial /\ ~keep THEN SmallerOf(target, s.phase.origin) ELSE target
           new == Clamp(s.ceiling, goal)
<1>1. trial => s.phase \in Trials /\ s.phase.origin \in Int
  BY PhaseKinds DEF StateType, Trials, Bounds
<1>2. then \in Steadies /\ then.anchor = NoLevel /\ then \in Phases /\ then.kind = "steady"
  BY <1>1, FailedSteady, FreshSteady DEF Phases, Steadies
<1>3. goal \in Int
  BY <1>1 DEF SmallerOf
<1>4. s.ceiling \in Nat
  BY DEF StateType, Bounds
<1> HIDE DEF goal
<1>5. new \in lo..hi /\ Under(s.ceiling, new) /\ new <= LargerOf(lo, goal)
  BY <1>3, <1>4, ClampRange
<1>6. \/ new >= limit /\ Decision(limit, "hold", [s EXCEPT !.phase = then])
      \/ new < limit /\ Decision(new, why, Settle(s, then))
  BY DEF Cut, goal
<1> HIDE DEF then, new
<1>7. CASE new >= limit /\ Decision(limit, "hold", [s EXCEPT !.phase = then])
  <2>1. limit' = limit /\ reason' = "hold" /\ state' = [s EXCEPT !.phase = then]
    BY <1>7 DEF Decision
  <2>2. state' \in StateType /\ state'.phase = then /\ state'.ceiling = s.ceiling /\ state'.armed = s.armed
    BY <1>2, <2>1, PhaseOnly
  <2>3. Below(s.ceiling) \in Int /\ LargerOf(lo, goal) \in Int /\ limit \in Int /\ new \in Int
    BY <1>3, <1>4, <1>5 DEF Below, LargerOf, Bounds
  <2>4. limit' <= LargerOf(lo, goal) /\ Under(s.ceiling, limit')
    BY <1>5, <1>7, <2>1, <2>3 DEF Under, LargerOf, Bounds
  <2>5. Safe(s)
    BY <1>2, <2>1, <2>2, <2>4 DEF Safe, Bounds
  <2>6. QED
    BY <1>2, <1>3, <2>1, <2>2, <2>3, <2>4, <2>5 DEF InRun, goal
<1>8. CASE new < limit /\ Decision(new, why, Settle(s, then))
  <2>1. limit' = new /\ reason' = why /\ state' = Settle(s, then)
    BY <1>8 DEF Decision
  <2>2. /\ state' \in StateType /\ state'.phase.kind = "settling" /\ state'.phase.then = then
        /\ ~state'.armed /\ state'.ceiling = s.ceiling
    BY <1>2, <2>1, SettleType
  <2>3. Safe(s)
    BY <1>5, <2>1, <2>2 DEF Safe
  <2>4. QED
    BY <1>2, <1>3, <1>5, <2>1, <2>2, <2>3 DEF InRun, goal
<1>9. QED
  BY <1>6, <1>7, <1>8

\* A cut that gives the window no leave to stay above a trial's origin.
LEMMA CutEnds ==
  ASSUME Bounds, NEW s \in StateType, NEW target \in Int, NEW why \in {"cut", "cut:stall"},
         Cut(s, target, why, FALSE)
  PROVE  Safe(s) /\ Ends(s) /\ reason' \in {"hold", why} /\ (reason' # "hold" => ~state'.armed)
<1> DEFINE goal == IF s.phase.kind = "trial" THEN SmallerOf(target, s.phase.origin) ELSE target
<1>1. /\ Safe(s) /\ ~InRun(state'.phase)
      /\ state'.phase.kind = "settling" => state'.phase.then.anchor = NoLevel
      /\ limit' <= LargerOf(lo, goal)
      /\ reason' \in {"hold", why} /\ (reason' # "hold" => ~state'.armed)
  BY CutEffect
<1>2. ASSUME s.phase.kind = "trial" PROVE limit' <= s.phase.origin
  <2>1. s.phase.origin \in lo..hi
    BY <1>2, PhaseKinds DEF StateType, Trials
  <2>2. limit' \in lo..hi
    BY <1>1 DEF Safe
  <2>3. goal = SmallerOf(target, s.phase.origin)
    BY <1>2
  <2>4. QED
    BY <1>1, <2>1, <2>2, <2>3 DEF SmallerOf, LargerOf, Bounds
<1>3. QED
  BY <1>1, <1>2 DEF Ends

LEMMA HalfTheWindow ==
  ASSUME Bounds
  PROVE  limit \div 2 \in Nat /\ limit \div 2 <= limit /\ (limit > 1 => limit \div 2 >= 1)
BY DEF Bounds

LEMMA BackpressureEnds ==
  ASSUME Bounds, NEW s \in StateType, CutForBackpressure(s)
  PROVE  Safe(s) /\ Ends(s) /\ reason' \in {"hold", "cut"}
<1> DEFINE lowest == IF s.ceiling = NoCeiling THEN limit ELSE SmallerOf(limit, s.ceiling)
           r == [s EXCEPT !.ceiling = lowest]
           known == IF s.ceiling # NoCeiling THEN s.ceiling ELSE s.seen
           atKnown == known # 0 /\ Below(known) <= limit /\ limit <= Above(known)
           target == IF atKnown THEN Below(limit) ELSE limit \div 2
<1>1. lowest \in 0..hi
  BY DEF StateType, Bounds, SmallerOf
<1>2. Below(limit) \in Int /\ limit \div 2 \in Int
  BY HalfTheWindow DEF Below, LargerOf, Bounds
<1>3. target \in Int
  BY <1>2
<1>4. Cut(r, target, "cut", FALSE)
  BY DEF CutForBackpressure
<1> HIDE DEF lowest, target
<1>5. r \in StateType /\ r.phase = s.phase /\ r.armed = s.armed
  BY <1>1 DEF StateType
<1> HIDE DEF r
<1>6. Safe(r) /\ Ends(r) /\ reason' \in {"hold", "cut"}
  BY <1>3, <1>4, <1>5, CutEnds
<1>7. QED
  BY <1>5, <1>6 DEF Safe, Ends

LEMMA KVEnds ==
  ASSUME Bounds, NEW s \in StateType, CutForKV(s)
  PROVE  Safe(s) /\ Ends(s) /\ reason' \in {"hold", "cut"}
<1>1. limit \div 2 \in Int /\ "cut" \in {"cut", "cut:stall"}
  BY HalfTheWindow
<1>2. Cut(s, limit \div 2, "cut", FALSE)
  BY DEF CutForKV
<1>3. QED
  BY <1>1, <1>2, CutEnds

LEMMA StallEnds ==
  ASSUME Bounds, NEW s \in StateType, NEW o \in Obs, CutForStall(s, o)
  PROVE  /\ Safe(s) /\ Ends(s) /\ reason' \in {"hold", "cut:stall"}
         /\ reason' = "cut:stall" => ~state'.armed
<1>1. limit \div 2 \in Int /\ "cut:stall" \in {"cut", "cut:stall"}
  BY HalfTheWindow
<1>2. Cut(s, limit \div 2, "cut:stall", FALSE)
  BY DEF CutForStall
<1>3. QED
  BY <1>1, <1>2, CutEnds

\* The queue rule cuts by at least one request, so that it leaves the window only at the minimum.
LEMMA QueueEnds ==
  ASSUME Bounds, NEW s \in StateType, CutForQueue(s)
  PROVE  Safe(s) /\ Ends(s) /\ reason' \in {"hold", "cut:queue"}
<1>1. PICK n \in Excess : Cut(s, limit - SmallerOf(LargerOf(Step, n), limit \div 2), "cut:queue", TRUE)
  BY DEF CutForQueue
<1> DEFINE less == SmallerOf(LargerOf(Step, n), limit \div 2)
           target == limit - less
<1>2. limit \div 2 \in Nat /\ (limit > 1 => limit \div 2 >= 1)
  BY HalfTheWindow
<1>3. Step \in Nat \ {0} /\ n \in Nat \ {0}
  BY ControllerAssumption
<1>4. less \in Nat /\ (limit > 1 => less >= 1)
  BY <1>2, <1>3 DEF SmallerOf, LargerOf
<1> HIDE DEF less
<1>5. limit \in Nat /\ target \in Int /\ (limit > 1 => target < limit)
  BY <1>4 DEF Bounds
<1>6. Cut(s, target, "cut:queue", TRUE)
  BY <1>1 DEF less
<1> HIDE DEF target
<1>7. /\ Safe(s) /\ ~InRun(state'.phase)
      /\ state'.phase.kind = "settling" => state'.phase.then.anchor = NoLevel
      /\ limit' <= LargerOf(lo, target)
      /\ reason' \in {"hold", "cut:queue"} /\ (limit' < limit => reason' = "cut:queue")
  <2>1. TRUE \in BOOLEAN
    OBVIOUS
  <2>2. QED
    BY <1>5, <1>6, <2>1, CutEffect
<1>8. ASSUME s.phase.kind = "trial", reason' \notin {"kept", "cut:queue"} PROVE limit' <= s.phase.origin
  <2>1. s.phase.origin \in lo..hi
    BY <1>8, PhaseKinds DEF StateType, Trials
  <2>2. limit' \in lo..hi /\ ~(limit' < limit)
    BY <1>7, <1>8 DEF Safe
  <2>3. limit' <= lo \/ limit = 1
    BY <1>5, <1>7, <2>2 DEF LargerOf, Bounds
  <2>4. limit = 1 => lo = 1
    BY DEF Bounds
  <2>5. limit' < 2 \/ limit' <= lo
    <3>1. limit = 1 => limit' <= LargerOf(1, target)
      BY <1>7, <2>4
    <3>2. target <= limit
      BY <1>4, <1>5 DEF target
    <3>3. QED
      BY <1>5, <2>2, <2>3, <3>1, <3>2 DEF LargerOf, Bounds
  <2>6. QED
    BY <2>1, <2>2, <2>5 DEF Bounds
<1>9. QED
  BY <1>7, <1>8 DEF Ends

LEMMA SteadyHolds ==
  ASSUME Bounds, NEW s \in StateType, Under(s.ceiling, limit), Decision(limit, "hold", s)
  PROVE  Safe(s) /\ Holds(s)
BY DEF Safe, Holds, Decision, Bounds

-----------------------------------------------------------------------------
(* The search.                                                              *)

\* The evidence window starts over, in the phase q.
LEMMA UsedUp ==
  ASSUME NEW s \in StateType, NEW q \in Phases
  PROVE  LET u == [s EXCEPT !.samples = 0, !.rows = FALSE, !.phase = q] IN
         u \in StateType /\ u.phase = q /\ u.ceiling = s.ceiling /\ u.armed = s.armed
<1> DEFINE u == [s EXCEPT !.samples = 0, !.rows = FALSE, !.phase = q]
<1>1. \A n, r : [s EXCEPT !.samples = n, !.rows = r, !.phase = q]
        = [phase |-> q, ceiling |-> s.ceiling, seen |-> s.seen, samples |-> n, rows |-> r,
           latency |-> s.latency, acked |-> s.acked, silent |-> s.silent, armed |-> s.armed]
  BY NewUse
<1>2. u = [phase |-> q, ceiling |-> s.ceiling, seen |-> s.seen, samples |-> 0, rows |-> FALSE,
           latency |-> s.latency, acked |-> s.acked, silent |-> s.silent, armed |-> s.armed]
  BY <1>1, Zenon
<1> HIDE DEF u
<1>3. 0 \in 0..2
  OBVIOUS
<1>4. u \in StateType
  BY <1>2, <1>3 DEF StateType
<1>5. QED
  BY <1>2, <1>4 DEF u

LEMMA JudgeEffect ==
  ASSUME Bounds, NEW s \in StateType, Under(s.ceiling, limit), NEW reading \in Levels, JudgeTrial(s, reading)
  PROVE  /\ Safe(s) /\ reason' \in {"hold", "kept", "revert"}
         /\ Holds(s) \/ Ends(s) \/ KeepsDown(s, reading)
<1> DEFINE t == s.phase
           up == limit > t.origin
<1>1. t.kind = "trial" /\ t \in Trials
  BY PhaseKinds DEF JudgeTrial, StateType
<1>2. /\ t.origin \in lo..hi /\ t.ref \in Levels /\ t.move \in Moves /\ s.ceiling \in Nat
      /\ limit \in lo..hi /\ lo \in Nat \ {0} /\ hi \in Nat
  BY <1>1 DEF Trials, StateType, Bounds
<1> DEFINE back == Clamp(s.ceiling, t.origin)
           q == IF up THEN Fresh ELSE Steady(1, t.move, t.ref)
           kept == [s EXCEPT !.samples = 0, !.rows = FALSE, !.phase = q]
<1>3. \/ Decision(limit, "hold", s)
      \/ /\ Decision(limit, "kept", kept)
         /\ ~up => reading > 0 /\ reading + 1 >= t.ref
      \/ Decision(back, "revert", Settle(s, Failed(t)))
  BY DEF JudgeTrial
<1>4. CASE Decision(limit, "hold", s)
  BY <1>4, SteadyHolds DEF Holds
<1>5. CASE Decision(limit, "kept", kept) /\ (~up => reading > 0 /\ reading + 1 >= t.ref)
  <2>1. limit' = limit /\ reason' = "kept" /\ state' = kept
    BY <1>5 DEF Decision
  <2>2. q \in Steadies /\ q.kind = "steady" /\ q.anchor = (IF up THEN NoLevel ELSE t.ref)
    BY <1>2, FreshSteady, ControllerAssumption DEF Steady, Steadies, Levels
  <2> HIDE DEF q, t
  <2>3. kept \in StateType /\ kept.phase = q /\ kept.ceiling = s.ceiling /\ kept.armed = s.armed
    BY <2>2, UsedUp DEF Phases
  <2> HIDE DEF kept
  <2>4. Safe(s)
    BY <1>2, <2>1, <2>2, <2>3 DEF Safe
  <2>5. up => Ends(s)
    BY <1>1, <2>1, <2>2, <2>3 DEF Ends, InRun, t
  <2>6. ~up => KeepsDown(s, reading)
    BY <1>1, <1>5, <2>1, <2>2, <2>3 DEF KeepsDown, t
  <2>7. QED
    BY <2>1, <2>4, <2>5, <2>6
<1>6. CASE Decision(back, "revert", Settle(s, Failed(t)))
  <2>1. limit' = back /\ reason' = "revert" /\ state' = Settle(s, Failed(t))
    BY <1>6 DEF Decision
  <2>2. Failed(t) \in Steadies /\ Failed(t).anchor = NoLevel
    BY <1>1, FailedSteady
  <2>3. /\ state' \in StateType /\ state'.phase.kind = "settling" /\ state'.phase.then = Failed(t)
        /\ ~state'.armed /\ state'.ceiling = s.ceiling
    BY <2>1, <2>2, SettleType
  <2>4. back \in lo..hi /\ Under(s.ceiling, back) /\ back <= LargerOf(lo, t.origin)
    <3>1. t.origin \in Int
      BY <1>2
    <3>2. QED
      BY <1>2, <3>1, ClampRange
  <2>5. limit' <= t.origin
    BY <1>2, <2>1, <2>4 DEF LargerOf
  <2>6. QED
    BY <2>1, <2>2, <2>3, <2>4, <2>5 DEF Safe, Ends, InRun
<1>7. QED
  BY <1>3, <1>4, <1>5, <1>6

LEMMA MovesAreRatios ==
  ASSUME NEW m \in Moves
  PROVE  Times[m] \in Nat \ {0} /\ Over[m] \in Nat \ {0}
<1>1. m \in Int /\ 0 <= m /\ m <= 4
  BY DEF Moves
<1>2. m = 0 \/ m = 1 \/ m = 2 \/ m = 3 \/ m = 4
  BY <1>1
<1>3. Times[m] = CASE m = 0 -> 2 [] m = 1 -> 4 [] m = 2 -> 3 [] m = 3 -> 5 [] m = 4 -> 7
  BY DEF Times
<1>4. Over[m] = CASE m < 2 -> 1 [] m = 2 -> 2 [] m = 3 -> 4 [] m = 4 -> 8
  BY DEF Over
<1>5. Times[m] \in {2, 3, 4, 5, 7}
  BY <1>2, <1>3
<1>6. Over[m] \in {1, 2, 4, 8}
  BY <1>2, <1>4
<1>7. QED
  BY <1>5, <1>6

LEMMA TargetInBounds ==
  ASSUME Bounds, NEW s \in StateType, s.phase \in Steadies
  PROVE  Target(s) \in lo..hi /\ Under(s.ceiling, Target(s))
<1> DEFINE m == s.phase.move
           goal == Round(limit * Times[m], Over[m])
           new == Clamp(s.ceiling, goal)
<1>1. m \in Moves
  BY DEF Steadies
<1>2. limit * Times[m] \in Nat /\ Over[m] \in Nat \ {0}
  BY <1>1, MovesAreRatios DEF Bounds
<1>3. goal \in Int
  BY <1>2, RoundInt
<1>4. s.ceiling \in Nat /\ s.seen \in Nat
  BY DEF StateType, Bounds
<1> HIDE DEF goal
<1>5. new \in lo..hi /\ Under(s.ceiling, new)
  BY <1>3, <1>4, ClampRange
<1>6. Target(s) = IF s.ceiling = NoCeiling /\ s.seen # 0 /\ limit <= s.seen /\ s.seen < new
                    THEN SmallerOf(new, Above(s.seen)) ELSE new
  BY DEF Target, goal
<1> HIDE DEF new
<1>7. Above(s.seen) \in Int /\ Above(s.seen) >= s.seen + 1
  <2>1. (s.seen * 9) \div 8 \in Int
    BY <1>4
  <2>2. QED
    BY <1>4, <2>1 DEF Above, LargerOf
<1>8. CASE s.ceiling = NoCeiling /\ s.seen # 0 /\ limit <= s.seen /\ s.seen < new
  BY <1>4, <1>5, <1>6, <1>7, <1>8 DEF Under, SmallerOf, Bounds
<1>9. CASE ~(s.ceiling = NoCeiling /\ s.seen # 0 /\ limit <= s.seen /\ s.seen < new)
  BY <1>5, <1>6, <1>9
<1>10. QED
  BY <1>8, <1>9

\* The three ways in which a steady phase waits on, and what a trial begins with.
LEMMA SteadyWaits ==
  ASSUME NEW p \in Steadies
  PROVE  /\ p.waits + 1 < p.backoff => [p EXCEPT !.waits = @ + 1] \in Steadies
         /\ \A j \in Jitters(p) : j > 0 => [p EXCEPT !.jitter = j - 1] \in Steadies
         /\ Skip(p) \in Steadies
         /\ [p EXCEPT !.waits = @ + 1].anchor = p.anchor
         /\ \A j : [p EXCEPT !.jitter = j].anchor = p.anchor
         /\ Skip(p).anchor = p.anchor
<1>1. p.waits \in 0..MaxBackoff /\ p.backoff \in 1..MaxBackoff /\ p.move \in Moves
      /\ p.jitter \in 0..JitterTicks \cup {NoLevel} /\ MaxBackoff \in Nat /\ JitterTicks \in Nat
  BY ControllerAssumption DEF Steadies
<1>2. p.waits + 1 < p.backoff => p.waits + 1 \in 0..MaxBackoff
  BY <1>1
<1>3. ASSUME NEW j \in Jitters(p), j > 0 PROVE j - 1 \in 0..JitterTicks
  BY <1>1, <1>3 DEF Jitters, NoLevel
<1>4. 0 \in 0..MaxBackoff /\ Following(p.move) \in Moves
  BY <1>1, NextMove
<1>5. p.waits + 1 < p.backoff => [p EXCEPT !.waits = @ + 1] \in Steadies
  BY <1>2 DEF Steadies
<1>6. \A j \in Jitters(p) : j > 0 => [p EXCEPT !.jitter = j - 1] \in Steadies
  BY <1>3 DEF Steadies
<1>7. Skip(p) \in Steadies /\ Skip(p).anchor = p.anchor
  BY <1>4 DEF Skip, Steadies
<1>8. QED
  BY <1>5, <1>6, <1>7 DEF Steadies

LEMMA OpenEffect ==
  ASSUME Bounds, NEW s \in StateType, Under(s.ceiling, limit), NEW reading \in Levels, OpenTrial(s, reading)
  PROVE  /\ Safe(s) /\ reason' \in {"hold", "trial:up", "trial:down"}
         /\ Holds(s) \/ Opens(s, reading)
<1> DEFINE p == s.phase
           new == Target(s)
           used == [s EXCEPT !.samples = 0, !.rows = FALSE]
           q == [kind |-> "trial", origin |-> limit, ref |-> Ref(s, reading), move |-> p.move,
                 backoff |-> p.backoff, latency |-> s.latency, ticks |-> 0]
<1>1. p.kind = "steady" /\ p \in Steadies /\ limit \in lo..hi
  BY PhaseKinds DEF OpenTrial, StateType, Bounds
<1>2. \/ Decision(limit, "hold", s)
      \/ p.waits + 1 < p.backoff /\ Decision(limit, "hold", [used EXCEPT !.phase.waits = @ + 1])
      \/ \E j \in Jitters(p) : j > 0 /\ Decision(limit, "hold", [s EXCEPT !.phase.jitter = j - 1])
      \/ Decision(limit, "hold", [used EXCEPT !.phase = Skip(p)])
      \/ /\ new # limit /\ reading > 0
         /\ Decision(new, IF new > limit THEN "trial:up" ELSE "trial:down", [used EXCEPT !.phase = q])
  BY DEF OpenTrial
<1>3. ASSUME NEW r \in Steadies, r.anchor = p.anchor,
             \/ Decision(limit, "hold", [s EXCEPT !.samples = 0, !.rows = FALSE, !.phase = r])
             \/ Decision(limit, "hold", [s EXCEPT !.phase = r])
      PROVE  Safe(s) /\ Holds(s)
  <2>1. r \in Phases /\ r.kind = "steady" /\ limit' = limit /\ reason' = "hold"
    BY <1>3 DEF Phases, Steadies, Decision
  <2>2. state' \in StateType /\ state'.phase = r /\ state'.ceiling = s.ceiling /\ state'.armed = s.armed
    <3>1. CASE state' = [s EXCEPT !.samples = 0, !.rows = FALSE, !.phase = r]
      BY <2>1, <3>1, UsedUp
    <3>2. CASE state' = [s EXCEPT !.phase = r]
      BY <2>1, <3>2, PhaseOnly
    <3>3. QED
      BY <1>3, <3>1, <3>2 DEF Decision
  <2>3. QED
    BY <1>1, <1>3, <2>1, <2>2 DEF Safe, Holds
<1>4. CASE Decision(limit, "hold", s)
  BY <1>4, SteadyHolds DEF Holds
<1>5. CASE p.waits + 1 < p.backoff /\ Decision(limit, "hold", [used EXCEPT !.phase.waits = @ + 1])
  <2> DEFINE r == [p EXCEPT !.waits = @ + 1]
  <2>1. [used EXCEPT !.phase.waits = @ + 1] = [s EXCEPT !.samples = 0, !.rows = FALSE, !.phase = r]
    BY DEF StateType
  <2>2. r \in Steadies /\ r.anchor = p.anchor
    BY <1>1, <1>5, SteadyWaits
  <2> HIDE DEF r
  <2>3. QED
    BY <1>3, <1>5, <2>1, <2>2 DEF Holds
<1>6. CASE \E j \in Jitters(p) : j > 0 /\ Decision(limit, "hold", [s EXCEPT !.phase.jitter = j - 1])
  <2>1. PICK j \in Jitters(p) : j > 0 /\ Decision(limit, "hold", [s EXCEPT !.phase.jitter = j - 1])
    BY <1>6
  <2> DEFINE r == [p EXCEPT !.jitter = j - 1]
  <2>2. [s EXCEPT !.phase.jitter = j - 1] = [s EXCEPT !.phase = r]
    BY DEF StateType
  <2>3. r \in Steadies /\ r.anchor = p.anchor
    BY <1>1, <2>1, SteadyWaits
  <2> HIDE DEF r
  <2>4. QED
    BY <1>3, <2>1, <2>2, <2>3 DEF Holds
<1>7. CASE Decision(limit, "hold", [used EXCEPT !.phase = Skip(p)])
  <2>1. [used EXCEPT !.phase = Skip(p)] = [s EXCEPT !.samples = 0, !.rows = FALSE, !.phase = Skip(p)]
    BY DEF StateType
  <2>2. Skip(p) \in Steadies /\ Skip(p).anchor = p.anchor
    BY <1>1, SteadyWaits
  <2>3. QED
    BY <1>3, <1>7, <2>1, <2>2 DEF Holds
<1>8. CASE /\ new # limit /\ reading > 0
           /\ Decision(new, IF new > limit THEN "trial:up" ELSE "trial:down", [used EXCEPT !.phase = q])
  <2>1. new \in lo..hi /\ Under(s.ceiling, new)
    BY <1>1, TargetInBounds
  <2>2. Ref(s, reading) = (IF new < limit /\ p.anchor # NoLevel THEN p.anchor ELSE reading)
        /\ Ref(s, reading) \in Levels
    BY <1>1 DEF Ref, Steadies
  <2>3. 0 \in 0..LargerOf(3, 2 * MaxLatency * hi)
    <3>1. 2 * MaxLatency * hi \in Nat
      BY ControllerAssumption DEF Bounds
    <3>2. QED
      BY <3>1 DEF LargerOf
  <2>4. q \in Trials
    BY <1>1, <2>2, <2>3 DEF Steadies, StateType, Trials
  <2>5. q \in Phases /\ q.kind = "trial" /\ q.origin = limit /\ q.ref = Ref(s, reading)
    BY <2>4 DEF Phases
  <2> HIDE DEF q, new
  <2>6. [used EXCEPT !.phase = q] = [s EXCEPT !.samples = 0, !.rows = FALSE, !.phase = q]
    BY DEF StateType
  <2>7. limit' = new /\ reason' = (IF new > limit THEN "trial:up" ELSE "trial:down")
        /\ state' = [s EXCEPT !.samples = 0, !.rows = FALSE, !.phase = q]
    BY <1>8, <2>6 DEF Decision
  <2>8. state' \in StateType /\ state'.phase = q /\ state'.ceiling = s.ceiling /\ state'.armed = s.armed
    BY <2>5, <2>7, UsedUp
  <2>9. reading # NoLevel
    BY <1>8 DEF NoLevel
  <2>10. Safe(s) /\ Opens(s, reading)
    BY <1>1, <1>8, <2>1, <2>2, <2>5, <2>7, <2>8, <2>9 DEF Safe, Opens
  <2>11. QED
    BY <2>7, <2>10
<1>9. QED
  BY <1>2, <1>4, <1>5, <1>6, <1>7, <1>8

-----------------------------------------------------------------------------
(* A tick.                                                                  *)

\* What a tick with the observation o did: s is the observed state, and
\* `reading` the level it was judged by.
Ticked(o, s, reading) ==
  /\ Safe(s)
  /\ \/ Holds(s) \/ Ends(s)
     \/ KeepsDown(s, reading) \/ Opens(s, reading)
  /\ reason' = "cut:stall" => Stalled(s, o) /\ ~state'.armed
  /\ lo' = lo /\ hi' = hi
  /\ \E calm : Remember(o, reading, calm)

LEMMA RuleTicks ==
  ASSUME Bounds, NEW o \in Obs, NEW s \in StateType, Under(s.ceiling, limit), Rules(s, o)
  PROVE  \E reading \in Levels : Ticked(o, s, reading)
<1>1. NoLevel \in Levels
  BY DEF Levels
<1>2. CASE Cooldown(s) /\ Remember(o, NoLevel, TRUE)
  <2>1. Safe(s) /\ Holds(s)
    BY <1>2, SteadyHolds DEF Cooldown
  <2>2. Ticked(o, s, NoLevel)
    BY <1>2, <2>1 DEF Ticked, Holds, Remember
  <2>3. QED
    BY <1>1, <2>2
<1>3. CASE /\ \/ CutForBackpressure(s) \/ CutForKV(s) \/ CutForStall(s, o)
              \/ ~Stalled(s, o) /\ o.supply = "starved" /\ HoldInputBound(s)
              \/ ~Stalled(s, o) /\ o.supply # "starved" /\ (CutForQueue(s) \/ HoldSteady(s))
           /\ Remember(o, NoLevel, FALSE)
  <2>1. CASE CutForBackpressure(s)
    BY <1>1, <1>3, <2>1, BackpressureEnds DEF Ticked, Remember
  <2>2. CASE CutForKV(s)
    BY <1>1, <1>3, <2>2, KVEnds DEF Ticked, Remember
  <2>3. CASE CutForStall(s, o)
    <3>1. /\ Safe(s) /\ Ends(s) /\ Stalled(s, o)
          /\ reason' = "cut:stall" => ~state'.armed
      BY <2>3, StallEnds DEF CutForStall
    <3>2. QED
      BY <1>1, <1>3, <3>1 DEF Ticked, Remember
  <2>4. CASE HoldInputBound(s) \/ HoldSteady(s)
    <3>1. Safe(s) /\ Holds(s)
      BY <2>4, SteadyHolds DEF HoldInputBound, HoldSteady
    <3>2. QED
      BY <1>1, <1>3, <3>1 DEF Ticked, Remember, Holds
  <2>5. CASE CutForQueue(s)
    BY <1>1, <1>3, <2>5, QueueEnds DEF Ticked, Remember
  <2>6. QED
    BY <1>3, <2>1, <2>2, <2>3, <2>4, <2>5
<1>4. CASE Search(s, o)
  <2>1. PICK reading \in Readings(s) :
          /\ JudgeTrial(s, reading) \/ (Uses(o) /\ OpenTrial(s, reading))
          /\ Remember(o, reading, reading > 0 \/ Readings(s) = {NoLevel})
    BY <1>4 DEF Search
  <2>2. reading \in Levels
    BY DEF Readings, Levels
  <2>3. CASE JudgeTrial(s, reading)
    BY <2>1, <2>2, <2>3, JudgeEffect DEF Ticked, Remember
  <2>4. CASE OpenTrial(s, reading)
    BY <2>1, <2>2, <2>4, OpenEffect DEF Ticked, Remember
  <2>5. QED
    BY <2>1, <2>3, <2>4
<1>5. QED
  BY <1>2, <1>3, <1>4 DEF Rules

\* A tick starts from the state it finds, or from that state with the ceiling released.
LEMMA NextTicks ==
  ASSUME CInv, Next
  PROVE  \E s \in StateType, o \in Obs, reading \in Levels :
           /\ SameRun(state.phase, s.phase)
           /\ s.armed => state.armed \/ (Done(o) /\ s.phase.kind # "settling")
           /\ s.silent > 0 => ~Done(o)
           /\ Ticked(o, s, reading)
<1>1. PICK known \in StateType :
        /\ known.phase = state.phase /\ known.armed = state.armed
        /\ Under(known.ceiling, limit) /\ Decides(known)
  <2>1. CASE Tick
    BY <2>1 DEF Tick, CInv
  <2>2. CASE Release
    <3>1. Decides(Released(state)) /\ state \in StateType
      BY <2>2 DEF Release, CInv
    <3>2. /\ Released(state) \in StateType /\ Released(state).phase = state.phase
          /\ Released(state).armed = state.armed /\ Released(state).ceiling = NoCeiling
      <4>1. NoCeiling \in 0..hi /\ state.ceiling \in 0..hi
        BY DEF CInv, Bounds, StateType, NoCeiling
      <4>2. QED
        BY <3>1, <4>1 DEF Released, StateType
    <3>3. Under(NoCeiling, limit)
      BY DEF Under
    <3>4. QED
      BY <3>1, <3>2, <3>3
  <2>3. QED
    BY <2>1, <2>2 DEF Next
<1>2. PICK o \in Obs : Rules(Observed(known, o), o)
  BY <1>1 DEF Decides
<1> DEFINE s == Observed(known, o)
<1>3. /\ s \in StateType /\ s.ceiling = known.ceiling /\ SameRun(state.phase, s.phase)
      /\ s.armed => state.armed \/ (Done(o) /\ s.phase.kind # "settling")
      /\ s.silent > 0 => ~Done(o)
  BY <1>1, ObservedIs DEF CInv
<1>4. Rules(s, o) /\ Bounds /\ Under(s.ceiling, limit)
  BY <1>1, <1>2, <1>3 DEF CInv
<1> HIDE DEF s
<1>5. PICK reading \in Levels : Ticked(o, s, reading)
  BY <1>3, <1>4, RuleTicks
<1>6. QED
  BY <1>1, <1>3, <1>5

\* What a run of moves down was measured against carries through the observation.
LEMMA SameBest ==
  ASSUME NEW p \in Phases, NEW q \in Phases, NEW best, NEW w, SameRun(p, q), RunOf(best, w, p)
  PROVE  RunOf(best, w, q)
BY PhaseKinds DEF SameRun, RunOf, Phases, Steadies, Settlings, Trials

LEMMA CInvInit == Init => CInv
<1> SUFFICES ASSUME Init PROVE CInv
  OBVIOUS
<1>1. PICK h \in HardLimits, start \in Starts :
        /\ lo = (IF h = 0 THEN MinLimit ELSE SmallerOf(MinLimit, h))
        /\ hi = (IF h = 0 THEN MaxLimit ELSE SmallerOf(MaxLimit, h))
        /\ limit = SmallerOf(hi, LargerOf(lo, start))
  BY DEF Init
<1>2. h \in Nat /\ start \in Nat
  BY ControllerAssumption
<1>3. Bounds
  BY <1>1, <1>2, ControllerAssumption DEF Bounds, SmallerOf, LargerOf
<1>4. state = [phase |-> Fresh, ceiling |-> NoCeiling, seen |-> 0, samples |-> 0, rows |-> FALSE,
               latency |-> Unknown, acked |-> FALSE, silent |-> 0, armed |-> FALSE]
  BY DEF Init
<1>5. Fresh \in Phases /\ Fresh.kind = "steady" /\ Fresh.anchor = NoLevel
  BY FreshSteady DEF Phases, Steadies
<1>6. 0 \in 0..hi /\ 0 \in 0..MostSilent /\ 0 \in 0..MaxLatency
  BY <1>3, ControllerAssumption DEF Bounds, MostSilent, LargerOf
<1>7. state \in StateType
  BY <1>4, <1>5, <1>6 DEF StateType, NoCeiling, Unknown
<1>8. history.best = NoLevel
  BY DEF Init
<1>9. QED
  BY <1>3, <1>4, <1>5, <1>7, <1>8 DEF CInv, Under, RunOf

\* A step's answered and best, from what the tick did.
LEMMA CInvNext ==
  ASSUME CInv, Next
  PROVE  CInv'
<1>1. PICK s \in StateType, o \in Obs, reading \in Levels :
           /\ SameRun(state.phase, s.phase)
           /\ s.armed => state.armed \/ (Done(o) /\ s.phase.kind # "settling")
           /\ s.silent > 0 => ~Done(o)
           /\ Ticked(o, s, reading)
  BY NextTicks
<1>2. lo' = lo /\ hi' = hi /\ Safe(s)
  BY <1>1 DEF Ticked
<1>3. Bounds' /\ (state \in StateType)' /\ Under(state.ceiling, limit)'
  BY <1>2 DEF CInv, Bounds, Safe, Under, StateType, Phases, Trials, Steadies, Settlings
<1>4. PICK calm : Remember(o, reading, calm)
  BY <1>1 DEF Ticked
<1>5. /\ history'.answered = (IF reason' = "cut:stall" THEN FALSE
                              ELSE history.answered \/ (Done(o) /\ state'.phase.kind # "settling"))
      /\ history'.best = (IF reason' = "trial:down" /\ history.best = NoLevel THEN reading
                          ELSE IF reason' = "trial:up" \/ ~InRun(state'.phase) THEN NoLevel
                          ELSE history.best)
  BY <1>4 DEF Remember
<1>6. (state.armed => history.answered)'
  BY <1>1, <1>5 DEF CInv, Ticked, Safe
<1>7. RunOf(history.best, limit, s.phase)
  <2>1. state.phase \in Phases /\ s.phase \in Phases
    BY DEF CInv, StateType
  <2>2. QED
    BY <1>1, <2>1, SameBest DEF CInv
<1>8. state'.phase \in Phases
  BY <1>2 DEF Safe, StateType
<1>9. /\ limit \in Int /\ limit' \in Int
      /\ s.phase.kind = "trial" => s.phase.origin \in Int
  BY <1>2, PhaseKinds DEF CInv, Bounds, Safe, StateType, Trials
<1>10. RunOf(history.best, limit, state.phase)'
  <2>1. CASE Holds(s)
    BY <1>5, <1>7, <1>8, <2>1, PhaseKinds DEF Holds, RunOf, InRun
  <2>2. CASE Ends(s)
    BY <1>5, <1>7, <1>8, <2>2, PhaseKinds DEF Ends, RunOf, InRun
  <2>3. CASE KeepsDown(s, reading)
    BY <1>5, <1>7, <1>8, <1>9, <2>3 DEF KeepsDown, RunOf, InRun
  <2>4. CASE Opens(s, reading)
    BY <1>5, <1>7, <1>8, <1>9, <2>4 DEF Opens, RunOf, InRun
  <2>5. QED
    BY <1>1, <2>1, <2>2, <2>3, <2>4 DEF Ticked
<1>11. QED
  BY <1>3, <1>6, <1>10 DEF CInv

-----------------------------------------------------------------------------
(* The theorems.                                                            *)

LEMMA CInvStutter == CInv /\ UNCHANGED vars => CInv'
BY DEF CInv, vars, Bounds, Under, RunOf, StateType, Phases, Trials, Steadies, Settlings

\* The invariant of the controller, whatever the bounds, the steps and the order of its rules.
THEOREM ControllerInvariant == Spec => []CInv
<1>1. CInv /\ [Next]_vars => CInv'
  BY CInvNext, CInvStutter
<1>2. QED
  BY CInvInit, <1>1, PTL DEF Spec

\* The window keeps within the bounds of begin(), and under a ceiling while one stands, over
\* every sequence of rules (clamp).
THEOREM WindowAlwaysBounded == Spec => []WindowBounded
<1>1. CInv => WindowBounded
  <2> SUFFICES ASSUME CInv PROVE WindowBounded
    OBVIOUS
  <2>1. TypeOK
    BY DEF CInv, Bounds, StateType, Phases, TypeOK
  <2>2. CeilingRespected
    BY DEF CInv, Under, CeilingRespected
  <2>3. QED
    BY <2>1, <2>2 DEF WindowBounded
<1>2. QED
  BY <1>1, ControllerInvariant, PTL

\* The stall rule cuts once for each time the endpoint answered: the evidence that armed it
\* came after the cut before it, however many ticks and rules lie between.
THEOREM StallCutsOnce == Spec => OneStallPerEpisode
<1>1. ASSUME CInv, Next, reason' = "cut:stall" PROVE history.answered
  <2>1. PICK s \in StateType, o \in Obs, reading \in Levels :
           /\ SameRun(state.phase, s.phase)
           /\ s.armed => state.armed \/ (Done(o) /\ s.phase.kind # "settling")
           /\ s.silent > 0 => ~Done(o)
           /\ Ticked(o, s, reading)
    BY <1>1, NextTicks
  <2>2. s.armed /\ s.silent >= Patience(o)
    BY <1>1, <2>1 DEF Ticked, Stalled
  <2>3. Patience(o) > 0 /\ Patience(o) \in Int /\ s.silent \in Int
    BY ObsIs, ControllerAssumption DEF Patience, LargerOf, StateType, MostSilent
  <2>4. s.silent > 0
    BY <2>2, <2>3
  <2>5. QED
    BY <1>1, <2>1, <2>2, <2>4 DEF CInv
<1>2. CInv /\ [Next]_vars => [reason' = "cut:stall" => history.answered]_vars
  BY <1>1
<1>3. QED
  BY <1>2, ControllerInvariant, PTL DEF Spec, OneStallPerEpisode

\* A trial that ends by a revert or by a cut other than the queue's leaves the window at most where
\* it was before the trial.
THEOREM TrialsGoBack == Spec => FailedTrialGoesBack
<1>1. ASSUME CInv, Next, state.phase.kind = "trial", state'.phase.kind # "trial",
             reason' \notin {"kept", "cut:queue"}
      PROVE  limit' <= state.phase.origin
  <2>1. PICK s \in StateType, o \in Obs, reading \in Levels :
           /\ SameRun(state.phase, s.phase)
           /\ s.armed => state.armed \/ (Done(o) /\ s.phase.kind # "settling")
           /\ s.silent > 0 => ~Done(o)
           /\ Ticked(o, s, reading)
    BY <1>1, NextTicks
  <2>2. s.phase.kind = "trial" /\ s.phase.origin = state.phase.origin
    BY <1>1, <2>1 DEF SameRun
  <2>3. Ends(s)
    BY <1>1, <2>1, <2>2 DEF Ticked, Holds, KeepsDown, Opens
  <2>4. QED
    BY <1>1, <2>2, <2>3 DEF Ends
<1>2. CInv /\ [Next]_vars
        => [state.phase.kind = "trial" /\ state'.phase.kind # "trial"
              /\ reason' \notin {"kept", "cut:queue"} => limit' <= state.phase.origin]_vars
  BY <1>1
<1>3. QED
  BY <1>2, ControllerInvariant, PTL DEF Spec, FailedTrialGoesBack

\* A run of moves down of any length is kept against the level it began at: small losses do
\* not add up.
THEOREM LossesDontAdd == Spec => SmallLossesDontAdd
<1>1. ASSUME CInv, Next, reason' = "kept", history.best # NoLevel
      PROVE  history'.judged + 1 >= history.best
  <2>1. PICK s \in StateType, o \in Obs, reading \in Levels :
           /\ SameRun(state.phase, s.phase)
           /\ s.armed => state.armed \/ (Done(o) /\ s.phase.kind # "settling")
           /\ s.silent > 0 => ~Done(o)
           /\ Ticked(o, s, reading)
    BY <1>1, NextTicks
  <2>2. RunOf(history.best, limit, s.phase)
    <3>1. state.phase \in Phases /\ s.phase \in Phases
      BY <1>1 DEF CInv, StateType
    <3>2. QED
      BY <1>1, <2>1, <3>1, SameBest DEF CInv
  <2>3. history'.judged = reading
    BY <1>1, <2>1 DEF Ticked, Remember
  <2>4. /\ limit \in Int
        /\ s.phase.kind = "trial" => s.phase.origin \in Int
    BY <1>1, PhaseKinds DEF CInv, Bounds, StateType, Trials
  <2>5. ~Holds(s) /\ ~Opens(s, reading)
    BY <1>1 DEF Holds, Opens
  <2>6. CASE Ends(s)
    BY <1>1, <2>2, <2>4, <2>6 DEF Ends, RunOf
  <2>7. CASE KeepsDown(s, reading)
    BY <1>1, <2>2, <2>3, <2>4, <2>7 DEF KeepsDown, RunOf
  <2>8. QED
    BY <2>1, <2>5, <2>6, <2>7 DEF Ticked
<1>2. CInv /\ [Next]_vars
        => [reason' = "kept" /\ history.best # NoLevel => history'.judged + 1 >= history.best]_vars
  BY <1>1
<1>3. QED
  BY <1>2, ControllerInvariant, PTL DEF Spec, SmallLossesDontAdd
=============================================================================
