-------------------------------- MODULE Engine --------------------------------
(***************************************************************************)
(* The optional server of a job: Engine of saturate/engine.py starts it in *)
(* a process group of its own, wait_for_health polls it until it answers,  *)
(* and __exit__ takes the group down: SIGTERM and a grace period, SIGKILL, *)
(* then a sweep for members that outlived their leader.                    *)
(*                                                                         *)
(* The group is its leader, which Popen started and only this process can  *)
(* reap, and one child of the server's, which somebody else reaps.         *)
(***************************************************************************)
EXTENDS Naturals, Sequences

CONSTANTS
  Consecutive,   \* wait_for_health(consecutive=)
  MaxPolls,      \* bound: polls before boot_timeout
  Sweeps,        \* the kills of the sweep (50 in the code)
  MaxMishaps     \* bound: Ctrl-C, and processes of the server that die unasked

\* What a module that instantiates this one assumes of the constants.
EngineConstants ==
  /\ Consecutive \in Nat \ {0} /\ MaxPolls \in Nat \ {0} /\ Sweeps \in Nat \ {0}
  /\ MaxMishaps \in Nat

VARIABLES
  eng,            \* where __enter__ or __exit__ is
  leader, child,  \* the server's group
  streak, polls,  \* ok_streak; the polls so far
  answers,        \* history: the answers of the server since its last bad one, newest last
  swept,          \* kills sent by the sweep
  booted,         \* did __enter__ return, and if not, why
  mishaps, cut    \* spent of the bound; was __exit__ interrupted?

boot    == <<streak, polls, answers>>
group   == <<leader, child>>
vars    == <<eng, group, boot, swept, booted, mishaps, cut>>

Init ==
  /\ eng = "out" /\ leader = "none" /\ child = "none"
  /\ streak = 0 /\ polls = 0 /\ answers = <<>> /\ swept = 0
  /\ booted = "no" /\ mishaps = 0 /\ cut = FALSE

Serving == leader = "up" \/ child = "up"     \* some process of the group listens

-----------------------------------------------------------------------------
(* The group, on its own.                                                   *)

\* The server forks while it boots.
Forks ==
  /\ eng \in {"poll", "health", "trial"} /\ leader = "up" /\ child = "none"
  /\ child' = "up" /\ UNCHANGED <<leader, mishaps>>

\* SIGTERM ends what it reaches; anything else that ends a process is a mishap.
Unasked == IF eng = "grace" THEN UNCHANGED mishaps
           ELSE mishaps < MaxMishaps /\ mishaps' = mishaps + 1

LeaderEnds == leader = "up" /\ Unasked /\ leader' = "exited" /\ UNCHANGED child

\* A child that ended is a zombie until its parent, or PID 1, reaps it.
ChildEnds ==
  /\ child = "up" /\ Unasked /\ child' \in {"zombie", "none"} /\ UNCHANGED leader
ChildReaped == child = "zombie" /\ child' = "none" /\ UNCHANGED <<leader, mishaps>>

Server ==
  /\ Forks \/ LeaderEnds \/ ChildEnds \/ ChildReaped
  /\ UNCHANGED <<eng, boot, swept, booted, cut>>

-----------------------------------------------------------------------------
(* __enter__ and wait_for_health.                                           *)

\* The port is free, and the server is started; another server on it is an error.
Enter ==
  /\ eng = "out" /\ booted = "no"
  /\ \/ eng' = "poll" /\ leader' = "up" /\ UNCHANGED booted
     \/ booted' = "port" /\ UNCHANGED <<eng, leader>>
  /\ UNCHANGED <<child, boot, swept, mishaps, cut>>

\* The boot fails: the group is taken down before the error is raised.
Fails(why) == eng' = "stop" /\ booted' = why

PollDied ==
  /\ eng = "poll" /\ polls < MaxPolls /\ leader = "exited"
  /\ leader' = "reaped" /\ Fails("died")
  /\ UNCHANGED <<child, boot, swept, mishaps, cut>>

PollTimeout ==
  /\ eng = "poll" /\ polls = MaxPolls /\ Fails("timeout")
  /\ UNCHANGED <<group, boot, swept, mishaps, cut>>

\* The leader was there, and GET /health is next.
PollAlive ==
  /\ eng = "poll" /\ polls < MaxPolls /\ leader = "up"
  /\ eng' = "health" /\ polls' = polls + 1
  /\ UNCHANGED <<group, streak, answers, swept, booted, mishaps, cut>>

Heard(good, what) == answers' = IF good THEN Append(answers, what) ELSE <<>>

Health(good) ==
  /\ eng = "health" /\ (good => Serving)
  /\ streak' = IF good THEN streak + 1 ELSE 0
  /\ Heard(good, "health")
  /\ eng' = IF streak' >= Consecutive THEN "trial" ELSE "poll"
  /\ UNCHANGED <<group, polls, swept, booted, mishaps, cut>>

\* The trial request, answered as `accept` (or < 500) wants it, or not: then the server was
\* not ready after all.  (The counts go with wait_for_health when it returns.)
Trial(good) ==
  /\ eng = "trial" /\ (good => Serving)
  /\ Heard(good, "trial") /\ streak' = 0
  /\ eng' = (IF good THEN "ready" ELSE "poll") /\ booted' = (IF good THEN "yes" ELSE booted)
  /\ polls' = (IF good THEN 0 ELSE polls)
  /\ UNCHANGED <<group, swept, mishaps, cut>>

\* Ctrl-C while it boots.
BootInterrupted ==
  /\ eng \in {"poll", "health", "trial"} /\ mishaps < MaxMishaps
  /\ mishaps' = mishaps + 1 /\ Fails("interrupt")
  /\ UNCHANGED <<group, boot, swept, cut>>

Boots ==
  \/ Enter \/ PollDied \/ PollTimeout \/ PollAlive
  \/ \E good \in BOOLEAN : Health(good) \/ Trial(good)

-----------------------------------------------------------------------------
(* __exit__.                                                                *)

\* The body of the `with` is over, however it ended.
Leave ==
  /\ eng = "ready" /\ eng' = "stop"
  /\ UNCHANGED <<group, boot, swept, booted, mishaps, cut>>

\* poll(): a leader that is gone is reaped here, else the group gets SIGTERM.
Terminate ==
  /\ eng = "stop"
  /\ \/ leader = "up" /\ eng' = "grace" /\ UNCHANGED leader
     \/ leader \in {"exited", "reaped"} /\ eng' = "sweep" /\ leader' = "reaped"
  /\ UNCHANGED <<child, boot, swept, booted, mishaps, cut>>

\* proc.wait(30): the leader ends in time, with its child or without, or is killed with the
\* whole group; wait() then reaps it.
Grace ==
  /\ eng = "grace" /\ eng' = "sweep" /\ leader' = "reaped"
  /\ \/ leader = "exited" /\ UNCHANGED child
     \/ leader = "up" /\ child' = (IF child = "up" THEN "zombie" ELSE child)
  /\ UNCHANGED <<boot, swept, booted, mishaps, cut>>

SweepNothing ==                     \* mutant: the leader stands for the group
  /\ eng = "sweep" /\ eng' = "left"
  /\ UNCHANGED <<group, boot, swept, booted, mishaps, cut>>

SweepForever ==                     \* mutant: until the group is empty, however long
  /\ eng = "sweep"
  /\ \/ child = "none" /\ eng' = "left" /\ UNCHANGED child
     \/ child # "none" /\ child' = "zombie" /\ UNCHANGED eng
  /\ UNCHANGED <<leader, boot, swept, booted, mishaps, cut>>

\* killpg, until the group is empty: what a leader left behind is killed, a zombie is waited
\* for as long as the sweep lasts.
Sweep ==
  /\ eng = "sweep"
  /\ \/ child = "none" /\ eng' = "left" /\ UNCHANGED <<child, swept>>
     \/ /\ child # "none" /\ swept' = swept + 1 /\ child' = "zombie"
        /\ eng' = IF swept' = Sweeps THEN "left" ELSE "sweep"
  /\ UNCHANGED <<leader, boot, booted, mishaps, cut>>

\* Ctrl-C in a wait of __exit__ ends it there.
ExitInterrupted ==
  /\ eng \in {"grace", "sweep"} /\ mishaps < MaxMishaps
  /\ mishaps' = mishaps + 1 /\ cut' = TRUE /\ eng' = "left"
  /\ UNCHANGED <<group, boot, swept, booted>>

Exits == Terminate \/ Grace \/ Sweep

-----------------------------------------------------------------------------
(* Properties.                                                              *)

Places == {"out", "poll", "health", "trial", "ready", "stop", "grace", "sweep", "left"}

TypeOK ==
  /\ eng \in Places /\ leader \in {"none", "up", "exited", "reaped"}
  /\ child \in {"none", "up", "zombie"}
  /\ streak \in 0..Consecutive /\ polls \in 0..MaxPolls /\ swept \in 0..Sweeps
  /\ booted \in {"no", "yes", "port", "died", "timeout", "interrupt"}
  /\ mishaps \in 0..MaxMishaps /\ cut \in BOOLEAN

\* "Readiness = N consecutive health 200s + one server-generated response": the server that
\* is handed out gave Consecutive good health answers and then a good trial, and between them
\* no bad one, not even a bad trial of an earlier round.
ReadyIsReady ==
  eng = "ready" => answers = [k \in 1..(Consecutive + 1) |->
                                IF k <= Consecutive THEN "health" ELSE "trial"]

\* "A failed boot must not orphan the server process group", "the GROUP is the teardown unit":
\* when __exit__ is over no process of the group runs, whoever died before, however the boot
\* or the body ended, unless __exit__ itself was interrupted.
NoOrphans == eng = "left" /\ ~cut => leader = "reaped" /\ child # "up"
=============================================================================
