--------------------------- MODULE WorkerLifecycle --------------------------
(***************************************************************************)
(* The worker process: it starts, takes jobs whose rendering is an ffmpeg  *)
(* child, and stops on a signal: the queue workers are closed, which waits *)
(* for the jobs they hold, and then what those jobs use.  After thirty     *)
(* seconds the children are killed and the process exits with its jobs     *)
(* unfinished; the queue hands those to the next process.                  *)
(***************************************************************************)
EXTENDS Integers, FiniteSets, Sequences

CONSTANTS
  Jobs,
  MaxStalls,     \* maxStalledCount of the queue
  MaxAttempts,   \* attempts of a job
  MaxStops       \* bound: the ends of a process

LifecycleAssumption ==
  IsFiniteSet(Jobs) /\ MaxStalls \in Nat /\ MaxAttempts \in Nat \ {0} /\ MaxStops \in Nat

VARIABLES
  stage,     \* 0 while it takes jobs, then the step of the shutdown it is at
  exit,      \* how it ended: "no" while it is up
  job, stalls, attempts,
  running,   \* runningFfmpegCommands
  alive,     \* the ffmpeg processes that are children of this one
  stops      \* bound

vars == <<stage, exit, job, stalls, attempts, running, alive, stops>>

\* What is closed after the queue workers, in this order.
Closing == <<"workers", "metrics", "queues", "idempotency", "db", "telemetry">>

Open(x) == exit = "no" /\ \A i \in DOMAIN Closing : Closing[i] = x => stage <= i

Held == {j \in Jobs : job[j] \in {"active", "rendering", "storing"}}

Init ==
  /\ stage = 0 /\ exit = "no" /\ stops = 0
  /\ job = [j \in Jobs |-> "waiting"] /\ stalls = [j \in Jobs |-> 0] /\ attempts = [j \in Jobs |-> 0]
  /\ running = {} /\ alive = {}

To(j, at) == job' = [job EXCEPT ![j] = at]

-----------------------------------------------------------------------------
(* Jobs *)

Take(j) ==
  /\ exit = "no" /\ stage = 0 /\ job[j] = "waiting"
  /\ To(j, "active")
  /\ UNCHANGED <<stage, exit, stalls, attempts, running, alive, stops>>

\* runFfmpeg: the command is noted, and runs.
Render(j) ==
  /\ exit = "no" /\ job[j] = "active" /\ To(j, "rendering")
  /\ running' = running \cup {j} /\ alive' = alive \cup {j}
  /\ UNCHANGED <<stage, exit, stalls, attempts, stops>>

Rendered(j) ==
  /\ exit = "no" /\ job[j] = "rendering" /\ To(j, "storing")
  /\ running' = running \ {j} /\ alive' = alive \ {j}
  /\ UNCHANGED <<stage, exit, stalls, attempts, stops>>

\* After ten minutes it is killed, or it fails by itself: an attempt is lost.
TimesOut(j) ==
  /\ exit = "no" /\ job[j] = "rendering"
  /\ attempts' = [attempts EXCEPT ![j] = @ + 1]
  /\ To(j, IF attempts[j] + 1 < MaxAttempts THEN "waiting" ELSE "failed")
  /\ running' = running \ {j} /\ alive' = alive \ {j}
  /\ UNCHANGED <<stage, exit, stalls, stops>>

\* The rows, the storage and the queue that follows.
Store(j) ==
  /\ exit = "no" /\ job[j] = "storing" /\ To(j, "done")
  /\ UNCHANGED <<stage, exit, stalls, attempts, running, alive, stops>>

\* Mutant: a job that stalled too often is left where it is.
RedeliverSome(j) ==
  /\ exit = "no" /\ job[j] = "stalled" /\ stalls[j] < MaxStalls
  /\ stalls' = [stalls EXCEPT ![j] = @ + 1] /\ To(j, "waiting")
  /\ UNCHANGED <<stage, exit, attempts, running, alive, stops>>

\* The queue finds a job whose lock ran out: once more, or failed for good.
Redeliver(j) ==
  /\ exit = "no" /\ job[j] = "stalled"
  /\ IF stalls[j] < MaxStalls
     THEN stalls' = [stalls EXCEPT ![j] = @ + 1] /\ To(j, "waiting")
     ELSE To(j, "failed") /\ UNCHANGED stalls
  /\ UNCHANGED <<stage, exit, attempts, running, alive, stops>>

-----------------------------------------------------------------------------
(* The process *)

Exits(how) ==
  /\ exit' = how /\ job' = [j \in Jobs |-> IF j \in Held THEN "stalled" ELSE job[j]]

\* SIGTERM or SIGINT; a second one begins the same again, to no other effect.
Signal ==
  /\ exit = "no" /\ stage = 0 /\ stops < MaxStops /\ stops' = stops + 1
  /\ stage' = 1
  /\ UNCHANGED <<exit, job, stalls, attempts, running, alive>>

\* Mutant: the workers are closed without waiting.
CloseAtOnce ==
  /\ exit = "no" /\ stage \in DOMAIN Closing
  /\ stage' = stage + 1
  /\ IF stage = Len(Closing) THEN Exits("clean") ELSE UNCHANGED <<exit, job>>
  /\ UNCHANGED <<stalls, attempts, running, alive, stops>>

\* One after the other, the workers once they hold no job; then exit(0).
Close ==
  /\ exit = "no" /\ stage \in DOMAIN Closing
  /\ Closing[stage] = "workers" => Held = {}
  /\ stage' = stage + 1
  /\ IF stage = Len(Closing) THEN Exits("clean") ELSE UNCHANGED <<exit, job>>
  /\ UNCHANGED <<stalls, attempts, running, alive, stops>>

\* A close is rejected: exit(1), the children as they are.
CloseFails ==
  /\ exit = "no" /\ stage \in DOMAIN Closing /\ Exits("error")
  /\ UNCHANGED <<stage, stalls, attempts, running, alive, stops>>

\* forceShutdown, thirty seconds after the signal.
Force ==
  /\ exit = "no" /\ stage > 0 /\ Exits("forced")
  /\ alive' = alive \ running /\ running' = {}
  /\ UNCHANGED <<stage, stalls, attempts, stops>>

\* The process is killed.
Crash ==
  /\ exit = "no" /\ stops < MaxStops /\ stops' = stops + 1 /\ Exits("killed")
  /\ UNCHANGED <<stage, stalls, attempts, running, alive>>

\* main, in a new process, without children.
Restart ==
  /\ exit # "no" /\ exit' = "no" /\ stage' = 0 /\ running' = {} /\ alive' = {}
  /\ UNCHANGED <<job, stalls, attempts, stops>>

Works(j) == Take(j) \/ Render(j) \/ Rendered(j) \/ TimesOut(j) \/ Store(j) \/ Redeliver(j)

Next == (\E j \in Jobs : Works(j)) \/ Signal \/ Close \/ CloseFails \/ Force \/ Crash \/ Restart

\* An ffmpeg child ends or is timed out, a signalled process ends by its timer
\* at the latest, and a process that is gone is started again; there is an end
\* to each, so that it suffices that one of them goes on.
Goes == Restart \/ Force \/ \E j \in Jobs : Works(j)

Spec == Init /\ [][Next]_vars /\ WF_vars(Goes)

-----------------------------------------------------------------------------
TypeOK ==
  /\ stage \in 0 .. Len(Closing) + 1 /\ exit \in {"no", "clean", "error", "forced", "killed"}
  /\ job \in [Jobs -> {"waiting", "active", "rendering", "storing", "stalled", "done", "failed"}]
  /\ stalls \in [Jobs -> 0 .. MaxStalls] /\ attempts \in [Jobs -> 0 .. MaxAttempts]
  /\ running \subseteq Jobs /\ alive \subseteq Jobs /\ stops \in 0 .. MaxStops

\* A job never loses its database, its queues or its idempotency records while
\* the process holds it.
JobsKeepTheirDb == Held # {} => Open("db") /\ Open("queues") /\ Open("idempotency")

\* A shutdown leaves no ffmpeg behind, in time or forced.  (One that
\* fails does, and so does a process that is killed.)
NoChildLeft == exit \in {"clean", "forced"} => alive = {}

\* Every job is done or failed for good in the end, whatever is stopped.
Ended == \A j \in Jobs : job[j] \in {"done", "failed"}
=============================================================================
