------------------------------ MODULE Scheduler -------------------------------
(***************************************************************************)
(* internal/scheduler: every replica (pod) of the server runs the same     *)
(* ticker loop, and one job of it is looked at.  A tick runs the job under *)
(* the Postgres advisory lock of (job, window), where the window is the    *)
(* hour the tick fell in; a pod that does not get the lock skips the tick. *)
(*                                                                         *)
(* Pods share no clock and tick at unrelated moments: jitter, restarts and *)
(* runs longer than an interval make any distance between two ticks        *)
(* possible.  The one thing a pod measures is whether its last run began   *)
(* less than half an interval ago (recent).  Hours are counted modulo      *)
(* job.hours, so that for a daily job they are the hours of its day.       *)
(***************************************************************************)
EXTENDS Naturals

CONSTANTS
  Pods,       \* the replicas
  Nil,        \* no holder, no hour
  Jobs,       \* the jobs one of which a behaviour follows: see JobsAssumption
  MaxFaults   \* bound on processes stopped or killed and statements failing

ASSUME NilAssumption == Nil \notin Pods /\ Nil \notin Nat
\* digest: which deliveries the job sends; at: the hour of DailyAt, Nil for
\* EveryTick; hours: the modulus of the clock.
ASSUME JobsAssumption ==
  Jobs \subseteq [digest : {"immediate", "daily"}, at : Nat \cup {Nil}, hours : Nat \ {0}]
ASSUME FaultsAssumption == MaxFaults \in Nat

VARIABLES
  job,     \* the job looked at
  hour,    \* the hour of the day
  pod,     \* per pod: its process, its loop and what its run remembers
  lock,    \* pg_try_advisory_lock: window -> the pod whose session holds it
  faults   \* what has gone wrong so far

schedVars == <<job, hour, pod, lock, faults>>

\* up: the process; stage: where its loop is in tick; window: of the present
\* tick; recent: less than half an interval since lastRun; lost: the pinned
\* connection broke during the run.
Started == [up |-> "up", stage |-> "idle", window |-> 0, recent |-> FALSE, lost |-> FALSE]
Down == [Started EXCEPT !.up = "down"]

Hours == 0 .. job.hours - 1
Process == [up : {"up", "stopping", "down"}, stage : {"idle", "acquire", "running"},
            window : Hours, recent : BOOLEAN, lost : BOOLEAN]

SchedTypeOK ==
  /\ job \in Jobs
  /\ hour \in Hours
  /\ pod \in [Pods -> Process]
  /\ lock \in [Hours -> Pods \cup {Nil}]
  /\ faults \in 0 .. MaxFaults

SchedInit ==
  /\ job \in Jobs
  /\ hour = 0
  /\ pod = [p \in Pods |-> Started]
  /\ lock = [w \in Hours |-> Nil]
  /\ faults = 0

-----------------------------------------------------------------------------
Fault == faults < MaxFaults /\ faults' = faults + 1

\* A statement a pod sends to the database. Stop cancels the context every
\* statement of the job is sent with, and then they all fail.
StatementOk(p) == pod[p].up = "up" /\ UNCHANGED faults
StatementFails(p) ==
  \/ pod[p].up = "stopping" /\ UNCHANGED faults
  \/ pod[p].up = "up" /\ Fault

Predicate == job.at \in {Nil, hour}
Window == hour
\* The tick is over, and the variables of its run are gone.
EndTick(p) == pod' = [pod EXCEPT ![p] = [@ EXCEPT !.stage = "idle", !.window = 0, !.lost = FALSE]]

\* tick, as far as the call of WithLock. The loop's select may take a tick
\* although the context is cancelled.
Tick(p) ==
  /\ pod[p].up # "down"
  /\ pod[p].stage = "idle"
  /\ Predicate
  /\ ~pod[p].recent
  /\ pod' = [pod EXCEPT ![p].stage = "acquire", ![p].window = Window, ![p].recent = TRUE]
  /\ UNCHANGED <<job, hour, lock, faults>>

\* WithLock finds the window's lock free and calls the job...
TryLockUnchecked(w) == TRUE
TryLock(w) == lock[w] = Nil
Acquire(p) ==
  /\ pod[p].stage = "acquire"
  /\ StatementOk(p)
  /\ TryLock(pod[p].window)
  /\ lock' = [lock EXCEPT ![pod[p].window] = p]
  /\ pod' = [pod EXCEPT ![p].stage = "running"]
  /\ UNCHANGED <<job, hour>>

\* ... or taken, or gets an error; the tick is over.
Skip(p) ==
  /\ pod[p].stage = "acquire"
  /\ \/ StatementOk(p) /\ ~TryLock(pod[p].window)
     \/ StatementFails(p)
  /\ EndTick(p)
  /\ UNCHANGED <<job, hour, lock>>

\* What ends with a session: the locks it holds.
WithoutLocksOf(p) == [w \in Hours |-> IF lock[w] = p THEN Nil ELSE lock[w]]

\* The job has returned: unlock, with a context of its own.
Return(p) ==
  /\ pod[p].stage = "running"
  /\ lock' = WithoutLocksOf(p)
  /\ EndTick(p)
  /\ UNCHANGED <<job, hour, faults>>

\* The connection WithLock pinned breaks; the job goes on without its lock.
LoseSession(p) ==
  /\ pod[p].stage = "running"
  /\ ~pod[p].lost
  /\ Fault
  /\ lock' = WithoutLocksOf(p)
  /\ pod' = [pod EXCEPT ![p].lost = TRUE]
  /\ UNCHANGED <<job, hour>>

-----------------------------------------------------------------------------
\* SIGTERM cancels the context; the loop finishes its tick and exits.
Stop(p) ==
  /\ pod[p].up = "up"
  /\ Fault
  /\ pod' = [pod EXCEPT ![p].up = "stopping"]
  /\ UNCHANGED <<job, hour, lock>>

Exit(p) ==
  /\ pod[p].up = "stopping"
  /\ pod[p].stage = "idle"
  /\ pod' = [pod EXCEPT ![p] = Down]
  /\ UNCHANGED <<job, hour, lock, faults>>

\* The process dies, its sessions with it.
Crash(p) ==
  /\ pod[p].up # "down"
  /\ Fault
  /\ lock' = WithoutLocksOf(p)
  /\ pod' = [pod EXCEPT ![p] = Down]
  /\ UNCHANGED <<job, hour>>

\* Whoever runs the replicas starts a new one; lastRun is empty again.
Restart(p) ==
  /\ pod[p].up = "down"
  /\ pod' = [pod EXCEPT ![p] = Started]
  /\ UNCHANGED <<job, hour, lock, faults>>

\* Half an interval has passed since the pod's last run began.
HalfInterval(p) ==
  /\ pod[p].recent
  /\ pod' = [pod EXCEPT ![p].recent = FALSE]
  /\ UNCHANGED <<job, hour, lock, faults>>

\* The bound of the clock: no run lasts until its hour comes round again.
HourPasses ==
  LET next == (hour + 1) % job.hours
  IN
  /\ next # hour
  /\ \A p \in Pods : pod[p].stage # "idle" => pod[p].window # next
  /\ hour' = next
  /\ UNCHANGED <<job, pod, lock, faults>>

\* Something outside the loops fails.
FaultElsewhere == Fault /\ UNCHANGED <<job, hour, pod, lock>>

SchedNext ==
  \/ HourPasses
  \/ FaultElsewhere
  \/ \E p \in Pods :
       \/ Tick(p) \/ Acquire(p) \/ Skip(p) \/ Return(p) \/ LoseSession(p)
       \/ Stop(p) \/ Exit(p) \/ Crash(p) \/ Restart(p) \/ HalfInterval(p)

SchedSpec == SchedInit /\ [][SchedNext]_schedVars

-----------------------------------------------------------------------------
(***************************************************************************)
(* Two pods never run the job for the same window at the same time, unless *)
(* one of them lost the connection that held its lock: neither a crash, a  *)
(* shutdown nor a failing statement lets a second pod in.                  *)
(***************************************************************************)
OneRunPerWindow ==
  \A p, q \in Pods :
    /\ p # q
    /\ pod[p].stage = "running" /\ pod[q].stage = "running"
    /\ pod[p].window = pod[q].window
    => pod[p].lost \/ pod[q].lost
=============================================================================
