--------------------------- MODULE Scheduler_proofs ---------------------------
(***************************************************************************)
(* For any number of pods and faults, any job and any modulus of the       *)
(* clock: types, and one run per window.                                   *)
(***************************************************************************)
EXTENDS Scheduler, TLAPS

\* A run that has not lost its session holds the lock of its window.
RunHoldsLock ==
  \A p \in Pods : pod[p].stage = "running" /\ ~pod[p].lost => lock[pod[p].window] = p

SchedInv == SchedTypeOK /\ RunHoldsLock

\* The invariant holds when the server starts.
LEMMA SchedInitially == SchedInit => SchedInv
<1> SUFFICES ASSUME SchedInit PROVE SchedInv
  OBVIOUS
<1>1. job.hours \in Nat \ {0} /\ 0 \in Hours
  BY JobsAssumption DEF SchedInit, Hours
<1> QED
  BY <1>1, FaultsAssumption DEF SchedInit, SchedInv, SchedTypeOK, RunHoldsLock, Started, Process

\* A step of one pod's process that keeps the locks of the others' runs.
LEMMA ProcessStep ==
  ASSUME SchedInv, NEW p \in Pods, NEW s \in Process,
         pod' = [pod EXCEPT ![p] = s],
         lock' \in [Hours -> Pods \cup {Nil}],
         \A w \in Hours : lock[w] \in Pods \ {p} => lock'[w] = lock[w],
         s.stage = "running" /\ ~s.lost => lock'[s.window] = p,
         UNCHANGED <<job, hour>>, faults' \in 0 .. MaxFaults
  PROVE  SchedInv'
<1>1. Hours' = Hours /\ Process' = Process
  BY DEF Hours, Process
<1>2. SchedTypeOK'
  BY <1>1 DEF SchedInv, SchedTypeOK
<1>3. ASSUME NEW q \in Pods, pod'[q].stage = "running", ~pod'[q].lost
      PROVE  lock'[pod'[q].window] = q
  <2>1. CASE q = p
    BY <1>3, <2>1 DEF SchedInv, SchedTypeOK
  <2>2. CASE q # p
    <3>1. pod'[q] = pod[q] /\ pod[q] \in Process
      BY <2>2 DEF SchedInv, SchedTypeOK
    <3>2. lock[pod[q].window] = q /\ pod[q].window \in Hours
      BY <1>3, <3>1 DEF SchedInv, RunHoldsLock, Process
    <3> QED
      BY <2>2, <3>1, <3>2
  <2> QED
    BY <2>1, <2>2
<1> QED
  BY <1>2, <1>3 DEF SchedInv, RunHoldsLock

\* The steps of a pod's loop, as updates of its record.
LEMMA ProcessUpdates ==
  ASSUME NEW r \in Process, NEW z \in Hours, NEW u \in {"up", "stopping", "down"}
  PROVE  /\ [r EXCEPT !.stage = "acquire", !.window = z, !.recent = TRUE] \in Process
         /\ [r EXCEPT !.stage = "running"] \in Process
         /\ [r EXCEPT !.stage = "idle", !.window = z, !.lost = FALSE] \in Process
         /\ [r EXCEPT !.lost = TRUE] \in Process
         /\ [r EXCEPT !.up = u] \in Process
         /\ [r EXCEPT !.recent = FALSE] \in Process
         /\ r.window \in Hours
<1>1. [r EXCEPT !.stage = "acquire", !.window = z, !.recent = TRUE] \in Process
  BY Zenon DEF Process
<1>2. [r EXCEPT !.stage = "running"] \in Process
  BY Zenon DEF Process
<1>3. [r EXCEPT !.stage = "idle", !.window = z, !.lost = FALSE] \in Process
  BY Zenon DEF Process
<1>4. [r EXCEPT !.lost = TRUE] \in Process
  BY Zenon DEF Process
<1>5. [r EXCEPT !.up = u] \in Process
  BY Zenon DEF Process
<1>6. [r EXCEPT !.recent = FALSE] \in Process
  BY Zenon DEF Process
<1>7. r.window \in Hours
  BY Zenon DEF Process
<1> QED
  BY <1>1, <1>2, <1>3, <1>4, <1>5, <1>6, <1>7

\* Each step of the scheduler keeps the invariant.
LEMMA SchedInductive == SchedInv /\ [SchedNext]_schedVars => SchedInv'
<1> SUFFICES ASSUME SchedInv, [SchedNext]_schedVars PROVE SchedInv'
  OBVIOUS
<1>1. job.hours \in Nat \ {0} /\ 0 \in Hours
  BY JobsAssumption DEF SchedInv, SchedTypeOK, Hours
<1>2. faults \in 0 .. MaxFaults /\ (Fault => faults' \in 0 .. MaxFaults)
  BY FaultsAssumption DEF SchedInv, SchedTypeOK, Fault
<1>3. /\ lock \in [Hours -> Pods \cup {Nil}]
      /\ \A p \in Pods :
           /\ pod[p] \in Process
           /\ pod[p].stage = "running" /\ ~pod[p].lost => lock[pod[p].window] = p
  BY DEF SchedInv, SchedTypeOK, RunHoldsLock
<1>4. \A p \in Pods :
        /\ WithoutLocksOf(p) \in [Hours -> Pods \cup {Nil}]
        /\ \A w \in Hours : lock[w] \in Pods \ {p} => WithoutLocksOf(p)[w] = lock[w]
  BY <1>3 DEF WithoutLocksOf
<1>5. Started \in Process /\ Down \in Process
  BY <1>1 DEF Started, Down, Process
<1>6. CASE HourPasses
  <2>1. hour' \in Hours /\ Hours' = Hours /\ Process' = Process
    BY <1>1, <1>6 DEF HourPasses, SchedInv, SchedTypeOK, Hours, Process
  <2> QED
    BY <1>6, <2>1 DEF HourPasses, SchedInv, SchedTypeOK, RunHoldsLock
<1>7. CASE FaultElsewhere
  <2>1. Hours' = Hours /\ Process' = Process
    BY <1>7 DEF FaultElsewhere, Hours, Process
  <2> QED
    BY <1>2, <1>7, <2>1 DEF FaultElsewhere, SchedInv, SchedTypeOK, RunHoldsLock
<1>8. ASSUME NEW p \in Pods, Tick(p) PROVE SchedInv'
  <2> DEFINE s == [pod[p] EXCEPT !.stage = "acquire", !.window = hour, !.recent = TRUE]
  <2>1. s \in Process
    BY <1>3, ProcessUpdates DEF SchedInv, SchedTypeOK
  <2>3. s.stage # "running"
    BY <1>3 DEF Process
  <2>2. pod' = [pod EXCEPT ![p] = s]
    BY <1>8 DEF Tick, Window, SchedInv, SchedTypeOK
  <2> HIDE DEF s
  <2> QED
    BY <1>2, <1>3, <1>8, <2>1, <2>2, <2>3, ProcessStep DEF Tick
<1>9. ASSUME NEW p \in Pods, Acquire(p) PROVE SchedInv'
  <2> DEFINE s == [pod[p] EXCEPT !.stage = "running"]
  <2>0. s \in Process /\ pod[p].window \in Hours
    BY <1>1, <1>3, ProcessUpdates
  <2>1. s \in Process /\ s.window = pod[p].window /\ s.window \in Hours
    BY <1>3, <2>0 DEF Process
  <2>2. pod' = [pod EXCEPT ![p] = s] /\ lock' = [lock EXCEPT ![s.window] = p]
    BY <1>9, <2>1 DEF Acquire, SchedInv, SchedTypeOK
  <2>3. \A w \in Hours : lock[w] \in Pods \ {p} => lock'[w] = lock[w]
    BY <1>3, <1>9, <2>1, <2>2, NilAssumption DEF Acquire, TryLock
  <2>4. lock' \in [Hours -> Pods \cup {Nil}] /\ lock'[s.window] = p
    BY <1>3, <2>1, <2>2
  <2> HIDE DEF s
  <2> QED
    BY <1>2, <1>9, <2>1, <2>2, <2>3, <2>4, ProcessStep DEF Acquire, StatementOk
<1>10. ASSUME NEW p \in Pods, Skip(p) \/ Return(p) PROVE SchedInv'
  <2>1. PICK z \in Hours : z = 0
    BY <1>1
  <2> DEFINE s == [pod[p] EXCEPT !.stage = "idle", !.window = z, !.lost = FALSE]
  <2>2. s \in Process
    BY <1>3, ProcessUpdates
  <2>3. s.stage # "running"
    BY <1>3 DEF Process
  <2>4. pod' = [pod EXCEPT ![p] = s]
    BY <1>10, <2>1 DEF Skip, Return, EndTick
  <2>5. lock' = lock \/ lock' = WithoutLocksOf(p)
    BY <1>10 DEF Skip, Return
  <2>6. faults' \in 0 .. MaxFaults
    BY <1>2, <1>10 DEF Skip, Return, StatementOk, StatementFails
  <2>7. UNCHANGED <<job, hour>>
    BY <1>10 DEF Skip, Return
  <2>8. /\ lock' \in [Hours -> Pods \cup {Nil}]
        /\ \A w \in Hours : lock[w] \in Pods \ {p} => lock'[w] = lock[w]
    BY <1>3, <1>4, <2>5
  <2> HIDE DEF s
  <2> QED
    BY <2>2, <2>3, <2>4, <2>6, <2>7, <2>8, ProcessStep
<1>11. ASSUME NEW p \in Pods, LoseSession(p) PROVE SchedInv'
  <2> DEFINE s == [pod[p] EXCEPT !.lost = TRUE]
  <2>0. s \in Process
    BY <1>1, <1>3, ProcessUpdates
  <2>1. s \in Process /\ s.lost
    BY <1>3, <2>0 DEF Process
  <2>2. pod' = [pod EXCEPT ![p] = s]
    BY <1>11 DEF LoseSession, SchedInv, SchedTypeOK
  <2>3. UNCHANGED <<job, hour>> /\ faults' \in 0 .. MaxFaults /\ lock' = WithoutLocksOf(p)
    BY <1>2, <1>11 DEF LoseSession
  <2>4. /\ lock' \in [Hours -> Pods \cup {Nil}]
        /\ \A w \in Hours : lock[w] \in Pods \ {p} => lock'[w] = lock[w]
    BY <1>4, <2>3
  <2> HIDE DEF s
  <2> QED
    BY <2>1, <2>2, <2>3, <2>4, ProcessStep
<1>12. ASSUME NEW p \in Pods, Stop(p) PROVE SchedInv'
  <2> DEFINE s == [pod[p] EXCEPT !.up = "stopping"]
  <2>0. s \in Process
    BY <1>1, <1>3, ProcessUpdates
  <2>1. s \in Process /\ s.window = pod[p].window /\ s.stage = pod[p].stage /\ s.lost = pod[p].lost
    BY <1>3, <2>0 DEF Process
  <2>2. pod' = [pod EXCEPT ![p] = s]
    BY <1>12 DEF Stop, SchedInv, SchedTypeOK
  <2>3. UNCHANGED <<job, hour, lock>> /\ faults' \in 0 .. MaxFaults
    BY <1>2, <1>12 DEF Stop
  <2>4. s.stage = "running" /\ ~s.lost => lock'[s.window] = p
    BY <1>3, <2>1, <2>3
  <2> HIDE DEF s
  <2> QED
    BY <1>3, <2>1, <2>2, <2>3, <2>4, ProcessStep
<1>13. ASSUME NEW p \in Pods, Exit(p) \/ Crash(p) \/ Restart(p) PROVE SchedInv'
  <2>1. PICK s \in {Started, Down} : pod' = [pod EXCEPT ![p] = s]
    BY <1>13 DEF Exit, Crash, Restart
  <2>2. s \in Process
    BY <1>5, <2>1
  <2>3. s.stage # "running"
    BY <2>1 DEF Started, Down
  <2>4. lock' = lock \/ lock' = WithoutLocksOf(p)
    BY <1>13 DEF Exit, Crash, Restart
  <2>5. faults' \in 0 .. MaxFaults
    BY <1>2, <1>13 DEF Exit, Crash, Restart
  <2>6. UNCHANGED <<job, hour>>
    BY <1>13 DEF Exit, Crash, Restart
  <2>7. /\ lock' \in [Hours -> Pods \cup {Nil}]
        /\ \A w \in Hours : lock[w] \in Pods \ {p} => lock'[w] = lock[w]
    BY <1>3, <1>4, <2>4
  <2> QED
    BY <2>1, <2>2, <2>3, <2>5, <2>6, <2>7, ProcessStep
<1>14. ASSUME NEW p \in Pods, HalfInterval(p) PROVE SchedInv'
  <2> DEFINE s == [pod[p] EXCEPT !.recent = FALSE]
  <2>0. s \in Process
    BY <1>1, <1>3, ProcessUpdates
  <2>1. s \in Process /\ s.window = pod[p].window /\ s.stage = pod[p].stage /\ s.lost = pod[p].lost
    BY <1>3, <2>0 DEF Process
  <2>2. pod' = [pod EXCEPT ![p] = s]
    BY <1>14 DEF HalfInterval, SchedInv, SchedTypeOK
  <2>3. UNCHANGED <<job, hour, lock>> /\ faults' \in 0 .. MaxFaults
    BY <1>2, <1>14 DEF HalfInterval
  <2>4. s.stage = "running" /\ ~s.lost => lock'[s.window] = p
    BY <1>3, <2>1, <2>3
  <2> HIDE DEF s
  <2> QED
    BY <1>3, <2>1, <2>2, <2>3, <2>4, ProcessStep
<1>15. CASE UNCHANGED schedVars
  BY <1>15 DEF schedVars, SchedInv, SchedTypeOK, RunHoldsLock, Hours, Process
<1> QED
  BY <1>6, <1>7, <1>8, <1>9, <1>10, <1>11, <1>12, <1>13, <1>14, <1>15 DEF SchedNext

\* Two runs that hold the lock of one window are one run.
LEMMA LockExcludes == SchedInv => OneRunPerWindow
BY DEF SchedInv, RunHoldsLock, OneRunPerWindow

(***************************************************************************)
(* The invariant holds in every behaviour of the scheduler, whatever its   *)
(* jobs do.                                                                *)
(***************************************************************************)
THEOREM SchedulerInvariance == SchedSpec => []SchedInv
BY SchedInitially, SchedInductive, PTL DEF SchedSpec

(***************************************************************************)
(* The leader lock excludes: crashes, shutdowns and failing statements     *)
(* never let two pods run a job for one window at once.                    *)
(***************************************************************************)
THEOREM SchedulerExcludes == SchedSpec => []OneRunPerWindow
BY SchedulerInvariance, LockExcludes, PTL
=============================================================================
