---------------------- MODULE NotificationDelivery_proofs ----------------------
(***************************************************************************)
(* For any number of pods, deliveries, administrators and faults: what the *)
(* deliveries owe to the scheduler, what a sent mark means, and that until *)
(* the first fault a delivery is mailed at most once.                      *)
(***************************************************************************)
EXTENDS NotificationDelivery, Scheduler_proofs

-----------------------------------------------------------------------------
(* The job is a client of the scheduler.                                   *)

\* A delivery step of a pod, or of a request, at most counts a fault.
LEMMA JobStep ==
  ASSUME SchedTypeOK, KeepSched, faults' = faults \/ Fault
  PROVE  [SchedNext]_schedVars
BY DEF KeepSched, SchedNext, FaultElsewhere, schedVars

\* Every step of the composition is one of the scheduler, or none.
LEMMA DeliverySchedules == SchedTypeOK /\ [Next]_vars => [SchedNext]_schedVars
<1> SUFFICES ASSUME SchedTypeOK, [Next]_vars PROVE [SchedNext]_schedVars
  OBVIOUS
<1>1. CASE HourPasses /\ UNCHANGED deliveryVars
  BY <1>1 DEF SchedNext
<1>2. ASSUME NEW to \in Addresses, QueueNotification(to) PROVE [SchedNext]_schedVars
  BY <1>2 DEF QueueNotification
<1>3. ASSUME NEW p \in Pods, Deliver(p) PROVE [SchedNext]_schedVars
  <2>1. KeepSched
    BY <1>3 DEF Deliver, ListPending, NextGroup, NoMoreGroups, Dispatch, RecordResult,
                KeepSched, schedVars
  <2>2. faults' = faults \/ Fault
    BY <1>3 DEF Deliver, ListPending, NextGroup, NoMoreGroups, Dispatch, RecordResult,
                StatementOk, StatementFails, schedVars
  <2> QED
    BY <2>1, <2>2, JobStep
<1>4. ASSUME NEW p \in Pods, Loop(p) PROVE [SchedNext]_schedVars
  BY <1>3, <1>4 DEF Loop, JobReturns, SchedNext
<1>5. ASSUME NEW p \in Pods, Outside(p) PROVE [SchedNext]_schedVars
  BY <1>5 DEF Outside, Killed, SchedNext
<1>6. ASSUME NEW a \in Admins, RetryFailed(a) \/ RetrySave(a) PROVE [SchedNext]_schedVars
  BY <1>6 DEF RetryFailed, RetrySave, SchedNext
<1>7. CASE UNCHANGED vars
  BY <1>7 DEF vars, schedVars
<1> QED
  BY <1>1, <1>2, <1>4, <1>5, <1>6, <1>7 DEF Next

(***************************************************************************)
(* Whatever the deliveries do, the loops and the locks behave as the       *)
(* scheduler alone.                                                        *)
(***************************************************************************)
THEOREM DeliveryRunsScheduler == Spec => SchedSpec
<1>1. Init => SchedInit
  BY DEF Init
<1>2. SchedInv => SchedTypeOK
  BY DEF SchedInv
<1>3. SchedInv /\ [Next]_vars => SchedInv'
  BY <1>2, DeliverySchedules, SchedInductive
<1> QED
  BY <1>1, <1>2, <1>3, SchedInitially, DeliverySchedules, PTL DEF Spec, SchedSpec

(***************************************************************************)
(* So no two pods run the delivery job for one window at once, unless one  *)
(* has lost its connection.                                                *)
(***************************************************************************)
THEOREM DeliveryExcludes == Spec => []OneRunPerWindow
BY DeliveryRunsScheduler, SchedulerExcludes, PTL

-----------------------------------------------------------------------------
(* What a sent mark means.                                                 *)

\* The types the argument needs.
TablesOK ==
  /\ rows \in [Rows -> Row]
  /\ work \in [Pods -> Work]
  /\ admin \in [Admins -> [list : SUBSET Rows, copy : [Rows -> Row]]]
  /\ mailed \in [Rows -> 0 .. 2]
  /\ refused \in [Rows -> 0 .. MaxRetries + 1]

\* What a pod is about to mark sent has been mailed.
ResultsTrue ==
  \A p \in Pods : work[p].pc = "record" /\ work[p].sent =>
    \A r \in work[p].left : mailed[r] > 0

DeliveryInv == TablesOK /\ ResultsTrue /\ SentWasMailed

LEMMA FreshTyped ==
  /\ NoRow \in Row /\ NoRows \in [Rows -> Row]
  /\ Fresh \in Work
  /\ NoRequest \in [list : SUBSET Rows, copy : [Rows -> Row]]
<1>1. AnyAddress \in Addresses
  BY DeliveryAssumption DEF AnyAddress
<1>2. NoRow \in Row
  BY <1>1 DEF NoRow, Row
<1>3. NoRows \in [Rows -> Row]
  BY <1>2 DEF NoRows
<1> QED
  BY <1>2, <1>3 DEF Fresh, Work, NoRequest

LEMMA DeliveryInitially == Init => DeliveryInv
BY FreshTyped, DeliveryAssumption
   DEF Init, DeliveryInv, TablesOK, ResultsTrue, SentWasMailed, Fresh, NoRows, NoRow

\* Counting up to a bound stays in the bound, and never goes down.
LEMMA OneMoreTyped ==
  ASSUME NEW max \in Nat, NEW count \in [Rows -> 0 .. max], NEW g \in SUBSET Rows
  PROVE  /\ OneMore(count, g, max) \in [Rows -> 0 .. max]
         /\ \A r \in Rows : count[r] > 0 => OneMore(count, g, max)[r] > 0
         /\ max > 0 => \A r \in g : OneMore(count, g, max)[r] > 0
BY DEF OneMore

\* A step of one pod's run: it keeps the invariant if what the pod is then about
\* to record is true, and it marks only mailed rows.
LEMMA WorkStep ==
  ASSUME DeliveryInv, NEW p \in Pods, NEW w \in Work, Step(p, w),
         rows' \in [Rows -> Row], mailed' \in [Rows -> 0 .. 2],
         refused' \in [Rows -> 0 .. MaxRetries + 1], admin' = admin,
         \A r \in Rows : mailed[r] > 0 => mailed'[r] > 0,
         w.pc = "record" /\ w.sent => \A r \in w.left : mailed'[r] > 0,
         \A r \in Rows : rows'[r].status = "sent" => mailed'[r] > 0
  PROVE  DeliveryInv'
<1>1. TablesOK'
  BY DEF DeliveryInv, TablesOK, Step
<1>2. SentWasMailed'
  BY DEF SentWasMailed
<1>3. ASSUME NEW q \in Pods, work'[q].pc = "record", work'[q].sent, NEW r \in work'[q].left
      PROVE  mailed'[r] > 0
  <2>1. CASE q = p
    BY <1>3, <2>1 DEF DeliveryInv, TablesOK, Step
  <2>2. CASE q # p
    <3>1. work'[q] = work[q] /\ work[q] \in Work
      BY <2>2 DEF DeliveryInv, TablesOK, Step
    <3>2. r \in Rows /\ mailed[r] > 0
      BY <1>3, <3>1 DEF DeliveryInv, ResultsTrue, Work
    <3> QED
      BY <3>2
  <2> QED
    BY <2>1, <2>2
<1>4. ResultsTrue'
  BY <1>3 DEF ResultsTrue
<1> QED
  BY <1>1, <1>2, <1>4 DEF DeliveryInv

\* What is recorded is a row, and a failure is not marked sent.
LEMMA ResultTyped ==
  ASSUME NEW row \in Row
  PROVE  Sent(row) \in Row /\ Failed(row) \in Row /\ Failed(row).status # "sent"
<1>1. row.retry \in Nat /\ row.retry + 1 \in Nat
  BY DEF Row
<1>2. Failed(row) \in Row
  BY <1>1 DEF Failed, Row
<1>3. Failed(row).status = "failed"
  BY DEF Failed, Row
<1>4. Sent(row) \in Row
  BY DEF Sent, Row
<1> QED
  BY <1>2, <1>3, <1>4

\* The job's steps keep the invariant.
LEMMA DeliverKeeps == ASSUME DeliveryInv, NEW p \in Pods, Deliver(p) PROVE DeliveryInv'
<1> DEFINE w == work[p]
<1>1. /\ rows \in [Rows -> Row] /\ w \in Work
      /\ mailed \in [Rows -> 0 .. 2] /\ refused \in [Rows -> 0 .. MaxRetries + 1]
      /\ \A r \in Rows : rows[r].status = "sent" => mailed[r] > 0
  BY DEF DeliveryInv, TablesOK, SentWasMailed
<1>2. CASE ListPending(p)
  <2>1. Groups \in SUBSET SUBSET Rows
    BY DEF Groups
  <2>2. Copied(UNION Groups) \in [Rows -> Row]
    BY <1>1, FreshTyped DEF Copied
  <2>3. PICK v \in Work : Step(p, v) /\ v.pc # "record"
    <3>1. [w EXCEPT !.pc = "done"] \in Work /\ [w EXCEPT !.pc = "done"].pc # "record"
      BY <1>1 DEF Work
    <3> DEFINE v == [w EXCEPT !.pc = "next", !.todo = Groups, !.copy = Copied(UNION Groups)]
    <3>2. v \in Work /\ v.pc # "record"
      BY <1>1, <2>1, <2>2 DEF Work
    <3> QED
      BY <1>2, <3>1, <3>2 DEF ListPending
  <2> QED
    BY <1>1, <1>2, <2>3, WorkStep DEF ListPending
<1>3. CASE NextGroup(p)
  <2>1. PICK g \in w.todo :
          LET u == [w EXCEPT !.todo = @ \ {g}]
              sending == [u EXCEPT !.pc = "send", !.left = g]
          IN
          /\ Step(p, sending) \/ Step(p, u)
          /\ \/ \E r \in g : rows' = [rows EXCEPT ![r].status = "queued"]
             \/ rows' = rows
    BY <1>3 DEF NextGroup
  <2> DEFINE u == [w EXCEPT !.todo = @ \ {g}]
  <2> DEFINE sending == [u EXCEPT !.pc = "send", !.left = g]
  <2>2. g \in SUBSET Rows /\ w.pc = "next"
    BY <1>1, <1>3 DEF Work, NextGroup, Running
  <2>3. u \in Work /\ u.pc # "record"
    BY <1>1, <2>2 DEF Work
  <2>4. sending \in Work /\ sending.pc # "record"
    BY <1>1, <2>2 DEF Work
  <2>5. PICK v \in Work : Step(p, v) /\ v.pc # "record"
    BY <2>1, <2>3, <2>4
  <2>6. rows' \in [Rows -> Row] /\ \A r \in Rows : rows'[r].status = "sent" => rows[r].status = "sent"
    <3>1. ASSUME NEW r \in g, rows' = [rows EXCEPT ![r].status = "queued"]
          PROVE  /\ rows' \in [Rows -> Row]
                 /\ \A s \in Rows : rows'[s].status = "sent" => rows[s].status = "sent"
      <4>1. [rows[r] EXCEPT !.status = "queued"] \in Row
        BY <1>1, <2>2 DEF Row
      <4> QED
        BY <1>1, <2>2, <3>1, <4>1 DEF Row
    <3> QED
      BY <1>1, <2>1, <3>1
  <2> QED
    BY <1>1, <1>3, <2>5, <2>6, WorkStep DEF NextGroup
<1>4. CASE NoMoreGroups(p)
  <2>1. [w EXCEPT !.pc = "done"] \in Work /\ [w EXCEPT !.pc = "done"].pc # "record"
    BY <1>1 DEF Work
  <2> QED
    BY <1>1, <1>4, <2>1, WorkStep DEF NoMoreGroups
<1>5. CASE Dispatch(p)
  <2>1. w.left \in SUBSET Rows
    BY <1>1 DEF Work
  <2>2. /\ OneMore(mailed, w.left, 2) \in [Rows -> 0 .. 2]
        /\ \A r \in Rows : mailed[r] > 0 => OneMore(mailed, w.left, 2)[r] > 0
        /\ \A r \in w.left : OneMore(mailed, w.left, 2)[r] > 0
    <3>1. 2 \in Nat /\ 2 > 0
      OBVIOUS
    <3> QED
      BY <1>1, <2>1, <3>1, OneMoreTyped
  <2>3. OneMore(refused, w.left, MaxRetries + 1) \in [Rows -> 0 .. MaxRetries + 1]
    BY <1>1, <2>1, OneMoreTyped, DeliveryAssumption
  <2>4. PICK sent \in BOOLEAN :
          /\ Step(p, [w EXCEPT !.pc = "record", !.sent = sent])
          /\ mailed' = OneMore(mailed, w.left, 2) \/ (mailed' = mailed /\ ~sent)
    BY <1>5 DEF Dispatch
  <2> DEFINE v == [w EXCEPT !.pc = "record", !.sent = sent]
  <2>5. v \in Work /\ v.left = w.left /\ v.sent = sent
    BY <1>1 DEF Work
  <2>6. /\ mailed' \in [Rows -> 0 .. 2]
        /\ \A r \in Rows : mailed[r] > 0 => mailed'[r] > 0
    BY <1>1, <2>2, <2>4
  <2>7. v.sent => \A r \in v.left : mailed'[r] > 0
    BY <2>2, <2>4, <2>5
  <2>8. refused' \in [Rows -> 0 .. MaxRetries + 1] /\ rows' = rows /\ admin' = admin
    BY <1>1, <1>5, <2>3 DEF Dispatch
  <2>9. Step(p, v)
    BY <2>4
  <2> HIDE DEF v
  <2> QED
    BY <1>1, <2>5, <2>6, <2>7, <2>8, <2>9, WorkStep
<1>6. CASE RecordResult(p)
  <2>1. PICK r \in w.left :
          /\ rows' = [rows EXCEPT ![r] = Result(w.sent, w.copy[r], rows[r])] \/ rows' = rows
          /\ Step(p, [w EXCEPT !.left = @ \ {r}, !.copy[r] = NoRow,
                               !.sent = @ /\ w.left # {r},
                               !.pc = IF w.left = {r} THEN "next" ELSE @])
    BY <1>6 DEF RecordResult
  <2> DEFINE copy == [w.copy EXCEPT ![r] = NoRow]
  <2> DEFINE sent == w.sent /\ w.left # {r}
  <2> DEFINE pc == IF w.left = {r} THEN "next" ELSE w.pc
  <2> DEFINE v == [w EXCEPT !.left = @ \ {r}, !.copy = copy, !.sent = sent, !.pc = pc]
  <2>2. r \in Rows /\ w.pc = "record"
    BY <1>1, <1>6 DEF Work, RecordResult, Running
  <2>3. copy \in [Rows -> Row] /\ sent \in BOOLEAN /\ (sent => w.sent)
    BY <1>1, FreshTyped DEF Work
  <2>4. pc \in {"next", "record"}
    BY <2>2
  <2>5. Step(p, v)
    BY <2>1
  <2>6. v \in Work /\ v.left \subseteq w.left /\ (v.sent => w.sent)
    <3>1. w.left \ {r} \in SUBSET Rows /\ w.left \ {r} \subseteq w.left
      BY <1>1 DEF Work
    <3>2. pc \in {"list", "next", "send", "record", "done"}
      BY <2>4
    <3> HIDE DEF copy, sent, pc
    <3>3. v \in Work
      BY <1>1, <2>3, <3>1, <3>2 DEF Work
    <3>4. v.left = w.left \ {r}
      BY <1>1 DEF Work
    <3>5. v.sent = sent
      BY <1>1 DEF Work
    <3> QED
      BY <2>3, <3>1, <3>3, <3>4, <3>5
  <2>7. w.sent => \A s \in w.left : mailed[s] > 0
    BY <2>2 DEF DeliveryInv, ResultsTrue
  <2>8. /\ Result(w.sent, w.copy[r], rows[r]) \in Row
        /\ Result(w.sent, w.copy[r], rows[r]).status = "sent" => mailed[r] > 0
    <3> HIDE DEF w
    <3>0. r \in w.left
      BY <2>1
    <3>1. w.copy[r] \in Row /\ rows[r] \in Row
      BY <1>1, <2>2 DEF Work
    <3>2. Sent(w.copy[r]) \in Row
      BY <3>1, ResultTyped
    <3>3. Failed(rows[r]) \in Row /\ Failed(rows[r]).status # "sent"
      BY <3>1, ResultTyped
    <3>4. CASE w.sent
      <4>1. Result(w.sent, w.copy[r], rows[r]) = Sent(w.copy[r])
        BY <3>4 DEF Result
      <4> QED
        BY <2>7, <3>0, <3>2, <3>4, <4>1
    <3>5. CASE ~w.sent
      <4>1. Result(w.sent, w.copy[r], rows[r]) = Failed(rows[r])
        BY <3>5 DEF Result
      <4> QED
        BY <3>3, <4>1
    <3> QED
      BY <3>4, <3>5
  <2>9. /\ rows' \in [Rows -> Row]
        /\ \A s \in Rows : rows'[s].status = "sent" => mailed[s] > 0
    BY <1>1, <2>1, <2>2, <2>8
  <2>10. UNCHANGED <<admin, mailed, refused>>
    BY <1>6 DEF RecordResult
  <2> HIDE DEF v
  <2> QED
    BY <1>1, <2>5, <2>6, <2>7, <2>9, <2>10, WorkStep
<1> QED
  BY <1>2, <1>3, <1>4, <1>5, <1>6 DEF Deliver

\* The steps outside the job keep it.
LEMMA OthersKeep ==
  ASSUME DeliveryInv,
         \/ UNCHANGED deliveryVars
         \/ \E p \in Pods : JobReturns(p) \/ Killed(p)
         \/ \E to \in Addresses : QueueNotification(to)
         \/ \E a \in Admins : RetryFailed(a) \/ RetrySave(a)
  PROVE  DeliveryInv'
<1>1. /\ rows \in [Rows -> Row] /\ admin \in [Admins -> [list : SUBSET Rows, copy : [Rows -> Row]]]
      /\ \A r \in Rows : rows[r].status = "sent" => mailed[r] > 0
  BY DEF DeliveryInv, TablesOK, SentWasMailed
<1>2. CASE UNCHANGED deliveryVars
  BY <1>2 DEF deliveryVars, DeliveryInv, TablesOK, ResultsTrue, SentWasMailed
<1>3. ASSUME NEW p \in Pods, JobReturns(p) \/ Killed(p) PROVE DeliveryInv'
  <2>1. Step(p, Fresh) /\ KeepRows
    BY <1>3 DEF JobReturns, Killed
  <2>2. Fresh \in Work /\ Fresh.pc # "record"
    BY FreshTyped DEF Fresh
  <2> QED
    BY <2>1, <2>2, WorkStep DEF KeepRows, DeliveryInv, TablesOK, SentWasMailed
<1>4. ASSUME UNCHANGED <<work, mailed, refused>>,
             admin' \in [Admins -> [list : SUBSET Rows, copy : [Rows -> Row]]],
             \/ rows' = rows
             \/ \E r \in Rows : \E row \in Row :
                  row.status # "sent" /\ rows' = [rows EXCEPT ![r] = row]
      PROVE  DeliveryInv'
  BY <1>1, <1>4 DEF DeliveryInv, TablesOK, ResultsTrue, SentWasMailed
<1>5. ASSUME NEW to \in Addresses, QueueNotification(to) PROVE DeliveryInv'
  <2>1. PICK r \in 1 .. Quota[job.digest] :
          rows' = [rows EXCEPT ![r] = [status |-> "pending", retry |-> 0, to |-> to]]
    BY <1>5 DEF QueueNotification
  <2>2. [status |-> "pending", retry |-> 0, to |-> to] \in Row
    BY DEF Row
  <2>3. r \notin Rows => rows' = rows
    BY <1>1, <2>1
  <2> QED
    BY <1>1, <1>4, <1>5, <2>1, <2>2, <2>3 DEF QueueNotification
<1>6. ASSUME NEW a \in Admins, RetryFailed(a) PROVE DeliveryInv'
  <2> DEFINE failed == {r \in Rows : Retryable(rows[r])}
  <2>1. Copied(failed) \in [Rows -> Row]
    BY <1>1, FreshTyped DEF Copied
  <2> QED
    BY <1>1, <1>4, <1>6, <2>1 DEF RetryFailed
<1>7. ASSUME NEW a \in Admins, RetrySave(a) PROVE DeliveryInv'
  <2>1. PICK r \in admin[a].list :
          /\ \/ rows' = [rows EXCEPT ![r] = [admin[a].copy[r] EXCEPT !.status = "pending"]]
             \/ rows' = rows
          /\ admin' = [admin EXCEPT ![a] =
                         IF admin[a].list \ {r} = {} THEN NoRequest
                         ELSE [admin[a] EXCEPT !.list = admin[a].list \ {r}, !.copy[r] = NoRow]]
          /\ UNCHANGED <<work, mailed, refused>>
    BY <1>7 DEF RetrySave
  <2>2. r \in Rows /\ admin[a].copy[r] \in Row
    BY <1>1
  <2>3. /\ [admin[a].copy[r] EXCEPT !.status = "pending"] \in Row
        /\ [admin[a].copy[r] EXCEPT !.status = "pending"].status # "sent"
    BY <2>2 DEF Row
  <2>4. [admin[a] EXCEPT !.list = admin[a].list \ {r}, !.copy[r] = NoRow]
          \in [list : SUBSET Rows, copy : [Rows -> Row]]
    BY <1>1, <2>2, FreshTyped
  <2>5. admin' \in [Admins -> [list : SUBSET Rows, copy : [Rows -> Row]]]
    BY <1>1, <2>1, <2>4, FreshTyped
  <2> QED
    BY <1>4, <2>1, <2>2, <2>3, <2>5
<1> QED
  BY <1>2, <1>3, <1>5, <1>6, <1>7

LEMMA DeliveryInductive == DeliveryInv /\ [Next]_vars => DeliveryInv'
<1> SUFFICES ASSUME DeliveryInv, [Next]_vars PROVE DeliveryInv'
  OBVIOUS
<1>1. CASE UNCHANGED vars
  BY <1>1, OthersKeep DEF vars, deliveryVars
<1>2. ASSUME NEW p \in Pods, Loop(p) \/ Outside(p) PROVE DeliveryInv'
  BY <1>2, DeliverKeeps, OthersKeep DEF Loop, Outside
<1> QED
  BY <1>1, <1>2, OthersKeep DEF Next

(***************************************************************************)
(* A delivery marked sent has been mailed, in every behaviour: nothing     *)
(* that fails, and no copy written back late, makes the mark untrue.       *)
(***************************************************************************)
THEOREM SentMeansMailed == Spec => []SentWasMailed
<1>1. DeliveryInv => SentWasMailed
  BY DEF DeliveryInv
<1> QED
  BY <1>1, DeliveryInitially, DeliveryInductive, PTL DEF Spec

(***************************************************************************)
(* Type correctness of the composition.                                    *)
(***************************************************************************)
THEOREM DeliveryTypeCorrect == Spec => []TypeOK
<1>1. DeliveryInv /\ SchedInv => TypeOK
  BY DEF DeliveryInv, TablesOK, SchedInv, TypeOK
<1>2. SchedInv /\ [Next]_vars => SchedInv'
  BY DeliverySchedules, SchedInductive DEF SchedInv
<1>3. Init => SchedInv
  BY SchedInitially DEF Init
<1> QED
  BY <1>1, <1>2, <1>3, DeliveryInitially, DeliveryInductive, PTL DEF Spec

-----------------------------------------------------------------------------
(* As long as nothing has failed: one mail per delivery, retries that end, *)
(* and marks that stay.                                                    *)

\* The job has one window at a time: it runs in one hour of the day, or the hour
\* does not change (DeliveryHourChange is what happens when it does).
OneWindow == \A j \in Jobs : j.at # Nil \/ j.hours = 1
TheWindow == IF job.at = Nil THEN 0 ELSE job.at

\* The administrators' retries do not overlap.
OneAdministrator == \A a, b \in Admins : a = b

\* No process is stopping and no lock is lost, and only a run of the job has work.
Steady(p) ==
  /\ pod[p].up = "up" /\ ~pod[p].lost
  /\ pod[p].stage # "idle" => pod[p].window = TheWindow
  /\ pod[p].stage # "running" => work[p] = Fresh

\* No delivery is twice in the hands of a run.
Apart(w) ==
  /\ w.pc \in {"list", "next", "done"} => w.left = {}
  /\ w.pc = "list" => w.todo = {}
  /\ \A g, h \in w.todo : g = h \/ g \cap h = {}
  /\ \A g \in w.todo : g \cap w.left = {}

\* What a run holds is due until the run records otherwise.
HeldDue(w) ==
  /\ \A g \in w.todo : \A r \in g : Pending(rows[r])
  /\ \A r \in w.left : Pending(rows[r])

\* One message is under way for what is about to be recorded.
Recording(w, r) == w.pc = "record" /\ r \in w.left
Counted(w) ==
  \A r \in Rows : Recording(w, r) =>
    /\ mailed[r] = IF w.sent THEN 1 ELSE 0
    /\ refused[r] <= rows[r].retry + 1

RunTrue(w) == Apart(w) /\ HeldDue(w) /\ Counted(w)

\* A row counts its refusals, and is mailed when it is marked sent or about to be.
RowTrue(r, recording) ==
  /\ mailed[r] <= 1 /\ refused[r] <= MaxRetries
  /\ rows[r].status = "none" => refused[r] = 0
  /\ Pending(rows[r]) => rows[r].retry < MaxRetries
  /\ rows[r].status # "sent" /\ ~recording => mailed[r] = 0 /\ refused[r] <= rows[r].retry

\* What a request is about to reset has failed and is as it was listed.
ListTrue(a) ==
  \A r \in admin[a].list : Retryable(rows[r]) /\ rows[r] = admin[a].copy[r]

Quiet ==
  /\ \A p \in Pods : Steady(p) /\ RunTrue(work[p])
  /\ \A r \in Rows : RowTrue(r, \E p \in Pods : Recording(work[p], r))
  /\ \A a \in Admins : ListTrue(a)

\* The invariant: the scheduler's, the types, and until a fault all of that.
QuietInv == SchedInv /\ DeliveryInv /\ (faults = 0 => Quiet)

\* What a step starts from.
Calm == SchedInv /\ TablesOK /\ Quiet /\ OneWindow /\ OneAdministrator

LEMMA QuietInitially == Init => QuietInv
<1> SUFFICES ASSUME Init PROVE QuietInv
  OBVIOUS
<1>1. SchedInv /\ DeliveryInv
  BY SchedInitially, DeliveryInitially DEF Init
<1>2. ASSUME NEW p \in Pods PROVE Steady(p) /\ RunTrue(work[p])
  BY DEF Init, SchedInit, Started, Steady, RunTrue, Apart, HeldDue, Counted, Recording, Fresh
<1>3. ASSUME NEW r \in Rows, NEW recording \in BOOLEAN PROVE RowTrue(r, recording)
  BY DeliveryAssumption DEF Init, RowTrue, NoRows, NoRow, Pending
<1>4. ASSUME NEW a \in Admins PROVE ListTrue(a)
  BY DEF Init, ListTrue, NoRequest
<1> QED
  BY <1>1, <1>2, <1>3, <1>4 DEF QuietInv, Quiet

\* An invariant's step from before the first fault: there was none in it.
LEMMA FaultsGrow ==
  SchedTypeOK /\ [Next]_vars => faults' = faults \/ faults' = faults + 1
<1> SUFFICES ASSUME SchedTypeOK, [Next]_vars PROVE faults' = faults \/ faults' = faults + 1
  OBVIOUS
<1>1. [SchedNext]_schedVars
  BY DeliverySchedules
<1> QED
  BY <1>1 DEF SchedNext, schedVars, HourPasses, FaultElsewhere, Fault, Tick, Acquire, Skip,
     Return, LoseSession, Stop, Exit, Crash, Restart, HalfInterval, StatementOk, StatementFails

\* While nothing fails, one pod at most runs the job.
LEMMA RunsAlone ==
  ASSUME Calm, NEW p \in Pods, pod[p].stage = "running", NEW q \in Pods, q # p
  PROVE  work[q] = Fresh
<1>1. /\ pod[p].window = TheWindow /\ ~pod[p].lost /\ ~pod[q].lost
      /\ pod[q].stage = "running" => pod[q].window = TheWindow
      /\ pod[q].stage # "running" => work[q] = Fresh
  BY DEF Calm, Quiet, Steady
<1>2. OneRunPerWindow
  BY LockExcludes DEF Calm
<1> QED
  BY <1>1, <1>2 DEF OneRunPerWindow

\* A run that has not begun holds nothing.
LEMMA FreshTrue == RunTrue(Fresh) /\ \A r \in Rows : ~Recording(Fresh, r)
BY DEF RunTrue, Apart, HeldDue, Counted, Recording, Fresh

\* A step of the run of one pod is one on its own rows.
LEMMA RunStep ==
  ASSUME Calm, NEW p \in Pods, NEW w \in Work, Step(p, w),
         \A q \in Pods : q # p => work[q] = Fresh,
         \A q \in Pods : Steady(q)',
         RunTrue(w)',
         \A r \in Rows : RowTrue(r, Recording(w, r))',
         UNCHANGED admin,
         \A r \in Rows : rows[r].status = "failed" => rows'[r] = rows[r]
  PROVE  Quiet'
<1>1. \A q \in Pods : work'[q] = IF q = p THEN w ELSE Fresh
  BY DEF Calm, TablesOK, Step
<1>2. ASSUME NEW q \in Pods PROVE RunTrue(work[q])'
  <2>1. RunTrue(Fresh)'
    BY DEF RunTrue, Apart, HeldDue, Counted, Recording, Fresh
  <2>2. CASE q = p
    BY <1>1, <2>2 DEF RunTrue, Apart, HeldDue, Counted, Recording
  <2>3. CASE q # p
    BY <1>1, <2>1, <2>3 DEF RunTrue, Apart, HeldDue, Counted, Recording
  <2> QED
    BY <2>2, <2>3
<1>3. ASSUME NEW r \in Rows PROVE RowTrue(r, \E q \in Pods : Recording(work[q], r))'
  <2>1. (\E q \in Pods : Recording(work[q], r))' <=> Recording(w, r)
    BY <1>1, FreshTrue DEF Recording
  <2>2. RowTrue(r, Recording(w, r))'
    OBVIOUS
  <2> QED
    BY <2>1, <2>2 DEF RowTrue
<1>4. ASSUME NEW a \in Admins PROVE ListTrue(a)'
  <2>1. admin[a].list \subseteq Rows
    BY DEF Calm, TablesOK
  <2>2. \A r \in admin[a].list : Retryable(rows[r]) /\ rows[r] = admin[a].copy[r]
    BY DEF Calm, Quiet, ListTrue
  <2> QED
    BY <2>1, <2>2 DEF ListTrue, Retryable
<1> QED
  BY <1>2, <1>3, <1>4 DEF Quiet

\* Nothing happens to the processes while the job runs its course.
LEMMA StaysSteady ==
  ASSUME Calm, NEW p \in Pods, pod[p].stage = "running",
         UNCHANGED <<job, pod>>, NEW w \in Work, Step(p, w)
  PROVE  \A q \in Pods : Steady(q)'
<1> SUFFICES ASSUME NEW q \in Pods PROVE Steady(q)'
  OBVIOUS
<1>1. Steady(q) /\ (q # p => work'[q] = work[q])
  BY DEF Calm, Quiet, TablesOK, Step
<1>2. TheWindow' = TheWindow
  BY DEF TheWindow
<1> QED
  BY <1>1, <1>2 DEF Steady

\* What a calm state says of the rows and of one run.
LEMMA CalmRun ==
  ASSUME Calm, NEW p \in Pods
  PROVE  /\ work[p] \in Work /\ RunTrue(work[p])
         /\ pod[p].stage # "running" => work[p] = Fresh
         /\ rows \in [Rows -> Row] /\ mailed \in [Rows -> 0 .. 2]
         /\ refused \in [Rows -> 0 .. MaxRetries + 1]
         /\ pod[p].stage = "running" =>
              /\ \A r \in Rows : RowTrue(r, Recording(work[p], r))
              /\ \A q \in Pods : q # p => work[q] = Fresh
<1>1. /\ work[p] \in Work /\ RunTrue(work[p])
      /\ pod[p].stage # "running" => work[p] = Fresh
      /\ rows \in [Rows -> Row] /\ mailed \in [Rows -> 0 .. 2]
      /\ refused \in [Rows -> 0 .. MaxRetries + 1]
  BY DEF Calm, TablesOK, Quiet, Steady
<1>2. ASSUME pod[p].stage = "running" PROVE \A q \in Pods : q # p => work[q] = Fresh
  BY <1>2, RunsAlone
<1>3. ASSUME pod[p].stage = "running", NEW r \in Rows PROVE RowTrue(r, Recording(work[p], r))
  <2>1. (\E q \in Pods : Recording(work[q], r)) <=> Recording(work[p], r)
    BY <1>2, <1>3, FreshTrue
  <2>2. RowTrue(r, \E q \in Pods : Recording(work[q], r))
    BY DEF Calm, Quiet
  <2> QED
    BY <2>1, <2>2 DEF RowTrue
<1> QED
  BY <1>1, <1>2, <1>3

\* Rows as listed fall into groups that have nothing in common.
LEMMA GroupsApart ==
  /\ \A g, h \in Groups : g = h \/ g \cap h = {}
  /\ \A g \in Groups : g \subseteq Rows /\ \A r \in g : Pending(rows[r])
<1>1. ASSUME NEW r \in Rows, NEW s \in Rows, NEW t \in Rows, Together(r, t), Together(s, t),
             NEW u \in Rows, Together(r, u)
      PROVE  Together(s, u)
  BY <1>1 DEF Together
<1> QED
  BY <1>1 DEF Groups

LEMMA ListingQuiet ==
  ASSUME Calm, NEW p \in Pods, ListPending(p), faults' = faults PROVE Quiet'
<1> DEFINE w == work[p]
<1>1. /\ pod[p].stage = "running" /\ w.pc = "list"
      /\ Step(p, [w EXCEPT !.pc = "next", !.todo = Groups, !.copy = Copied(UNION Groups)])
         \/ Step(p, [w EXCEPT !.pc = "done"])
      /\ UNCHANGED <<job, pod, rows, admin, mailed, refused>>
  BY DEF ListPending, Running, KeepSched
<1>2. /\ w \in Work /\ RunTrue(w) /\ \A r \in Rows : RowTrue(r, Recording(w, r))
      /\ \A q \in Pods : q # p => work[q] = Fresh
      /\ rows \in [Rows -> Row]
  BY <1>1, CalmRun
<1>3. Groups \in SUBSET SUBSET Rows /\ Copied(UNION Groups) \in [Rows -> Row]
  BY <1>2, FreshTyped DEF Groups, Copied
<1>4. PICK v \in Work :
        /\ Step(p, v) /\ v.pc \in {"next", "done"} /\ v.left = {}
        /\ v.todo \in {Groups, {}}
  <2>1. w.left = {} /\ w.todo = {}
    BY <1>1, <1>2 DEF RunTrue, Apart
  <2> DEFINE v1 == [w EXCEPT !.pc = "done"]
  <2> DEFINE v2 == [w EXCEPT !.pc = "next", !.todo = Groups, !.copy = Copied(UNION Groups)]
  <2>2. v1 \in Work /\ v1.pc = "done" /\ v1.left = {} /\ v1.todo = {}
    BY <1>2, <2>1 DEF Work
  <2>3. v2 \in Work /\ v2.pc = "next" /\ v2.left = {} /\ v2.todo = Groups
    BY <1>2, <1>3, <2>1 DEF Work
  <2>4. Step(p, v1) \/ Step(p, v2)
    BY <1>1
  <2> HIDE DEF v1, v2
  <2> QED
    BY <2>2, <2>3, <2>4
<1>5. \A g \in v.todo : \A r \in g : r \in Rows /\ Pending(rows[r])
  BY <1>4, GroupsApart
<1>6. \A g, h \in v.todo : g = h \/ g \cap h = {}
  BY <1>4, GroupsApart
<1>7. Apart(v)
  BY <1>4, <1>6 DEF Apart
<1>8. RunTrue(v)'
  BY <1>1, <1>4, <1>5, <1>7 DEF RunTrue, HeldDue, Counted, Recording, Apart, Pending
<1>9. ASSUME NEW r \in Rows PROVE RowTrue(r, Recording(v, r))'
  <2>1. ~Recording(v, r) /\ ~Recording(w, r)
    BY <1>1, <1>4 DEF Recording
  <2>2. RowTrue(r, Recording(w, r))
    BY <1>2
  <2> QED
    BY <1>1, <2>1, <2>2 DEF RowTrue, Recording, Pending
<1>10. \A q \in Pods : Steady(q)'
  BY <1>1, <1>4, StaysSteady
<1> QED
  BY <1>1, <1>2, <1>4, <1>8, <1>9, <1>10, RunStep

LEMMA DoneQuiet ==
  ASSUME Calm, NEW p \in Pods, NoMoreGroups(p) PROVE Quiet'
<1> DEFINE w == work[p]
<1> DEFINE v == [w EXCEPT !.pc = "done"]
<1>1. /\ pod[p].stage = "running" /\ w.pc = "next" /\ w.todo = {} /\ Step(p, v)
      /\ UNCHANGED <<job, pod, rows, admin, mailed, refused>>
  BY DEF NoMoreGroups, Running, schedVars
<1>2. /\ w \in Work /\ RunTrue(w) /\ \A r \in Rows : RowTrue(r, Recording(w, r))
      /\ \A q \in Pods : q # p => work[q] = Fresh
  BY <1>1, CalmRun
<1>3. w.left = {}
  BY <1>1, <1>2 DEF RunTrue, Apart
<1>4. v \in Work /\ v.pc = "done" /\ v.left = {} /\ v.todo = {}
  BY <1>1, <1>2, <1>3 DEF Work
<1> HIDE DEF v
<1>5. PICK u \in Work : u = v
  BY <1>4
<1>6. RunTrue(u)'
  BY <1>4, <1>5 DEF RunTrue, HeldDue, Counted, Recording, Apart
<1>7. ASSUME NEW r \in Rows PROVE RowTrue(r, Recording(u, r))'
  <2>1. ~Recording(u, r) /\ ~Recording(w, r)
    BY <1>1, <1>4, <1>5 DEF Recording
  <2>2. RowTrue(r, Recording(w, r))
    BY <1>2
  <2> QED
    BY <1>1, <2>1, <2>2 DEF RowTrue, Recording, Pending
<1>8. \A q \in Pods : Steady(q)'
  BY <1>1, <1>5, StaysSteady
<1> QED
  BY <1>1, <1>2, <1>5, <1>6, <1>7, <1>8, RunStep

LEMMA NextGroupQuiet ==
  ASSUME Calm, NEW p \in Pods, NextGroup(p), faults' = faults PROVE Quiet'
<1> DEFINE w == work[p]
<1>1. /\ pod[p].stage = "running" /\ w.pc = "next"
      /\ UNCHANGED <<job, pod, admin, mailed, refused>>
  BY DEF NextGroup, Running, KeepSched
<1>2. /\ w \in Work /\ RunTrue(w) /\ \A r \in Rows : RowTrue(r, Recording(w, r))
      /\ \A q \in Pods : q # p => work[q] = Fresh
      /\ rows \in [Rows -> Row]
  BY <1>1, CalmRun
<1>3. PICK g \in w.todo :
        /\ Step(p, [[w EXCEPT !.todo = @ \ {g}] EXCEPT !.pc = "send", !.left = g])
           \/ Step(p, [w EXCEPT !.todo = @ \ {g}])
        /\ \/ \E r \in g : rows' = [rows EXCEPT ![r].status = "queued"]
           \/ rows' = rows
  BY DEF NextGroup
<1>4. /\ w.left = {} /\ g \subseteq Rows /\ w.todo \in SUBSET SUBSET Rows
      /\ \A h \in w.todo : h = g \/ h \cap g = {}
      /\ \A h \in w.todo : \A r \in h : Pending(rows[r])
      /\ \A h, k \in w.todo : h = k \/ h \cap k = {}
  BY <1>1, <1>2 DEF RunTrue, Apart, HeldDue, Work
<1>5. PICK v \in Work :
        /\ Step(p, v) /\ v.pc \in {"next", "send"} /\ v.left \in {g, {}}
        /\ (v.pc = "next" => v.left = {}) /\ v.todo = w.todo \ {g}
  <2> DEFINE v1 == [w EXCEPT !.todo = @ \ {g}]
  <2> DEFINE v2 == [v1 EXCEPT !.pc = "send", !.left = g]
  <2>1. v1 \in Work /\ v1.pc = "next" /\ v1.left = {} /\ v1.todo = w.todo \ {g}
    BY <1>1, <1>2, <1>4 DEF Work
  <2>2. v2 \in Work /\ v2.pc = "send" /\ v2.left = g /\ v2.todo = w.todo \ {g}
    BY <1>1, <1>2, <1>4, <2>1 DEF Work
  <2>3. Step(p, v1) \/ Step(p, v2)
    BY <1>3
  <2> HIDE DEF v1, v2
  <2> QED
    BY <2>1, <2>2, <2>3
<1>6. ASSUME NEW r \in Rows
      PROVE  /\ rows'[r].retry = rows[r].retry
             /\ rows'[r].status # rows[r].status => rows'[r].status = "queued" /\ r \in g
             /\ rows'[r] # rows[r] => r \in g
  <2>1. CASE rows' = rows
    BY <2>1
  <2>2. ASSUME NEW s \in g, rows' = [rows EXCEPT ![s].status = "queued"]
        PROVE  /\ rows'[r].retry = rows[r].retry
               /\ rows'[r].status # rows[r].status => rows'[r].status = "queued" /\ r \in g
               /\ rows'[r] # rows[r] => r \in g
    BY <1>2, <1>4, <2>2 DEF Row
  <2> QED
    BY <1>3, <2>1, <2>2
<1>7. \A r \in Rows : Pending(rows[r]) <=> Pending(rows'[r])
  BY <1>4, <1>6 DEF Pending
<1>8. Apart(v)
  BY <1>4, <1>5 DEF Apart
<1>9. RunTrue(v)'
  <2>1. HeldDue(v)'
    <3>1. /\ \A h \in v.todo : \A r \in h : r \in Rows /\ Pending(rows[r])
          /\ \A r \in v.left : r \in Rows /\ Pending(rows[r])
      BY <1>4, <1>5
    <3>2. /\ \A h \in v.todo : \A r \in h : Pending(rows'[r])
          /\ \A r \in v.left : Pending(rows'[r])
      BY <1>7, <3>1
    <3> QED
      BY <3>2 DEF HeldDue, Pending
  <2>2. Counted(v)'
    BY <1>5 DEF Counted, Recording
  <2> QED
    BY <1>8, <2>1, <2>2 DEF RunTrue, Apart
<1>10. ASSUME NEW r \in Rows PROVE RowTrue(r, Recording(v, r))'
  <2>1. ~Recording(v, r) /\ ~Recording(w, r)
    BY <1>1, <1>5 DEF Recording
  <2>2. RowTrue(r, Recording(w, r))
    BY <1>2
  <2>3. r \in g => Pending(rows[r])
    BY <1>4
  <2>4. /\ rows'[r].retry = rows[r].retry
        /\ rows'[r].status # rows[r].status => rows'[r].status = "queued" /\ r \in g
    BY <1>6
  <2> QED
    BY <1>1, <2>1, <2>2, <2>3, <2>4 DEF RowTrue, Recording, Pending
<1>11. \A r \in Rows : rows[r].status = "failed" => rows'[r] = rows[r]
  BY <1>4, <1>6 DEF Pending
<1>12. \A q \in Pods : Steady(q)'
  BY <1>1, <1>5, StaysSteady
<1> QED
  BY <1>1, <1>2, <1>5, <1>9, <1>10, <1>11, <1>12, RunStep

LEMMA DispatchQuiet ==
  ASSUME Calm, NEW p \in Pods, Dispatch(p), faults \in Nat, faults' = faults PROVE Quiet'
<1> DEFINE w == work[p]
<1>1. /\ pod[p].stage = "running" /\ w.pc = "send"
      /\ UNCHANGED <<job, pod, rows, admin>>
  BY DEF Dispatch, Running, KeepSched
<1>2. /\ w \in Work /\ RunTrue(w) /\ \A r \in Rows : RowTrue(r, Recording(w, r))
      /\ \A q \in Pods : q # p => work[q] = Fresh
      /\ rows \in [Rows -> Row]
      /\ mailed \in [Rows -> 0 .. 2] /\ refused \in [Rows -> 0 .. MaxRetries + 1]
  BY <1>1, CalmRun
<1>3. PICK sent \in BOOLEAN :
        /\ Step(p, [w EXCEPT !.pc = "record", !.sent = sent])
        /\ sent => mailed' = OneMore(mailed, w.left, 2) /\ refused' = refused
        /\ ~sent => mailed' = mailed /\ refused' = OneMore(refused, w.left, MaxRetries + 1)
  <2>1. ~Fault
    BY DEF Fault
  <2>2. CASE mailed' = OneMore(mailed, w.left, 2) /\ refused' = refused
             /\ Step(p, [w EXCEPT !.pc = "record", !.sent = TRUE])
    BY <2>2
  <2>3. CASE mailed' = mailed /\ refused' = OneMore(refused, w.left, MaxRetries + 1)
             /\ Step(p, [w EXCEPT !.pc = "record", !.sent = FALSE])
    BY <2>3
  <2> QED
    BY <2>1, <2>2, <2>3 DEF Dispatch
<1>4. PICK v \in Work :
        Step(p, v) /\ v.pc = "record" /\ v.sent = sent /\ v.left = w.left /\ v.todo = w.todo
  <2> DEFINE u == [w EXCEPT !.pc = "record", !.sent = sent]
  <2>1. u \in Work
    BY <1>2 DEF Work
  <2>2. u.pc = "record" /\ u.sent = sent /\ u.left = w.left /\ u.todo = w.todo
    BY <1>2 DEF Work
  <2> QED
    BY <1>3, <2>1, <2>2
<1>5. /\ \A g, h \in w.todo : g = h \/ g \cap h = {}
      /\ \A g \in w.todo : g \cap w.left = {}
      /\ \A g \in w.todo : \A r \in g : Pending(rows[r])
      /\ \A r \in w.left : Pending(rows[r])
  BY <1>2 DEF RunTrue, Apart, HeldDue
<1>6. ASSUME NEW r \in Rows
      PROVE  /\ rows[r].retry \in Nat /\ mailed[r] \in Nat /\ refused[r] \in Nat
             /\ mailed[r] <= 1 /\ refused[r] <= MaxRetries
             /\ rows[r].status = "none" => refused[r] = 0
             /\ Pending(rows[r]) => rows[r].retry < MaxRetries
             /\ rows[r].status # "sent" => mailed[r] = 0 /\ refused[r] <= rows[r].retry
  <2>1. RowTrue(r, Recording(w, r)) /\ ~Recording(w, r)
    BY <1>1, <1>2 DEF Recording
  <2>2. rows[r].retry \in Nat
    BY <1>2 DEF Row
  <2>3. mailed[r] \in Nat /\ refused[r] \in Nat
    BY <1>2, DeliveryAssumption
  <2> QED
    BY <2>1, <2>2, <2>3 DEF RowTrue
<1>7. ASSUME NEW r \in Rows
      PROVE  /\ r \notin w.left => mailed'[r] = mailed[r] /\ refused'[r] = refused[r]
             /\ r \in w.left => mailed'[r] = (IF sent THEN 1 ELSE 0)
             /\ r \in w.left => refused'[r] = (IF sent THEN refused[r] ELSE refused[r] + 1)
  <2>1. r \in w.left => rows[r].status # "sent" /\ mailed[r] = 0 /\ refused[r] < MaxRetries
    <3>1. r \in w.left => Pending(rows[r])
      BY <1>5
    <3> QED
      BY <1>6, <3>1, DeliveryAssumption DEF Pending
  <2>2. OneMore(mailed, w.left, 2)[r] = IF r \in w.left /\ mailed[r] < 2 THEN mailed[r] + 1 ELSE mailed[r]
    BY DEF OneMore
  <2>3. OneMore(refused, w.left, MaxRetries + 1)[r]
          = IF r \in w.left /\ refused[r] < MaxRetries + 1 THEN refused[r] + 1 ELSE refused[r]
    BY DEF OneMore
  <2> QED
    BY <1>3, <1>6, <2>1, <2>2, <2>3, DeliveryAssumption
<1>8. RunTrue(v)'
  <2>1. Apart(v)'
    BY <1>4, <1>5 DEF Apart
  <2>2. HeldDue(v)'
    BY <1>1, <1>4, <1>5 DEF HeldDue, Pending
  <2>3. ASSUME NEW r \in Rows, r \in v.left
        PROVE  mailed'[r] = (IF v.sent THEN 1 ELSE 0) /\ refused'[r] <= rows[r].retry + 1
    <3>1. r \in w.left /\ v.sent = sent /\ rows[r].status # "sent"
      BY <1>4, <1>5, <2>3 DEF Pending
    <3> QED
      BY <1>6, <1>7, <3>1
  <2>4. Counted(v)'
    BY <1>1, <2>3 DEF Counted, Recording
  <2> QED
    BY <2>1, <2>2, <2>4 DEF RunTrue
<1>9. ASSUME NEW r \in Rows PROVE RowTrue(r, Recording(v, r))'
  <2>1. Recording(v, r) <=> r \in w.left
    BY <1>4 DEF Recording
  <2>2. r \in w.left => Pending(rows[r])
    BY <1>5
  <2>3. mailed'[r] <= 1 /\ refused'[r] <= MaxRetries
    BY <1>6, <1>7, <2>2, DeliveryAssumption DEF Pending
  <2>4. rows[r].status = "none" => refused'[r] = 0
    BY <1>6, <1>7, <2>2 DEF Pending
  <2>5. rows[r].status # "sent" /\ ~Recording(v, r) => mailed'[r] = 0 /\ refused'[r] <= rows[r].retry
    BY <1>6, <1>7, <2>1
  <2>6. Pending(rows[r]) => rows[r].retry < MaxRetries
    BY <1>6
  <2> QED
    BY <1>1, <2>3, <2>4, <2>5, <2>6 DEF RowTrue, Recording, Pending
<1>10. \A q \in Pods : Steady(q)'
  BY <1>1, <1>4, StaysSteady
<1> QED
  BY <1>1, <1>2, <1>4, <1>8, <1>9, <1>10, RunStep

LEMMA RecordQuiet ==
  ASSUME Calm, NEW p \in Pods, RecordResult(p), faults \in Nat, faults' = faults PROVE Quiet'
<1> DEFINE w == work[p]
<1>1. /\ pod[p].stage = "running" /\ w.pc = "record"
      /\ UNCHANGED <<job, pod, admin, mailed, refused>>
  BY DEF RecordResult, Running, KeepSched
<1>2. /\ w \in Work /\ RunTrue(w) /\ \A r \in Rows : RowTrue(r, Recording(w, r))
      /\ \A q \in Pods : q # p => work[q] = Fresh
      /\ rows \in [Rows -> Row]
      /\ mailed \in [Rows -> 0 .. 2] /\ refused \in [Rows -> 0 .. MaxRetries + 1]
  BY <1>1, CalmRun
<1>3. PICK s \in w.left :
        /\ rows' = [rows EXCEPT ![s] = Result(w.sent, w.copy[s], rows[s])]
        /\ Step(p, [w EXCEPT !.left = @ \ {s}, !.copy[s] = NoRow,
                             !.sent = @ /\ w.left # {s},
                             !.pc = IF w.left = {s} THEN "next" ELSE @])
  <2>1. pod[p].up = "up"
    BY DEF Calm, Quiet, Steady
  <2>2. ~StatementFails(p)
    BY <2>1 DEF StatementFails, Fault
  <2> QED
    BY <2>2 DEF RecordResult
<1>4. s \in Rows /\ w.left \in SUBSET Rows /\ w.copy \in [Rows -> Row] /\ w.sent \in BOOLEAN
  BY <1>2, <1>3 DEF Work
<1>5. PICK v \in Work :
        /\ Step(p, v) /\ v.todo = w.todo /\ v.left = w.left \ {s}
        /\ \/ v.pc = "next" /\ v.left = {}
           \/ v.pc = "record" /\ v.sent = w.sent /\ v.left # {}
  <2> DEFINE copy == [w.copy EXCEPT ![s] = NoRow]
  <2> DEFINE sent == w.sent /\ w.left # {s}
  <2> DEFINE pc == IF w.left = {s} THEN "next" ELSE w.pc
  <2> DEFINE u == [w EXCEPT !.left = @ \ {s}, !.copy = copy, !.sent = sent, !.pc = pc]
  <2>1. copy \in [Rows -> Row] /\ sent \in BOOLEAN /\ pc \in {"next", "record"}
    BY <1>1, <1>4, FreshTyped
  <2>2. /\ w.left = {s} => pc = "next" /\ w.left \ {s} = {}
        /\ w.left # {s} => pc = "record" /\ (sent <=> w.sent) /\ w.left \ {s} # {}
    BY <1>1, <1>3
  <2>3. Step(p, u)
    BY <1>3
  <2> HIDE DEF copy, sent, pc
  <2>4. u \in Work
    BY <1>2, <1>4, <2>1 DEF Work
  <2>5. u.left = w.left \ {s} /\ u.todo = w.todo /\ u.pc = pc
    BY <1>2 DEF Work
  <2>6. u.sent = sent
    BY <1>2 DEF Work
  <2>7. w.left # {s} => u.sent = w.sent
    BY <1>4, <2>1, <2>2, <2>6
  <2> HIDE DEF u
  <2> QED
    BY <2>2, <2>3, <2>4, <2>5, <2>7
<1>6. /\ \A g, h \in w.todo : g = h \/ g \cap h = {}
      /\ \A g \in w.todo : g \cap w.left = {}
      /\ \A g \in w.todo : \A r \in g : r \in Rows /\ Pending(rows[r])
      /\ \A r \in w.left : r \in Rows /\ Pending(rows[r])
      /\ \A r \in w.left : mailed[r] = (IF w.sent THEN 1 ELSE 0) /\ refused[r] <= rows[r].retry + 1
  BY <1>1, <1>2 DEF RunTrue, Apart, HeldDue, Work, Counted, Recording
<1>7. /\ \A r \in Rows : r # s => rows'[r] = rows[r]
      /\ w.sent => rows'[s].status = "sent"
      /\ ~w.sent => rows'[s].status = "failed" /\ rows'[s].retry = rows[s].retry + 1
  <2>1. rows'[s] = Result(w.sent, w.copy[s], rows[s])
    BY <1>2, <1>3, <1>4
  <2>2. w.copy[s] \in Row /\ rows[s] \in Row
    BY <1>2, <1>4
  <2>3. Sent(w.copy[s]).status = "sent"
    BY <2>2 DEF Sent, Row
  <2>4. Failed(rows[s]).status = "failed" /\ Failed(rows[s]).retry = rows[s].retry + 1
    BY <2>2 DEF Failed, Row
  <2> QED
    BY <1>2, <1>3, <2>1, <2>3, <2>4 DEF Result
<1>8. RunTrue(v)'
  <2>1. Apart(v)'
    BY <1>5, <1>6 DEF Apart
  <2>2. /\ \A g \in v.todo : \A r \in g : r \in Rows /\ r # s /\ Pending(rows[r])
        /\ \A r \in v.left : r \in Rows /\ r # s /\ Pending(rows[r])
    BY <1>3, <1>5, <1>6
  <2>3. HeldDue(v)'
    BY <1>7, <2>2 DEF HeldDue, Pending
  <2>4. ASSUME NEW r \in Rows, Recording(v, r)
        PROVE  mailed[r] = (IF v.sent THEN 1 ELSE 0) /\ refused[r] <= rows'[r].retry + 1
    <3>1. r \in w.left /\ r # s /\ v.sent = w.sent
      BY <1>5, <2>4 DEF Recording
    <3> QED
      BY <1>6, <1>7, <3>1
  <2>5. Counted(v)'
    BY <1>1, <2>4 DEF Counted, Recording
  <2> QED
    BY <2>1, <2>3, <2>5 DEF RunTrue
<1>9. ASSUME NEW r \in Rows PROVE RowTrue(r, Recording(v, r))'
  <2>1. RowTrue(r, Recording(w, r))
    BY <1>2
  <2>2. CASE r # s
    <3>1. Recording(v, r) <=> Recording(w, r)
      BY <1>1, <1>5, <2>2 DEF Recording
    <3>2. rows'[r] = rows[r]
      BY <1>7, <2>2
    <3> QED
      BY <1>1, <2>1, <3>1, <3>2 DEF RowTrue, Recording, Pending
  <2>3. CASE r = s
    <3>1. mailed[s] <= 1 /\ refused[s] <= MaxRetries
      BY <2>1, <2>3 DEF RowTrue
    <3>2. ~w.sent => mailed[s] = 0 /\ refused[s] <= rows'[s].retry
      BY <1>3, <1>6, <1>7
    <3>3. w.sent => rows'[s].status = "sent"
      BY <1>7
    <3>4. ~w.sent => rows'[s].status = "failed"
      BY <1>7
    <3> QED
      BY <1>1, <1>4, <2>3, <3>1, <3>2, <3>3, <3>4 DEF RowTrue, Pending
  <2> QED
    BY <2>2, <2>3
<1>10. \A r \in Rows : rows[r].status = "failed" => rows'[r] = rows[r]
  BY <1>3, <1>6, <1>7 DEF Pending
<1>11. \A q \in Pods : Steady(q)'
  BY <1>1, <1>5, StaysSteady
<1> QED
  BY <1>1, <1>2, <1>5, <1>8, <1>9, <1>10, <1>11, RunStep

\* What a calm state says of a row no run is recording.
LEMMA CalmRow ==
  ASSUME Calm, NEW r \in Rows
  PROVE  /\ rows \in [Rows -> Row]
         /\ RowTrue(r, \E p \in Pods : Recording(work[p], r))
         /\ ~Pending(rows[r]) => /\ \A p \in Pods : r \notin work[p].left
                                 /\ \A p \in Pods : \A g \in work[p].todo : r \notin g
                                 /\ ~\E p \in Pods : Recording(work[p], r)
BY DEF Calm, TablesOK, Quiet, RunTrue, HeldDue, Recording

\* A step outside the runs, on rows that were not due and now are.
LEMMA RowStep ==
  ASSUME Calm, UNCHANGED <<job, pod, work, mailed, refused>>,
         \A r \in Rows : rows'[r] # rows[r] =>
           /\ rows[r].status \in {"none", "failed"}
           /\ rows'[r].status = "pending" /\ rows'[r].retry < MaxRetries
           /\ rows[r].status = "none" => rows'[r].retry = 0
           /\ rows[r].status = "failed" => rows'[r].retry = rows[r].retry,
         \A a \in Admins : ListTrue(a)'
  PROVE  Quiet'
<1>1. rows \in [Rows -> Row] /\ TheWindow' = TheWindow /\ work' = work
  BY DEF Calm, TablesOK, TheWindow
<1>2. ASSUME NEW p \in Pods PROVE Steady(p)' /\ RunTrue(work[p])'
  <2>1. Steady(p) /\ RunTrue(work[p]) /\ work[p] \in Work
    BY DEF Calm, Quiet, TablesOK
  <2>2. Steady(p)'
    BY <1>1, <2>1 DEF Steady
  <2>3. \A r \in Rows : Pending(rows[r]) => rows'[r] = rows[r]
    BY DEF Pending
  <2>4. /\ \A g \in work[p].todo : \A r \in g : r \in Rows /\ Pending(rows[r])
        /\ \A r \in work[p].left : r \in Rows /\ Pending(rows[r])
    BY <2>1 DEF RunTrue, HeldDue, Work
  <2>5. HeldDue(work[p])'
    <3>1. /\ \A g \in work[p].todo : \A r \in g : Pending(rows'[r])
          /\ \A r \in work[p].left : Pending(rows'[r])
      BY <2>3, <2>4
    <3> QED
      BY <1>1, <3>1 DEF HeldDue, Pending
  <2>6. Counted(work[p])'
    <3>1. \A r \in Rows : Recording(work[p], r) => rows'[r] = rows[r]
      BY <2>3, <2>4 DEF Recording
    <3> QED
      BY <1>1, <2>1, <3>1 DEF RunTrue, Counted, Recording
  <2>7. Apart(work[p])'
    BY <1>1, <2>1 DEF RunTrue, Apart
  <2> QED
    BY <2>2, <2>5, <2>6, <2>7 DEF RunTrue
<1>3. ASSUME NEW r \in Rows PROVE RowTrue(r, \E p \in Pods : Recording(work[p], r))'
  <2>1. RowTrue(r, \E p \in Pods : Recording(work[p], r))
    BY CalmRow
  <2>2. CASE rows'[r] = rows[r]
    BY <1>1, <2>1, <2>2 DEF RowTrue, Recording, Pending
  <2>3. CASE rows'[r] # rows[r]
    <3>1. /\ rows[r].status \in {"none", "failed"}
          /\ rows'[r].status = "pending" /\ rows'[r].retry < MaxRetries
          /\ rows[r].status = "none" => rows'[r].retry = 0
          /\ rows[r].status = "failed" => rows'[r].retry = rows[r].retry
      BY <2>3
    <3>2. ~\E p \in Pods : Recording(work[p], r)
      BY <3>1, CalmRow DEF Pending
    <3>3. /\ mailed[r] = 0 /\ refused[r] <= rows[r].retry /\ refused[r] <= MaxRetries
          /\ rows[r].status = "none" => refused[r] = 0
      BY <2>1, <3>1, <3>2 DEF RowTrue
    <3>4. mailed[r] <= 1 /\ refused[r] <= rows'[r].retry
      BY <3>1, <3>3
    <3> QED
      BY <1>1, <3>1, <3>2, <3>3, <3>4 DEF RowTrue, Recording, Pending
  <2> QED
    BY <2>2, <2>3
<1> QED
  BY <1>2, <1>3 DEF Quiet

LEMMA QueueQuiet ==
  ASSUME Calm, NEW to \in Addresses, QueueNotification(to) PROVE Quiet'
<1>1. PICK r \in 1 .. Quota[job.digest] :
        /\ \A s \in Rows : (rows[s].status = "none") <=> (s >= r)
        /\ rows' = [rows EXCEPT ![r] = [status |-> "pending", retry |-> 0, to |-> to]]
        /\ UNCHANGED <<schedVars, work, admin, mailed, refused>>
  BY DEF QueueNotification
<1>2. rows \in [Rows -> Row] /\ job \in Jobs
  BY DEF Calm, TablesOK, SchedInv, SchedTypeOK
<1>3. r \in Rows
  BY <1>2, DeliveryAssumption, JobsAssumption DEF Rows
<1>4. rows[r].status = "none"
  BY <1>1, <1>3 DEF Rows
<1>5. /\ rows'[r].status = "pending" /\ rows'[r].retry = 0
      /\ \A s \in Rows : s # r => rows'[s] = rows[s]
  BY <1>1, <1>2, <1>3
<1>6. ASSUME NEW a \in Admins PROVE ListTrue(a)'
  <2>1. ListTrue(a) /\ admin[a].list \subseteq Rows
    BY DEF Calm, Quiet, TablesOK
  <2>2. \A s \in admin[a].list : s # r
    BY <1>4, <2>1 DEF ListTrue, Retryable
  <2> QED
    BY <1>1, <1>2, <2>1, <2>2 DEF ListTrue, Retryable
<1>7. UNCHANGED <<job, pod, work, mailed, refused>>
  BY <1>1 DEF schedVars
<1> QED
  BY <1>3, <1>4, <1>5, <1>6, <1>7, RowStep, DeliveryAssumption

LEMMA RetryListQuiet ==
  ASSUME Calm, NEW a \in Admins, RetryFailed(a) PROVE Quiet'
<1> DEFINE failed == {r \in Rows : Retryable(rows[r])}
<1>1. /\ admin' = [admin EXCEPT ![a] = [list |-> failed, copy |-> Copied(failed)]]
      /\ UNCHANGED <<job, pod, rows, work, mailed, refused>>
  BY DEF RetryFailed, schedVars
<1>2. admin \in [Admins -> [list : SUBSET Rows, copy : [Rows -> Row]]]
  BY DEF Calm, TablesOK
<1>3. \A r \in failed : Copied(failed)[r] = rows[r] /\ Retryable(rows[r])
  BY DEF Copied
<1>4. ASSUME NEW b \in Admins PROVE ListTrue(b)'
  <2>1. b = a
    BY DEF Calm, OneAdministrator
  <2>2. admin'[b].list = failed /\ admin'[b].copy = Copied(failed)
    BY <1>1, <1>2, <2>1
  <2> HIDE DEF failed
  <2> QED
    BY <1>1, <1>3, <2>2 DEF ListTrue, Retryable
<1> QED
  BY <1>1, <1>4, RowStep

LEMMA RetrySaveQuiet ==
  ASSUME Calm, NEW a \in Admins, RetrySave(a), faults' = faults, faults \in Nat PROVE Quiet'
<1>1. PICK r \in admin[a].list :
        /\ rows' = [rows EXCEPT ![r] = [admin[a].copy[r] EXCEPT !.status = "pending"]]
        /\ UNCHANGED schedVars
        /\ admin' = [admin EXCEPT ![a] =
                       IF admin[a].list \ {r} = {} THEN NoRequest
                       ELSE [@ EXCEPT !.list = admin[a].list \ {r}, !.copy[r] = NoRow]]
        /\ UNCHANGED <<work, mailed, refused>>
  <2>1. ~FaultElsewhere
    BY DEF FaultElsewhere, Fault
  <2> QED
    BY <2>1 DEF RetrySave
<1>2. /\ admin \in [Admins -> [list : SUBSET Rows, copy : [Rows -> Row]]]
      /\ rows \in [Rows -> Row]
      /\ \A s \in admin[a].list : Retryable(rows[s]) /\ rows[s] = admin[a].copy[s]
  BY DEF Calm, TablesOK, Quiet, ListTrue
<1>3. r \in Rows /\ rows[r] \in Row /\ admin[a].copy[r] = rows[r] /\ Retryable(rows[r])
  BY <1>1, <1>2
<1>4. rows' = [rows EXCEPT ![r] = [rows[r] EXCEPT !.status = "pending"]]
  BY <1>1, <1>3
<1>5. rows'[r].status = "pending" /\ rows'[r].retry = rows[r].retry
  BY <1>2, <1>3, <1>4 DEF Row
<1>6. \A s \in Rows : s # r => rows'[s] = rows[s]
  BY <1>2, <1>4
<1>7. ASSUME NEW b \in Admins PROVE ListTrue(b)'
  <2>1. b = a
    BY DEF Calm, OneAdministrator
  <2>2. \A s \in admin'[a].list :
          s \in admin[a].list /\ s # r /\ admin'[a].copy[s] = admin[a].copy[s]
    <3>1. CASE admin[a].list \ {r} = {}
      BY <1>1, <1>2, <3>1 DEF NoRequest
    <3>2. CASE admin[a].list \ {r} # {}
      <4>1. admin'[a] = [admin[a] EXCEPT !.list = admin[a].list \ {r}, !.copy[r] = NoRow]
        BY <1>1, <1>2, <3>2
      <4>2. /\ admin'[a].list = admin[a].list \ {r}
            /\ admin'[a].copy = [admin[a].copy EXCEPT ![r] = NoRow]
        BY <1>2, <4>1
      <4> QED
        BY <1>2, <4>2
    <3> QED
      BY <3>1, <3>2
  <2>3. \A s \in admin'[a].list : rows'[s] = rows[s]
    BY <1>2, <1>4, <2>2
  <2> QED
    BY <1>2, <2>1, <2>2, <2>3 DEF ListTrue, Retryable
<1>8. UNCHANGED <<job, pod, work, mailed, refused>>
  BY <1>1 DEF schedVars
<1>9. rows[r].status = "failed" /\ rows'[r].retry < MaxRetries
  BY <1>3, <1>5 DEF Retryable
<1> QED
  BY <1>3, <1>5, <1>6, <1>7, <1>8, <1>9, RowStep

\* The scheduler's own steps leave the runs where they are.
LEMMA SchedulerQuiet ==
  ASSUME Calm, [Next]_vars, UNCHANGED deliveryVars, UNCHANGED job,
         \A q \in Pods : Steady(q)'
  PROVE  Quiet'
<1>1. UNCHANGED <<rows, work, admin, mailed, refused>>
  BY DEF deliveryVars
<1>2. ASSUME NEW p \in Pods PROVE RunTrue(work[p])'
  BY <1>1 DEF Calm, Quiet, RunTrue, Apart, HeldDue, Counted, Recording, Pending
<1>3. ASSUME NEW r \in Rows PROVE RowTrue(r, \E p \in Pods : Recording(work[p], r))'
  <2>1. RowTrue(r, \E p \in Pods : Recording(work[p], r))
    BY DEF Calm, Quiet
  <2> QED
    BY <1>1, <2>1 DEF RowTrue, Recording, Pending
<1>4. ASSUME NEW a \in Admins PROVE ListTrue(a)'
  BY <1>1 DEF Calm, Quiet, ListTrue, Retryable
<1> QED
  BY <1>2, <1>3, <1>4 DEF Quiet

\* A pod's own tick begins in the one window there is.
LEMMA TickSteady ==
  ASSUME Calm, NEW p \in Pods,
         Tick(p) \/ Acquire(p) \/ Skip(p) \/ HalfInterval(p), UNCHANGED work
  PROVE  \A q \in Pods : Steady(q)'
<1> SUFFICES ASSUME NEW q \in Pods PROVE Steady(q)'
  OBVIOUS
<1>1. /\ Steady(p) /\ Steady(q) /\ pod \in [Pods -> Process] /\ job \in Jobs /\ hour \in Hours
  BY DEF Calm, Quiet, SchedInv, SchedTypeOK
<1>2. TheWindow' = TheWindow
  BY DEF TheWindow, Tick, Acquire, Skip, HalfInterval
<1>3. CASE q # p
  <2>1. pod'[q] = pod[q]
    BY <1>1, <1>3 DEF Tick, Acquire, Skip, HalfInterval, EndTick
  <2> QED
    BY <1>1, <1>2, <2>1 DEF Steady
<1>4. CASE Tick(p)
  <2>1. hour = TheWindow
    <3>1. job.at = Nil \/ hour = job.at
      BY <1>4 DEF Tick, Predicate
    <3>2. job.at = Nil => hour = 0
      BY <1>1 DEF Calm, OneWindow, Hours
    <3> QED
      BY <3>1, <3>2 DEF TheWindow
  <2>2. pod[p].stage = "idle" /\ pod'[p].stage = "acquire" /\ pod'[p].window = hour
    BY <1>1, <1>4 DEF Tick, Window, Process
  <2>3. pod'[p].up = pod[p].up /\ pod'[p].lost = pod[p].lost
    BY <1>1, <1>4 DEF Tick, Window, Process
  <2> QED
    BY <1>1, <1>2, <1>3, <2>1, <2>2, <2>3 DEF Steady
<1>5. CASE Acquire(p) \/ HalfInterval(p)
  <2>1. /\ pod'[p].up = pod[p].up /\ pod'[p].lost = pod[p].lost /\ pod'[p].window = pod[p].window
        /\ pod'[p].stage # pod[p].stage => pod'[p].stage = "running" /\ pod[p].stage = "acquire"
    BY <1>1, <1>5 DEF Acquire, HalfInterval, Process
  <2> QED
    BY <1>1, <1>2, <1>3, <2>1 DEF Steady
<1>6. CASE Skip(p)
  <2>1. /\ pod[p].stage = "acquire" /\ pod'[p].stage = "idle" /\ ~pod'[p].lost
        /\ pod'[p].up = pod[p].up
    BY <1>1, <1>6 DEF Skip, EndTick, Process
  <2> QED
    BY <1>1, <1>2, <1>3, <2>1 DEF Steady
<1> QED
  BY <1>4, <1>5, <1>6

LEMMA ReturnQuiet ==
  ASSUME Calm, NEW p \in Pods, JobReturns(p) PROVE Quiet'
<1>1. /\ pod[p].stage = "running" /\ work[p].pc = "done" /\ Step(p, Fresh) /\ EndTick(p)
      /\ UNCHANGED <<job, rows, admin, mailed, refused>>
  BY DEF JobReturns, Running, Return, KeepRows
<1>2. /\ work[p] \in Work /\ \A r \in Rows : RowTrue(r, Recording(work[p], r))
      /\ \A q \in Pods : q # p => work[q] = Fresh
  BY <1>1, CalmRun
<1>3. PICK w \in Work : w = Fresh
  BY FreshTyped
<1>4. RunTrue(w)'
  BY <1>3 DEF RunTrue, Apart, HeldDue, Counted, Recording, Fresh
<1>5. ASSUME NEW r \in Rows PROVE RowTrue(r, Recording(w, r))'
  <2>1. ~Recording(w, r) /\ ~Recording(work[p], r)
    BY <1>1, <1>3 DEF Recording, Fresh
  <2>2. RowTrue(r, Recording(work[p], r))
    BY <1>2
  <2> QED
    BY <1>1, <2>1, <2>2 DEF RowTrue, Recording, Pending
<1>6. ASSUME NEW q \in Pods PROVE Steady(q)'
  <2>1. /\ Steady(p) /\ Steady(q) /\ pod \in [Pods -> Process] /\ TheWindow' = TheWindow
        /\ work \in [Pods -> Work]
    BY <1>1 DEF Calm, Quiet, SchedInv, SchedTypeOK, TheWindow, TablesOK
  <2>2. CASE q # p
    BY <1>1, <2>1, <2>2 DEF Steady, EndTick, Step
  <2>3. CASE q = p
    <3>1. /\ pod'[p].stage = "idle" /\ ~pod'[p].lost /\ pod'[p].up = pod[p].up
          /\ work'[p] = Fresh
      BY <1>1, <2>1 DEF EndTick, Process, Step
    <3> QED
      BY <2>1, <2>3, <3>1 DEF Steady
  <2> QED
    BY <2>2, <2>3
<1> QED
  BY <1>1, <1>2, <1>3, <1>4, <1>5, <1>6, RunStep

\* Until the first fault every step leaves things as quiet as they were.
LEMMA QuietStep ==
  ASSUME Calm, [Next]_vars, faults = 0, faults' = 0 PROVE Quiet'
<1>1. /\ ~Fault /\ faults \in Nat /\ faults' = faults
      /\ \A p \in Pods : Steady(p)
  BY DEF Fault, Calm, Quiet
<1>2. CASE HourPasses /\ UNCHANGED deliveryVars
  <2>1. \A p \in Pods : Steady(p)'
    BY <1>1, <1>2 DEF HourPasses, deliveryVars, Steady, TheWindow
  <2> QED
    BY <1>2, <2>1, SchedulerQuiet DEF HourPasses
<1>3. CASE UNCHANGED vars
  <2>1. UNCHANGED deliveryVars /\ UNCHANGED <<job, pod, work>>
    BY <1>3 DEF vars, deliveryVars
  <2>2. \A p \in Pods : Steady(p)'
    BY <1>1, <2>1 DEF Steady, TheWindow
  <2> QED
    BY <2>1, <2>2, SchedulerQuiet
<1>4. ASSUME NEW to \in Addresses, QueueNotification(to) PROVE Quiet'
  BY <1>4, QueueQuiet
<1>5. ASSUME NEW a \in Admins, RetryFailed(a) \/ RetrySave(a) PROVE Quiet'
  BY <1>1, <1>5, RetryListQuiet, RetrySaveQuiet
<1>6. ASSUME NEW p \in Pods, Deliver(p) PROVE Quiet'
  BY <1>1, <1>6, ListingQuiet, NextGroupQuiet, DoneQuiet, DispatchQuiet, RecordQuiet DEF Deliver
<1>7. ASSUME NEW p \in Pods, UNCHANGED deliveryVars,
             Tick(p) \/ Acquire(p) \/ Skip(p) \/ HalfInterval(p)
      PROVE  Quiet'
  <2>1. UNCHANGED work /\ UNCHANGED job
    BY <1>7 DEF deliveryVars, Tick, Acquire, Skip, HalfInterval
  <2> QED
    BY <1>7, <2>1, TickSteady, SchedulerQuiet
<1>8. ASSUME NEW p \in Pods PROVE ~Exit(p) /\ ~Restart(p) /\ ~Outside(p)
  BY <1>1 DEF Exit, Restart, Outside, Killed, Crash, Stop, LoseSession, Steady
<1>9. ASSUME NEW p \in Pods, Loop(p) PROVE Quiet'
  BY <1>6, <1>7, <1>8, <1>9, ReturnQuiet DEF Loop
<1> QED
  BY <1>2, <1>3, <1>4, <1>5, <1>8, <1>9 DEF Next

LEMMA QuietInductive ==
  ASSUME OneWindow, OneAdministrator PROVE QuietInv /\ [Next]_vars => QuietInv'
<1> SUFFICES ASSUME QuietInv, [Next]_vars PROVE QuietInv'
  OBVIOUS
<1>1. SchedInv'
  BY DeliverySchedules, SchedInductive DEF QuietInv, SchedInv
<1>2. DeliveryInv'
  BY DeliveryInductive DEF QuietInv
<1>3. ASSUME faults' = 0 PROVE Quiet'
  <2>1. faults \in Nat /\ (faults' = faults \/ faults' = faults + 1)
    BY FaultsGrow, FaultsAssumption DEF QuietInv, SchedInv, SchedTypeOK
  <2>2. faults = 0
    BY <1>3, <2>1
  <2> QED
    BY <1>3, <2>2, QuietStep DEF QuietInv, DeliveryInv, Calm
<1> QED
  BY <1>1, <1>2, <1>3 DEF QuietInv

\* A step from a quiet state takes nothing back that is marked sent.
LEMMA SentStaysStep ==
  ASSUME QuietInv, [Next]_vars, NEW r \in Rows, rows[r].status = "sent", ~(faults' > 0)
  PROVE  rows'[r].status = "sent"
<1>1. faults = 0 /\ faults' = faults /\ ~Fault
  BY FaultsGrow, FaultsAssumption DEF QuietInv, SchedInv, SchedTypeOK, Fault
<1>2. Quiet /\ TablesOK /\ rows \in [Rows -> Row]
  BY <1>1 DEF QuietInv, DeliveryInv, TablesOK
<1>3. ASSUME NEW p \in Pods, Running(p, "next"), NEW g \in work[p].todo, NEW s \in g
      PROVE  s # r /\ s \in Rows
  BY <1>2, <1>3 DEF Quiet, RunTrue, HeldDue, Pending, TablesOK, Work
<1>4. ASSUME NEW p \in Pods, NEW s \in work[p].left PROVE s # r
  BY <1>2, <1>4 DEF Quiet, RunTrue, HeldDue, Pending
<1>5. ASSUME NEW a \in Admins, NEW s \in admin[a].list PROVE s # r
  BY <1>2, <1>5 DEF Quiet, ListTrue, Retryable
<1>6. ASSUME NEW p \in Pods, Deliver(p) PROVE rows'[r] = rows[r]
  <2>1. CASE ListPending(p) \/ NoMoreGroups(p) \/ Dispatch(p)
    BY <2>1 DEF ListPending, NoMoreGroups, Dispatch
  <2>2. CASE NextGroup(p)
    <3>1. rows' = rows \/ \E g \in work[p].todo : \E s \in g : rows' = [rows EXCEPT ![s].status = "queued"]
      BY <2>2 DEF NextGroup
    <3> QED
      BY <1>2, <1>3, <2>2, <3>1 DEF NextGroup
  <2>3. CASE RecordResult(p)
    BY <1>2, <1>4, <2>3 DEF RecordResult
  <2> QED
    BY <1>6, <2>1, <2>2, <2>3 DEF Deliver
<1>7. ASSUME NEW a \in Admins, RetryFailed(a) \/ RetrySave(a) PROVE rows'[r] = rows[r]
  BY <1>2, <1>5, <1>7 DEF RetryFailed, RetrySave
<1>8. ASSUME NEW to \in Addresses, QueueNotification(to) PROVE rows'[r] = rows[r]
  <2>1. PICK s \in 1 .. Quota[job.digest] :
          /\ \A t \in Rows : (rows[t].status = "none") <=> (t >= s)
          /\ rows' = [rows EXCEPT ![s] = [status |-> "pending", retry |-> 0, to |-> to]]
    BY <1>8 DEF QueueNotification
  <2>2. ~(r >= s)
    BY <2>1
  <2>3. r # s
    BY <2>2 DEF Rows
  <2> QED
    BY <1>2, <2>1, <2>3
<1>9. ASSUME NEW p \in Pods, Loop(p) \/ Outside(p) PROVE rows'[r] = rows[r]
  BY <1>6, <1>9 DEF Loop, JobReturns, Outside, Killed, KeepRows, deliveryVars
<1>10. CASE UNCHANGED deliveryVars
  BY <1>10 DEF deliveryVars
<1>11. rows'[r] = rows[r]
  BY <1>7, <1>8, <1>9, <1>10 DEF Next, vars, deliveryVars
<1> QED
  BY <1>11

(***************************************************************************)
(* A delivery goes out at most once while nothing fails: the lock keeps    *)
(* the runs of one window apart, the groups of a run have no row in        *)
(* common, and an administrator's retry finds the rows as it listed them.  *)
(* The two conditions are needed: a run that outlasts its hour, or two     *)
(* retries at once, mail a delivery twice.                                 *)
(***************************************************************************)
THEOREM MailedOnce == ASSUME OneWindow, OneAdministrator PROVE Spec => []SentOnce
<1>1. QuietInv => SentOnce
  <2> SUFFICES ASSUME QuietInv, faults = 0, NEW r \in Rows PROVE mailed[r] < 2
    BY DEF SentOnce
  <2>1. mailed[r] \in 0 .. 2 /\ mailed[r] <= 1
    BY DEF QuietInv, Quiet, RowTrue, DeliveryInv, TablesOK
  <2> QED
    BY <2>1
<1> QED
  BY <1>1, QuietInitially, QuietInductive, PTL DEF Spec

(***************************************************************************)
(* The same argument counts the refusals: a row's own count is never       *)
(* behind them, and a retry is granted only below max_retries.             *)
(***************************************************************************)
THEOREM RetriesEnd == ASSUME OneWindow, OneAdministrator PROVE Spec => []RetriesBounded
<1>1. QuietInv => RetriesBounded
  BY DEF QuietInv, Quiet, RowTrue, RetriesBounded
<1> QED
  BY <1>1, QuietInitially, QuietInductive, PTL DEF Spec

(***************************************************************************)
(* And nothing is taken back that is marked sent.                          *)
(***************************************************************************)
THEOREM SentMarksStay == ASSUME OneWindow, OneAdministrator PROVE Spec => SentStays
<1>1. QuietInv /\ [Next]_vars =>
        [\A r \in Rows : rows[r].status = "sent" => rows'[r].status = "sent" \/ faults' > 0]_vars
  BY SentStaysStep
<1> QED
  BY <1>1, QuietInitially, QuietInductive, PTL DEF Spec, SentStays
=============================================================================
