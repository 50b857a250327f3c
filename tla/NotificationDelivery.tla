------------------------- MODULE NotificationDelivery -------------------------
(***************************************************************************)
(* service/notification_delivery_service.go run by the scheduler: the      *)
(* delivery rows of one digest type, the job that sends them               *)
(* (ProcessPendingDeliveries for "immediate", ProcessDigests for "daily"   *)
(* and "weekly"), and the administrator's retry of failed ones.  One       *)
(* action is one statement or one message handed to the mail server.       *)
(***************************************************************************)
EXTENDS Scheduler, FiniteSets

CONSTANTS
  Admins,      \* administrators' requests served at a time
  MaxRows,     \* bound on the deliveries queued...
  Quota,       \* ... and on those of each digest type
  Addresses,   \* a user's addresses
  MaxRetries   \* max_retries of every delivery

ASSUME DeliveryAssumption ==
  /\ MaxRows \in Nat \ {0} /\ MaxRetries \in Nat \ {0}
  /\ Quota \in [{"immediate", "daily"} -> 0 .. MaxRows]
  /\ Addresses # {}

VARIABLES
  rows,     \* notification_deliveries
  work,     \* per pod: the Go variables of its run of the job
  admin,    \* per administrator's request: the rows it still has to reset
  mailed,   \* how often the mail server has taken a delivery (2: more than once)
  refused   \* how often it has refused one

deliveryVars == <<rows, work, admin, mailed, refused>>
vars == <<job, hour, pod, lock, faults, rows, work, admin, mailed, refused>>

Rows == 1 .. MaxRows
Row == [status : {"none", "pending", "queued", "sent", "failed"},
        retry : Nat, to : Addresses]

\* todo: groups of rows still to send; group: the one being sent; left: its
\* rows whose result is not recorded; sent: what dispatch answered; copy: the
\* rows as listed.
Work == [pc : {"list", "next", "send", "record", "done"}, todo : SUBSET SUBSET Rows,
         left : SUBSET Rows, sent : BOOLEAN, copy : [Rows -> Row]]

AnyAddress == CHOOSE a \in Addresses : TRUE
NoRow == [status |-> "none", retry |-> 0, to |-> AnyAddress]
NoRows == [r \in Rows |-> NoRow]
Fresh == [pc |-> "list", todo |-> {}, left |-> {}, sent |-> FALSE, copy |-> NoRows]
NoRequest == [list |-> {}, copy |-> NoRows]

TypeOK ==
  /\ SchedTypeOK
  /\ rows \in [Rows -> Row]
  /\ work \in [Pods -> Work]
  /\ admin \in [Admins -> [list : SUBSET Rows, copy : [Rows -> Row]]]
  /\ mailed \in [Rows -> 0 .. 2]
  /\ refused \in [Rows -> 0 .. MaxRetries + 1]

Init ==
  /\ SchedInit
  /\ rows = NoRows
  /\ work = [p \in Pods |-> Fresh]
  /\ admin = [a \in Admins |-> NoRequest]
  /\ mailed = [r \in Rows |-> 0]
  /\ refused = [r \in Rows |-> 0]

-----------------------------------------------------------------------------
\* QueueNotification, the Create of one delivery. It is due at once.
QueueNotification(to) ==
  \E r \in 1 .. Quota[job.digest] :
    /\ \A s \in Rows : (rows[s].status = "none") <=> (s >= r)
    /\ rows' = [rows EXCEPT ![r] = [status |-> "pending", retry |-> 0, to |-> to]]
    /\ UNCHANGED <<schedVars, work, admin, mailed, refused>>

-----------------------------------------------------------------------------
(* The job, called by WithLock.                                            *)

\* ListPendingByDigestType: "queued" rows of a run cut short are listed again.
PendingOnly(row) == row.status = "pending"
Pending(row) == row.status \in {"pending", "queued"}

\* ProcessDigests sends what goes to one address together.
Together(r, s) == r = s \/ (job.digest # "immediate" /\ rows[r].to = rows[s].to)
Groups == LET due == {r \in Rows : Pending(rows[r])}
          IN  {{s \in due : Together(r, s)} : r \in due}

\* The copies of the rows a worker goes on with.
Copied(listed) == [r \in Rows |-> IF r \in listed THEN rows[r] ELSE NoRow]

Running(p, pc) == pod[p].stage = "running" /\ work[p].pc = pc
Step(p, w) == work' = [work EXCEPT ![p] = w]
KeepSched == UNCHANGED <<job, hour, pod, lock>>

ListPending(p) ==
  /\ Running(p, "list")
  /\ \/ StatementOk(p) /\ Step(p, [work[p] EXCEPT !.pc = "next", !.todo = Groups, !.copy = Copied(UNION Groups)])
     \/ StatementFails(p) /\ Step(p, [work[p] EXCEPT !.pc = "done"])
  /\ KeepSched /\ UNCHANGED <<rows, admin, mailed, refused>>

\* A single delivery is marked queued before it is sent, and skipped when that
\* fails; a digest is just sent.
NextGroup(p) ==
  /\ Running(p, "next")
  /\ \E g \in work[p].todo :
       LET w == [work[p] EXCEPT !.todo = @ \ {g}]
           sending == [w EXCEPT !.pc = "send", !.left = g]
       IN
       \/ /\ \E r \in g : g = {r} /\ rows' = [rows EXCEPT ![r].status = "queued"]
          /\ StatementOk(p)
          /\ Step(p, sending)
       \/ /\ \E r \in g : g = {r}
          /\ StatementFails(p)
          /\ Step(p, w)
          /\ UNCHANGED rows
       \/ /\ \E r, s \in g : r # s
          /\ Step(p, sending)
          /\ UNCHANGED <<rows, faults>>
  /\ KeepSched /\ UNCHANGED <<admin, mailed, refused>>

\* The job has been through its list.
NoMoreGroups(p) ==
  /\ Running(p, "next")
  /\ work[p].todo = {}
  /\ Step(p, [work[p] EXCEPT !.pc = "done"])
  /\ UNCHANGED <<schedVars, rows, admin, mailed, refused>>

OneMore(count, g, max) ==
  [r \in Rows |-> IF r \in g /\ count[r] < max THEN count[r] + 1 ELSE count[r]]

\* dispatch: the mail server takes the message, or refuses it (or cannot be
\* reached), or takes it and the reply is lost, which dispatch reports as an error.
Dispatch(p) ==
  LET w == work[p]
      Answer(sent) == Step(p, [w EXCEPT !.pc = "record", !.sent = sent])
  IN
  /\ Running(p, "send")
  /\ \/ /\ mailed' = OneMore(mailed, w.left, 2)
        /\ \/ Answer(TRUE) /\ UNCHANGED faults
           \/ Answer(FALSE) /\ Fault
        /\ UNCHANGED refused
     \/ /\ refused' = OneMore(refused, w.left, MaxRetries + 1)
        /\ Answer(FALSE)
        /\ UNCHANGED <<mailed, faults>>
  /\ KeepSched /\ UNCHANGED <<rows, admin>>

\* Update saves the whole copy; IncrementRetry is a targeted update.
SentForgotten(copy) == copy
Sent(copy) == [copy EXCEPT !.status = "sent"]
FailedFinal(row) == [row EXCEPT !.status = "bounced"]
Failed(row) == [row EXCEPT !.status = "failed", !.retry = @ + 1]
ResultAlwaysSent(sent, copy, row) == Sent(copy)
Result(sent, copy, row) == IF sent THEN Sent(copy) ELSE Failed(row)

\* The results are recorded one row at a time; a statement that fails is
\* passed over.
RecordResult(p) ==
  LET w == work[p] IN
  /\ Running(p, "record")
  /\ \E r \in w.left :
       /\ \/ /\ StatementOk(p)
             /\ rows' = [rows EXCEPT ![r] = Result(w.sent, w.copy[r], @)]
          \/ StatementFails(p) /\ UNCHANGED rows
       /\ Step(p, [w EXCEPT !.left = @ \ {r}, !.copy[r] = NoRow,
                            !.sent = @ /\ w.left # {r},
                            !.pc = IF w.left = {r} THEN "next" ELSE @])
  /\ KeepSched /\ UNCHANGED <<admin, mailed, refused>>

-----------------------------------------------------------------------------
(* RetryFailedDeliveries, an administrator's request.                      *)

RetryableAlways(row) == row.status = "failed"
RetryableSent(row) == row.status \in {"failed", "sent"} /\ row.retry < MaxRetries
Retryable(row) == row.status = "failed" /\ row.retry < MaxRetries

\* ListFailed.
RetryFailed(a) ==
  LET failed == {r \in Rows : Retryable(rows[r])} IN
  /\ admin[a].list = {}
  /\ failed # {}
  /\ admin' = [admin EXCEPT ![a] = [list |-> failed, copy |-> Copied(failed)]]
  /\ UNCHANGED <<schedVars, rows, work, mailed, refused>>

\* Update saves the whole copy, or fails and is passed over.
RetrySave(a) ==
  \E r \in admin[a].list :
    LET left == admin[a].list \ {r} IN
    /\ \/ /\ rows' = [rows EXCEPT ![r] = [admin[a].copy[r] EXCEPT !.status = "pending"]]
          /\ UNCHANGED schedVars
       \/ FaultElsewhere /\ UNCHANGED rows
    /\ admin' = [admin EXCEPT ![a] = IF left = {} THEN NoRequest ELSE [@ EXCEPT !.list = left, !.copy[r] = NoRow]]
    /\ UNCHANGED <<work, mailed, refused>>

-----------------------------------------------------------------------------
(* Composition with the scheduler: the job is the function WithLock calls. *)

KeepRows == UNCHANGED <<rows, admin, mailed, refused>>
Deliver(p) ==
  ListPending(p) \/ NextGroup(p) \/ NoMoreGroups(p) \/ Dispatch(p) \/ RecordResult(p)
JobReturns(p) == Running(p, "done") /\ Return(p) /\ Step(p, Fresh) /\ KeepRows
Killed(p) == Crash(p) /\ Step(p, Fresh) /\ KeepRows

\* What a pod does of its own accord, at its own pace.
Loop(p) ==
  \/ Deliver(p)
  \/ JobReturns(p)
  \/ /\ Tick(p) \/ Acquire(p) \/ Skip(p) \/ Exit(p) \/ Restart(p) \/ HalfInterval(p)
     /\ UNCHANGED deliveryVars
Outside(p) == Killed(p) \/ ((Stop(p) \/ LoseSession(p)) /\ UNCHANGED deliveryVars)

Next ==
  \/ HourPasses /\ UNCHANGED deliveryVars
  \/ \E to \in Addresses : QueueNotification(to)
  \/ \E p \in Pods : Loop(p) \/ Outside(p)
  \/ \E a \in Admins : RetryFailed(a) \/ RetrySave(a)

Spec == Init /\ [][Next]_vars

\* The loops go on, tick after tick, and a replica that is down is started again.
Fairness == \A p \in Pods : WF_vars(Loop(p))

FairSpec == Spec /\ Fairness

-----------------------------------------------------------------------------
(***************************************************************************)
(* As long as no process, statement or reply has failed, a delivery is     *)
(* mailed at most once, whichever pods run the job and however they are    *)
(* slowed down between listing, sending and recording.  This takes a job   *)
(* whose runs all fall in one window, and administrators' requests that do *)
(* not overlap.                                                            *)
(***************************************************************************)
SentOnce == faults = 0 => \A r \in Rows : mailed[r] < 2

\* A delivery is marked sent only when the mail server has taken it, whatever fails.
SentWasMailed == \A r \in Rows : rows[r].status = "sent" => mailed[r] > 0

\* The retries an administrator asks for stop at max_retries refusals, as long as
\* nothing fails (and under the conditions of SentOnce).
RetriesBounded == faults = 0 => \A r \in Rows : refused[r] <= MaxRetries

\* No retry or late result takes a delivery back that is marked sent, until
\* something fails (and under the conditions of SentOnce).
SentStays ==
  [][\A r \in Rows :
       rows[r].status = "sent" => rows'[r].status = "sent" \/ faults' > 0]_vars

\* The per-minute job gets to every delivery, also past crashes and shutdowns.
EveryDeliveryTried ==
  \A r \in Rows :
    rows[r].status \in {"pending", "queued"} /\ job.at = Nil
      ~> rows[r].status \in {"sent", "failed"}
=============================================================================
