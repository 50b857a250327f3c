--------------------------- MODULE AppointmentGroups ---------------------------
(***************************************************************************)
(* internal/service/appointment_group_*.go: one appointment group, its     *)
(* bookable slots and their reservations.  A reservation is checked and    *)
(* inserted in a transaction that holds the group's row FOR UPDATE; a      *)
(* cancellation, a participant's note and an instructor's changes are      *)
(* saves of whole rows read earlier, outside any such lock.                *)
(*                                                                         *)
(* Requests interleave statement by statement.  A participant is a user,   *)
(* or the student group of a user when the appointment group is booked by  *)
(* student groups.  Who may send a request, the courses and sections of a  *)
(* group and the notifications are left out.                               *)
(***************************************************************************)
EXTENDS Naturals, FiniteSets

CONSTANTS
  Requests,      \* HTTP requests under way
  Participants,  \* users, or student groups
  Slots,         \* ids of appointment_slots
  Reservations,  \* ids of appointment_reservations
  Numbers,       \* the limits an instructor may set
  None           \* no value

ASSUME NoneAssumption == None \notin Requests \cup Slots \cup Reservations \cup Nat
ASSUME IdsAssumption == IsFiniteSet(Reservations)
ASSUME NumbersAssumption == Numbers \subseteq Nat

VARIABLES
  group,        \* the appointment_groups row
  groupLock,    \* the request holding it FOR UPDATE
  slot,         \* appointment_slots
  reservation,  \* the appointment_reservations rows there are
  request       \* per request: where it stands and what it has read

apptVars == <<group, groupLock, slot, reservation, request>>

\* state: "active" stands for "pending" too, a state in which a group is booked,
\* changed and deleted alike; byGroup: participant_type "Group"; max and limit:
\* MaxAppointmentsPerParticipant, ParticipantsPerAppointment.
Group == [state : {"active", "deleted"}, byGroup : BOOLEAN, max : Nat \ {0}, limit : Nat \ {0}]
\* limit: participants_limit, which may be absent.
Slot == [state : {"none", "open", "started", "deleted"}, limit : Nat \cup {None}]
\* revived: a late save has made a cancelled reservation a live one again.
Reservation == [slot : Slots, by : Participants, state : {"reserved", "canceled"}, revived : BOOLEAN]
Request == [at : {"idle", "lock", "check", "insert", "note", "cancel", "update"},
            slot : Slots \cup {None}, by : Participants \cup {None}, note : BOOLEAN,
            row : Reservations \cup {None}, group : Group \cup {None}]
Idle == [at |-> "idle", slot |-> None, by |-> None, note |-> FALSE, row |-> None, group |-> None]

ApptTypeOK ==
  /\ group \in Group
  /\ groupLock \in Requests \cup {None}
  /\ slot \in [Slots -> Slot]
  /\ DOMAIN reservation \subseteq Reservations
  /\ \A r \in DOMAIN reservation : reservation[r] \in Reservation
  /\ request \in [Requests -> Request]

\* CreateGroup replaces limits below one by one, and Update does without them;
\* a slot's own limit may be any number.
LimitsUnchecked == Numbers
Limits == Numbers \ {0}

ApptInit ==
  /\ group \in [state : {"active"}, byGroup : BOOLEAN, max : Limits, limit : Limits]
  /\ groupLock = None
  /\ slot = [s \in Slots |-> [state |-> "none", limit |-> None]]
  /\ reservation = [r \in {} |-> None]
  /\ request = [q \in Requests |-> Idle]

-----------------------------------------------------------------------------
Live == {r \in DOMAIN reservation : reservation[r].state = "reserved"}
LiveIn(s) == {r \in Live : reservation[r].slot = s}
LiveOf(p) == {r \in Live : reservation[r].by = p}
LimitOf(s) == IF slot[s].limit = None THEN group.limit ELSE slot[s].limit

There(s) == slot[s].state \in {"open", "started"}

At(q, at) == request[q].at = at
Finish(q) == request' = [request EXCEPT ![q] = Idle]

\* Reserve and ReserveWith begin with the group as the handler found it.
Reserve(q, s, p, note) ==
  /\ At(q, "idle")
  /\ group.state # "deleted"
  /\ request' = [request EXCEPT ![q] = [Idle EXCEPT !.at = "lock", !.slot = s, !.by = p, !.note = note]]
  /\ UNCHANGED <<group, groupLock, slot, reservation>>

\* SELECT ... FOR UPDATE waits for the transaction that has the row.
GroupFreeUnlocked == TRUE
GroupFree == groupLock = None
StillOpenUnchecked == TRUE
StillOpen == group.state # "deleted"

LockGroup(q) ==
  /\ At(q, "lock")
  /\ GroupFree
  /\ IF StillOpen
       THEN groupLock' = q /\ request' = [request EXCEPT ![q].at = "check"]
       ELSE Finish(q) /\ UNCHANGED groupLock
  /\ UNCHANGED <<group, slot, reservation>>

BookableInSlot(s, p) ==
  /\ slot[s].state = "open"
  /\ LiveIn(s) \cap LiveOf(p) = {}
  /\ Cardinality(LiveIn(s) \cap LiveOf(p)) < group.max
  /\ Cardinality(LiveIn(s)) < LimitOf(s)
\* The slot, the duplicate, the maximum and the capacity are looked up one
\* after the other; only saves of whole rows can come in between.
Bookable(s, p) ==
  /\ slot[s].state = "open"
  /\ LiveIn(s) \cap LiveOf(p) = {}
  /\ Cardinality(LiveOf(p)) < group.max
  /\ Cardinality(LiveIn(s)) < LimitOf(s)

Check(q) ==
  /\ At(q, "check")
  /\ IF Bookable(request[q].slot, request[q].by)
       THEN request' = [request EXCEPT ![q].at = "insert"] /\ UNCHANGED groupLock
       ELSE Finish(q) /\ groupLock' = None
  /\ UNCHANGED <<group, slot, reservation>>

TakenUnindexed(s, p, r) == FALSE
\* The unique indexes on live reservations; a slot that is gone is a foreign
\* key violation.
Taken(s, p, r) == \E o \in LiveIn(s) \cap LiveOf(p) : o # r

\* The note of a group's reservation is part of the insert; a user's is
\* saved by a statement of its own.
Insert(q) ==
  LET s == request[q].slot
      p == request[q].by
  IN
  /\ At(q, "insert")
  /\ groupLock' = None
  /\ \/ /\ There(s) /\ ~Taken(s, p, None)
        /\ \E r \in Reservations \ DOMAIN reservation :
             /\ reservation' = [o \in DOMAIN reservation \cup {r} |->
                  IF o = r THEN [slot |-> s, by |-> p, state |-> "reserved", revived |-> FALSE]
                  ELSE reservation[o]]
             /\ IF request[q].note /\ ~group.byGroup
                  THEN request' = [request EXCEPT ![q] = [Idle EXCEPT !.at = "note", !.row = r]]
                  ELSE Finish(q)
     \/ /\ ~There(s) \/ Taken(s, p, None) \/ DOMAIN reservation = Reservations
        /\ Finish(q)
        /\ UNCHANGED reservation
  /\ UNCHANGED <<group, slot>>

\* The row as it was inserted, with the note: a cancellation since is undone.
NoteSave(q) ==
  LET r == request[q].row
  IN
  /\ At(q, "note")
  /\ Finish(q)
  /\ reservation' =
       IF r \in DOMAIN reservation /\ ~Taken(reservation[r].slot, reservation[r].by, r)
       THEN [reservation EXCEPT ![r] =
              [reservation[r] EXCEPT !.state = "reserved",
                                     !.revived = reservation[r].revived \/ reservation[r].state = "canceled"]]
       ELSE reservation
  /\ UNCHANGED <<group, groupLock, slot>>

\* CancelReservation finds the row, whatever its state, and saves it.
CancelFind(q, r) ==
  /\ At(q, "idle")
  /\ group.state # "deleted"
  /\ r \in DOMAIN reservation
  /\ request' = [request EXCEPT ![q] = [Idle EXCEPT !.at = "cancel", !.row = r]]
  /\ UNCHANGED <<group, groupLock, slot, reservation>>

CancelSave(q) ==
  LET r == request[q].row
  IN
  /\ At(q, "cancel")
  /\ Finish(q)
  /\ reservation' = IF r \in DOMAIN reservation
                    THEN [reservation EXCEPT ![r] = [@ EXCEPT !.state = "canceled"]]
                    ELSE reservation
  /\ UNCHANGED <<group, groupLock, slot>>

-----------------------------------------------------------------------------
\* Update: the group's row is read, changed and saved whole, which waits for
\* a transaction that has it locked.
UpdateFind(q, max, limit) ==
  /\ At(q, "idle")
  /\ group.state # "deleted"
  /\ request' = [request EXCEPT ![q] =
       [Idle EXCEPT !.at = "update",
                    !.group = [group EXCEPT !.max = max, !.limit = limit]]]
  /\ UNCHANGED <<group, groupLock, slot, reservation>>

UpdateSave(q) ==
  /\ At(q, "update")
  /\ GroupFree
  /\ group' = request[q].group
  /\ Finish(q)
  /\ UNCHANGED <<groupLock, slot, reservation>>

Delete ==
  /\ GroupFree
  /\ group.state # "deleted"
  /\ group' = [group EXCEPT !.state = "deleted"]
  /\ UNCHANGED <<groupLock, slot, reservation, request>>

\* AddSlots and DeleteSlot look at the group and not again: they may come after
\* its deletion. No slot id is used twice; reservations go with their slot.
AddSlot(s, limit) ==
  /\ slot[s].state = "none"
  /\ slot' = [slot EXCEPT ![s] = [state |-> "open", limit |-> limit]]
  /\ UNCHANGED <<group, groupLock, reservation, request>>

SlotStarts(s) ==
  /\ slot[s].state = "open"
  /\ slot' = [slot EXCEPT ![s].state = "started"]
  /\ UNCHANGED <<group, groupLock, reservation, request>>

DeleteSlot(s) ==
  /\ There(s)
  /\ slot' = [slot EXCEPT ![s].state = "deleted"]
  /\ reservation' = [r \in {o \in DOMAIN reservation : reservation[o].slot # s} |-> reservation[r]]
  /\ UNCHANGED <<group, groupLock, request>>

ApptNext ==
  \/ \E q \in Requests :
       \/ \E s \in Slots, p \in Participants, note \in BOOLEAN : Reserve(q, s, p, note)
       \/ LockGroup(q) \/ Check(q) \/ Insert(q) \/ NoteSave(q)
       \/ \E r \in Reservations : CancelFind(q, r)
       \/ CancelSave(q)
       \/ \E max, limit \in Limits : UpdateFind(q, max, limit)
       \/ UpdateSave(q)
  \/ Delete
  \/ \E s \in Slots :
       \/ \E limit \in Numbers \cup {None} : AddSlot(s, limit)
       \/ SlotStarts(s)
       \/ DeleteSlot(s)

ApptSpec == ApptInit /\ [][ApptNext]_apptVars

-----------------------------------------------------------------------------
Booked(r) == r \in DOMAIN reservation' /\ r \notin DOMAIN reservation
\* Live reservations but for those a late note brought back, which nothing
\* counted again.
Counted == {r \in Live : ~reservation[r].revived}
CountedIn(s) == {r \in Counted : reservation[r].slot = s}
CountedOf(p) == {r \in Counted : reservation[r].by = p}

(***************************************************************************)
(* No booking overfills its slot: when a reservation is inserted, the slot *)
(* has at most its limit of participants, by the limit in force at that    *)
(* moment, however many requests book at once and whatever an instructor   *)
(* is changing. Bookings a late note revived are not counted.              *)
(***************************************************************************)
NeverOverbooked ==
  \A r \in Reservations, s \in Slots :
    Booked(r) /\ reservation'[r].slot = s => Cardinality(CountedIn(s)') <= LimitOf(s)'
CapacityKept == [][NeverOverbooked]_apptVars

(***************************************************************************)
(* Nor does it take a participant beyond the maximum of the group, also    *)
(* when the participant books several slots at the same time.              *)
(***************************************************************************)
NeverBeyondMaximum ==
  \A r \in Reservations, p \in Participants :
    Booked(r) /\ reservation'[r].by = p => Cardinality(CountedOf(p)') <= group'.max
MaximumKept == [][NeverBeyondMaximum]_apptVars

(***************************************************************************)
(* No slot of a deleted group is booked, although the group was found by   *)
(* the handler before it was locked.                                       *)
(***************************************************************************)
NotAfterDeletion == \A r \in Reservations : Booked(r) => group.state # "deleted"
BookedWhileOpen == [][NotAfterDeletion]_apptVars

(***************************************************************************)
(* A participant has at most one live reservation of a slot, also when a   *)
(* late note revives a reservation whose slot was booked again meanwhile.  *)
(***************************************************************************)
OneLivePerSlot ==
  \A r, o \in Live :
    reservation[r].slot = reservation[o].slot /\ reservation[r].by = reservation[o].by => r = o

-----------------------------------------------------------------------------
\* The sign-up sheet this implements, which checks and books in one step.
Pairs(rows) == {<<reservation[r].slot, reservation[r].by>> : r \in rows}
Book == INSTANCE AppointmentBook WITH
  open <- group.state # "deleted",
  max <- group.max,
  limit <- group.limit,
  room <- [s \in {o \in Slots : There(o)} |-> slot[s].limit],
  seats <- Pairs(Counted),
  late <- Pairs(Live \ Counted)

(***************************************************************************)
(* However requests interleave between the lock, the checks and the insert *)
(* and whatever is saved late, every booking is as if checked and made in  *)
(* one step: of a group there is, of a slot there is, within the limits of *)
(* that moment and not twice; and none is lost but by a cancellation.      *)
(***************************************************************************)
ImplementsBook == Book!Spec
=============================================================================
