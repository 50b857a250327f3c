----------------------- MODULE AppointmentGroups_proofs -----------------------
(***************************************************************************)
(* For any number of requests, participants, slots and reservations and    *)
(* any limits: types, the capacity of a slot, the maximum of a             *)
(* participant, no booking of a deleted group, one live reservation of a   *)
(* slot per participant; the sign-up sheet these are parts of; and the     *)
(* composition with the groups of a group set, which keeps what each has.  *)
(***************************************************************************)
EXTENDS MCCourseGroups, GroupMembers_proofs

Booking == {"check", "insert"}

\* The requests that book are the one that has the group's row locked.
LockHeld(q) == request[q].at \in Booking <=> groupLock = q

\* What a request books, and what it saves.
Typed(q) ==
  /\ request[q].at \in Booking \cup {"lock"} =>
       request[q].slot \in Slots /\ request[q].by \in Participants
  /\ request[q].at = "update" => request[q].group \in Group

OpenWhileLocked(q) == request[q].at \in Booking => group.state # "deleted"

\* What a request has checked is so when it inserts.
SeatLeft(q) ==
  request[q].at = "insert" =>
    LET s == request[q].slot
        p == request[q].by
    IN  /\ slot[s].state # "none"
        /\ Cardinality(CountedIn(s)) < LimitOf(s)
        /\ Cardinality(CountedOf(p)) < group.max

RequestInv(q) == LockHeld(q) /\ Typed(q) /\ OpenWhileLocked(q) /\ SeatLeft(q)

ApptInv ==
  /\ ApptTypeOK
  /\ OneLivePerSlot
  /\ \A q \in Requests : RequestInv(q)

-----------------------------------------------------------------------------
\* The invariant holds before the first request.
LEMMA ApptInitially == ApptInit => ApptInv
<1> SUFFICES ASSUME ApptInit PROVE ApptInv
  OBVIOUS
<1>1. Limits \subseteq Nat \ {0}
  BY NumbersAssumption DEF Limits
<1>2. group \in Group
  BY <1>1 DEF ApptInit, Group
<1>3. [state |-> "none", limit |-> None] \in Slot
  BY DEF Slot
<1>4. Idle \in Request /\ Idle.at = "idle"
  BY DEF Idle, Request
<1>5. DOMAIN reservation = {} /\ Live = {}
  BY DEF ApptInit, Live
<1>6. \A q \in Requests : request[q] = Idle /\ groupLock # q
  BY NoneAssumption DEF ApptInit
<1>7. ApptTypeOK
  BY <1>2, <1>3, <1>4, <1>5 DEF ApptInit, ApptTypeOK
<1>8. OneLivePerSlot
  BY <1>5 DEF OneLivePerSlot
<1>9. \A q \in Requests : RequestInv(q)
  BY <1>4, <1>6 DEF RequestInv, LockHeld, Typed, OpenWhileLocked, SeatLeft, Booking
<1> QED
  BY <1>7, <1>8, <1>9 DEF ApptInv

\* The rows that count are finitely many.
LEMMA CountedFinite ==
  ASSUME ApptTypeOK
  PROVE  /\ IsFiniteSet(Counted)
         /\ \A s : /\ IsFiniteSet(CountedIn(s)) /\ CountedIn(s) \subseteq Reservations
                   /\ Cardinality(CountedIn(s)) \in Nat
         /\ \A p : /\ IsFiniteSet(CountedOf(p)) /\ CountedOf(p) \subseteq Reservations
                   /\ Cardinality(CountedOf(p)) \in Nat
<1>1. Counted \in SUBSET Reservations
  BY DEF Counted, Live, ApptTypeOK
<1>2. \A T \in SUBSET Reservations : IsFiniteSet(T)
  BY IdsAssumption, FS_Subset
<1>3. \A T \in SUBSET Reservations : Cardinality(T) \in Nat
  BY <1>2, FS_CardinalityType
<1>4. \A s : CountedIn(s) \in SUBSET Reservations
  BY <1>1 DEF CountedIn
<1>5. \A p : CountedOf(p) \in SUBSET Reservations
  BY <1>1 DEF CountedOf
<1> QED
  BY <1>1, <1>2, <1>3, <1>4, <1>5

\* A limit is a number.
LEMMA LimitIsNumber ==
  ASSUME ApptTypeOK, NEW s \in Slots
  PROVE  LimitOf(s) \in Nat /\ group.max \in Nat
BY DEF ApptTypeOK, LimitOf, Group, Slot

\* Rows as the statements write them.
LEMMA IdleTyped == Idle \in Request
BY DEF Idle, Request

LEMMA RequestRows ==
  ASSUME NEW z \in Request
  PROVE  /\ [z EXCEPT !.at = "check"] \in Request
         /\ [z EXCEPT !.at = "insert"] \in Request
<1>1. [z EXCEPT !.at = "check"] \in Request
  BY Zenon DEF Request
<1>2. [z EXCEPT !.at = "insert"] \in Request
  BY Zenon DEF Request
<1> QED
  BY <1>1, <1>2

LEMMA ReservationRows ==
  ASSUME NEW z \in Reservation, NEW b \in BOOLEAN
  PROVE  /\ [z EXCEPT !.state = "canceled"] \in Reservation
         /\ [z EXCEPT !.state = "reserved", !.revived = b] \in Reservation
<1>1. [z EXCEPT !.state = "canceled"] \in Reservation
  BY Zenon DEF Reservation
<1>2. [z EXCEPT !.state = "reserved", !.revived = b] \in Reservation
  BY Zenon DEF Reservation
<1> QED
  BY <1>1, <1>2

-----------------------------------------------------------------------------
\* What is left of the seats when rows are canceled, revived or deleted and
\* slots are added, started or deleted.
SlotsLast ==
  \A s \in Slots : slot[s].state # "none" => slot'[s].state # "none" /\ slot'[s].limit = slot[s].limit
NoneCountedMore ==
  \A r \in Counted' : /\ r \in Counted
                      /\ reservation'[r].slot = reservation[r].slot
                      /\ reservation'[r].by = reservation[r].by

LEMMA SeatsStay ==
  ASSUME ApptInv, SlotsLast, NoneCountedMore, UNCHANGED group,
         NEW q \in Requests, UNCHANGED request[q]
  PROVE  SeatLeft(q)'
<1> SUFFICES ASSUME request[q].at = "insert"
             PROVE  LET s == request[q].slot
                        p == request[q].by
                    IN  /\ slot'[s].state # "none"
                        /\ Cardinality(CountedIn(s)') < LimitOf(s)'
                        /\ Cardinality(CountedOf(p)') < group'.max
  BY DEF SeatLeft
<1> DEFINE s == request[q].slot
           p == request[q].by
<1>1. s \in Slots /\ p \in Participants
  BY DEF ApptInv, RequestInv, Typed, Booking
<1>2. /\ slot[s].state # "none"
      /\ Cardinality(CountedIn(s)) < LimitOf(s)
      /\ Cardinality(CountedOf(p)) < group.max
  BY DEF ApptInv, RequestInv, SeatLeft
<1>3. slot'[s].state # "none" /\ LimitOf(s)' = LimitOf(s)
  BY <1>1, <1>2 DEF SlotsLast, LimitOf
<1>4. CountedIn(s)' \in SUBSET CountedIn(s) /\ CountedOf(p)' \in SUBSET CountedOf(p)
  BY DEF NoneCountedMore, CountedIn, CountedOf
<1>5. /\ IsFiniteSet(CountedIn(s)) /\ Cardinality(CountedIn(s)) \in Nat
      /\ IsFiniteSet(CountedOf(p)) /\ Cardinality(CountedOf(p)) \in Nat
  BY CountedFinite DEF ApptInv
<1>6. /\ Cardinality(CountedIn(s)') <= Cardinality(CountedIn(s))
      /\ Cardinality(CountedOf(p)') <= Cardinality(CountedOf(p))
  BY <1>4, <1>5, FS_Subset
<1>7. Cardinality(CountedIn(s)') \in Nat /\ Cardinality(CountedOf(p)') \in Nat
  BY <1>4, <1>5, FS_Subset, FS_CardinalityType
<1>8. LimitOf(s) \in Nat /\ group.max \in Nat
  BY <1>1, LimitIsNumber DEF ApptInv
<1> HIDE DEF s, p
<1> QED
  BY <1>2, <1>3, <1>5, <1>6, <1>7, <1>8 DEF s, p

\* A statement outside the transaction that books: the lock stays with
\* whoever has it, and the request goes on to something else than booking.
LEMMA OutsideStep ==
  ASSUME ApptInv, SlotsLast, NoneCountedMore, UNCHANGED <<group, groupLock>>,
         NEW q \in Requests, NEW z \in Request,
         request[q].at \notin Booking, z.at \notin Booking,
         z.at = "lock" => z.slot \in Slots /\ z.by \in Participants,
         z.at = "update" => z.group \in Group,
         request' = [request EXCEPT ![q] = z]
  PROVE  request' \in [Requests -> Request] /\ \A o \in Requests : RequestInv(o)'
<1>1. request' \in [Requests -> Request] /\ request'[q] = z
  BY DEF ApptInv, ApptTypeOK
<1>2. groupLock # q
  BY DEF ApptInv, RequestInv, LockHeld
<1>3. RequestInv(q)'
  <2>1. LockHeld(q)'
    BY <1>1, <1>2 DEF LockHeld
  <2>2. Typed(q)' /\ OpenWhileLocked(q)'
    BY <1>1 DEF Typed, OpenWhileLocked
  <2>3. SeatLeft(q)'
    BY <1>1 DEF SeatLeft, Booking
  <2> QED
    BY <2>1, <2>2, <2>3 DEF RequestInv
<1>4. ASSUME NEW o \in Requests, o # q PROVE RequestInv(o)'
  <2>1. request'[o] = request[o] /\ RequestInv(o)
    BY <1>4 DEF ApptInv, ApptTypeOK
  <2>2. SeatLeft(o)'
    BY <2>1, SeatsStay
  <2> QED
    BY <2>1, <2>2 DEF RequestInv, LockHeld, Typed, OpenWhileLocked
<1> QED
  BY <1>1, <1>3, <1>4

\* The transaction that books ends: no request has the row locked.
LEMMA TransactionEnds ==
  ASSUME ApptInv, NEW q \in Requests, groupLock = q, groupLock' = None, NEW z \in Request,
         z.at \in {"idle", "note"}, request' = [request EXCEPT ![q] = z]
  PROVE  request' \in [Requests -> Request] /\ \A o \in Requests : RequestInv(o)'
<1>1. request' \in [Requests -> Request] /\ request'[q] = z
  BY DEF ApptInv, ApptTypeOK
<1>2. ASSUME NEW o \in Requests PROVE RequestInv(o)'
  <2>1. request'[o].at \notin Booking /\ groupLock' # o
    BY <1>1, NoneAssumption DEF ApptInv, ApptTypeOK, RequestInv, LockHeld, Booking
  <2>2. Typed(o)'
    BY <1>1, <2>1 DEF ApptInv, ApptTypeOK, RequestInv, Typed, Booking
  <2> QED
    BY <2>1, <2>2 DEF RequestInv, LockHeld, OpenWhileLocked, SeatLeft, Booking
<1> QED
  BY <1>1, <1>2

\* Nobody books: the group may change.
LEMMA NobodyBooks ==
  ASSUME ApptInv, GroupFree, UNCHANGED groupLock, NEW q \in Requests, UNCHANGED request[q]
  PROVE  RequestInv(q)'
<1>1. request[q].at \notin Booking /\ Typed(q) /\ LockHeld(q)
  BY NoneAssumption DEF ApptInv, RequestInv, LockHeld, GroupFree
<1> QED
  BY <1>1 DEF RequestInv, LockHeld, Typed, OpenWhileLocked, SeatLeft, Booking

-----------------------------------------------------------------------------
\* Fewer live reservations of a slot and participant, or the same.
LEMMA LiveStays ==
  ASSUME OneLivePerSlot,
         \A r \in Live' : /\ r \in Live
                          /\ reservation'[r].slot = reservation[r].slot
                          /\ reservation'[r].by = reservation[r].by
  PROVE  OneLivePerSlot'
BY DEF OneLivePerSlot

\* An instructor changes slots: requests are not touched.
LEMMA SlotStep ==
  ASSUME ApptInv, SlotsLast, UNCHANGED <<group, groupLock, request>>,
         slot' \in [Slots -> Slot],
         DOMAIN reservation' \subseteq DOMAIN reservation,
         \A r \in DOMAIN reservation' : reservation'[r] = reservation[r]
  PROVE  ApptInv'
<1>1. ApptTypeOK'
  BY DEF ApptInv, ApptTypeOK
<1>2. NoneCountedMore
  BY DEF NoneCountedMore, Counted, Live
<1>3. OneLivePerSlot'
  BY LiveStays DEF ApptInv, Live
<1>4. ASSUME NEW q \in Requests PROVE RequestInv(q)'
  <2>1. SeatLeft(q)'
    BY <1>2, SeatsStay
  <2> QED
    BY <2>1 DEF ApptInv, RequestInv, LockHeld, Typed, OpenWhileLocked
<1> QED
  BY <1>1, <1>3, <1>4 DEF ApptInv

\* A request does something that leaves the group, its lock, the slots and
\* the reservations alone.
LEMMA RequestOnlyStep ==
  ASSUME ApptInv, UNCHANGED <<group, groupLock, slot, reservation>>,
         NEW q \in Requests, NEW z \in Request,
         request[q].at \notin Booking, z.at \notin Booking,
         z.at = "lock" => z.slot \in Slots /\ z.by \in Participants,
         z.at = "update" => z.group \in Group,
         request' = [request EXCEPT ![q] = z]
  PROVE  ApptInv'
<1>1. SlotsLast /\ NoneCountedMore
  BY DEF SlotsLast, NoneCountedMore, Counted, Live
<1>2. request' \in [Requests -> Request] /\ \A o \in Requests : RequestInv(o)'
  BY <1>1, OutsideStep
<1>3. ApptTypeOK' /\ OneLivePerSlot'
  BY <1>2 DEF ApptInv, ApptTypeOK, OneLivePerSlot, Live
<1> QED
  BY <1>2, <1>3 DEF ApptInv

\* The statements of a booking.
LEMMA ReserveKeeps ==
  ASSUME ApptInv, NEW q \in Requests, NEW s \in Slots, NEW p \in Participants, NEW note \in BOOLEAN,
         Reserve(q, s, p, note)
  PROVE  ApptInv'
<1> DEFINE z == [Idle EXCEPT !.at = "lock", !.slot = s, !.by = p, !.note = note]
<1>2. z \in Request
  BY Zenon, IdleTyped DEF Request
<1>3. z.at = "lock" /\ z.slot = s /\ z.by = p
  BY DEF Idle
<1>4. request' = [request EXCEPT ![q] = z] /\ request[q].at \notin Booking
  BY DEF Reserve, At, Booking
<1>5. UNCHANGED <<group, groupLock, slot, reservation>>
  BY DEF Reserve
<1> HIDE DEF z
<1> QED
  BY <1>2, <1>3, <1>4, <1>5, RequestOnlyStep DEF Booking

LEMMA LockGroupKeeps ==
  ASSUME ApptInv, NEW q \in Requests, LockGroup(q)
  PROVE  ApptInv'
<1>1. request[q] \in Request /\ request[q].at = "lock" /\ groupLock = None
  BY DEF LockGroup, At, GroupFree, ApptInv, ApptTypeOK
<1>2. CASE StillOpen
  <2> DEFINE z == [request[q] EXCEPT !.at = "check"]
  <2>1. z \in Request
    BY <1>1, RequestRows
  <2>2. z.at = "check" /\ z.slot = request[q].slot /\ z.by = request[q].by
    BY <1>1 DEF Request
  <2>3. request' = [request EXCEPT ![q] = z] /\ groupLock' = q
    BY <1>2 DEF LockGroup, ApptInv, ApptTypeOK
  <2> HIDE DEF z
  <2>4. request' \in [Requests -> Request] /\ request'[q] = z
    BY <2>1, <2>3 DEF ApptInv, ApptTypeOK
  <2>5. UNCHANGED <<group, slot, reservation>>
    BY DEF LockGroup
  <2>6. ApptTypeOK' /\ OneLivePerSlot'
    BY <2>3, <2>4, <2>5 DEF ApptInv, ApptTypeOK, OneLivePerSlot, Live
  <2>7. RequestInv(q)'
    BY <1>1, <1>2, <2>2, <2>3, <2>4, <2>5
       DEF ApptInv, RequestInv, LockHeld, Typed, OpenWhileLocked, SeatLeft, Booking, StillOpen
  <2>8. ASSUME NEW o \in Requests, o # q PROVE RequestInv(o)'
    <3>1. request'[o] = request[o] /\ RequestInv(o) /\ request[o].at \notin Booking
      BY <1>1, <2>3, <2>8, NoneAssumption DEF ApptInv, ApptTypeOK, RequestInv, LockHeld
    <3> QED
      BY <2>3, <2>8, <3>1 DEF RequestInv, LockHeld, Typed, OpenWhileLocked, SeatLeft, Booking
  <2> QED
    BY <2>6, <2>7, <2>8 DEF ApptInv
<1>3. CASE ~StillOpen
  <2>1. Idle \in Request /\ Idle.at = "idle"
    BY IdleTyped DEF Idle
  <2>2. request' = [request EXCEPT ![q] = Idle] /\ UNCHANGED <<group, groupLock, slot, reservation>>
    BY <1>3 DEF LockGroup, Finish
  <2> QED
    BY <1>1, <2>1, <2>2, RequestOnlyStep DEF Booking
<1> QED
  BY <1>2, <1>3

\* What is live counts, so a slot has at least as much room for those that
\* count.
LEMMA CountedAreLive ==
  ASSUME ApptTypeOK, NEW s, NEW p
  PROVE  /\ Cardinality(CountedIn(s)) <= Cardinality(LiveIn(s)) /\ Cardinality(LiveIn(s)) \in Nat
         /\ Cardinality(CountedOf(p)) <= Cardinality(LiveOf(p)) /\ Cardinality(LiveOf(p)) \in Nat
<1>1. LiveIn(s) \in SUBSET Reservations /\ LiveOf(p) \in SUBSET Reservations
  BY DEF LiveIn, LiveOf, Live, ApptTypeOK
<1>2. IsFiniteSet(LiveIn(s)) /\ IsFiniteSet(LiveOf(p))
  BY <1>1, IdsAssumption, FS_Subset
<1>3. CountedIn(s) \in SUBSET LiveIn(s) /\ CountedOf(p) \in SUBSET LiveOf(p)
  BY DEF CountedIn, CountedOf, Counted, LiveIn, LiveOf
<1> QED
  BY <1>2, <1>3, FS_Subset, FS_CardinalityType

LEMMA CheckKeeps ==
  ASSUME ApptInv, NEW q \in Requests, Check(q)
  PROVE  ApptInv'
<1>1. request[q] \in Request /\ request[q].at = "check" /\ groupLock = q
  BY DEF Check, At, ApptInv, ApptTypeOK, RequestInv, LockHeld, Booking
<1>2. UNCHANGED <<group, slot, reservation>>
  BY DEF Check
<1>3. CASE Bookable(request[q].slot, request[q].by)
  <2> DEFINE z == [request[q] EXCEPT !.at = "insert"]
  <2>0. PICK s \in Slots, p \in Participants : s = request[q].slot /\ p = request[q].by
    BY <1>1 DEF ApptInv, RequestInv, Typed, Booking
  <2>1. z \in Request
    BY <1>1, RequestRows
  <2>2. z.at = "insert" /\ z.slot = s /\ z.by = p
    BY <1>1, <2>0 DEF Request
  <2>3. request' = [request EXCEPT ![q] = z] /\ groupLock' = groupLock
    BY <1>3 DEF Check, ApptInv, ApptTypeOK
  <2>5. /\ slot[s].state # "none"
        /\ Cardinality(LiveOf(p)) < group.max
        /\ Cardinality(LiveIn(s)) < LimitOf(s)
    BY <1>3, <2>0 DEF Bookable
  <2>6. Cardinality(CountedIn(s)) < LimitOf(s) /\ Cardinality(CountedOf(p)) < group.max
    <3>1. /\ Cardinality(CountedIn(s)) <= Cardinality(LiveIn(s)) /\ Cardinality(LiveIn(s)) \in Nat
          /\ Cardinality(CountedOf(p)) <= Cardinality(LiveOf(p)) /\ Cardinality(LiveOf(p)) \in Nat
          /\ Cardinality(CountedIn(s)) \in Nat /\ Cardinality(CountedOf(p)) \in Nat
      BY CountedAreLive, CountedFinite DEF ApptInv
    <3>2. LimitOf(s) \in Nat /\ group.max \in Nat
      BY LimitIsNumber DEF ApptInv
    <3> QED
      BY <2>5, <3>1, <3>2
  <2>7. /\ LimitOf(s)' = LimitOf(s) /\ CountedIn(s)' = CountedIn(s) /\ CountedOf(p)' = CountedOf(p)
    BY <1>2 DEF LimitOf, CountedIn, CountedOf, Counted, Live
  <2> HIDE DEF z
  <2>8. request' \in [Requests -> Request] /\ request'[q] = z
    BY <2>1, <2>3 DEF ApptInv, ApptTypeOK
  <2>9. ApptTypeOK' /\ OneLivePerSlot'
    BY <1>2, <2>3, <2>8 DEF ApptInv, ApptTypeOK, OneLivePerSlot, Live
  <2>10. SeatLeft(q)'
    BY <1>2, <2>2, <2>5, <2>6, <2>7, <2>8 DEF SeatLeft
  <2>11. LockHeld(q)' /\ Typed(q)' /\ OpenWhileLocked(q)'
    BY <1>1, <1>2, <2>2, <2>3, <2>8
       DEF ApptInv, RequestInv, LockHeld, Typed, OpenWhileLocked, Booking
  <2>12. ASSUME NEW o \in Requests, o # q PROVE RequestInv(o)'
    <3>1. request'[o] = request[o] /\ RequestInv(o) /\ request[o].at \notin Booking
      BY <1>1, <2>3, <2>12 DEF ApptInv, ApptTypeOK, RequestInv, LockHeld
    <3> QED
      BY <2>3, <3>1 DEF RequestInv, LockHeld, Typed, OpenWhileLocked, SeatLeft, Booking
  <2> QED
    BY <2>9, <2>10, <2>11, <2>12 DEF ApptInv, RequestInv
<1>4. CASE ~Bookable(request[q].slot, request[q].by)
  <2>1. Idle \in Request /\ Idle.at = "idle"
    BY IdleTyped DEF Idle
  <2>2. request' = [request EXCEPT ![q] = Idle] /\ groupLock' = None
    BY <1>4 DEF Check, Finish
  <2>3. request' \in [Requests -> Request] /\ \A o \in Requests : RequestInv(o)'
    BY <1>1, <2>1, <2>2, TransactionEnds
  <2>4. ApptTypeOK' /\ OneLivePerSlot'
    BY <1>2, <2>2, <2>3 DEF ApptInv, ApptTypeOK, OneLivePerSlot, Live
  <2> QED
    BY <2>3, <2>4 DEF ApptInv
<1> QED
  BY <1>3, <1>4

\* What an insert that succeeds does to the reservations.
Inserted(s, p, r) ==
  /\ r \in Reservations \ DOMAIN reservation
  /\ There(s) /\ ~Taken(s, p, None)
  /\ reservation' = [o \in DOMAIN reservation \cup {r} |->
       IF o = r THEN [slot |-> s, by |-> p, state |-> "reserved", revived |-> FALSE]
       ELSE reservation[o]]

LEMMA InsertSteps ==
  ASSUME ApptInv, NEW q \in Requests, Insert(q)
  PROVE  /\ groupLock = q /\ groupLock' = None /\ UNCHANGED <<group, slot>>
         /\ \E z \in Request : z.at \in {"idle", "note"} /\ request' = [request EXCEPT ![q] = z]
         /\ \/ UNCHANGED reservation
            \/ \E r \in Reservations : Inserted(request[q].slot, request[q].by, r)
<1>1. groupLock = q /\ groupLock' = None /\ UNCHANGED <<group, slot>>
  BY DEF Insert, At, ApptInv, RequestInv, LockHeld, Booking
<1>2. \A r \in Reservations : [Idle EXCEPT !.at = "note", !.row = r] \in Request
  BY IdleTyped, Zenon DEF Request
<1>3. \A r : [Idle EXCEPT !.at = "note", !.row = r].at = "note"
  BY DEF Idle
<1>4. Idle \in Request /\ Idle.at = "idle"
  BY IdleTyped DEF Idle
<1>5. \/ request' = [request EXCEPT ![q] = Idle]
      \/ \E r \in Reservations : request' = [request EXCEPT ![q] = [Idle EXCEPT !.at = "note", !.row = r]]
  BY DEF Insert, Finish
<1>6. \E z \in Request : z.at \in {"idle", "note"} /\ request' = [request EXCEPT ![q] = z]
  BY <1>2, <1>3, <1>4, <1>5
<1>7. \/ UNCHANGED reservation
      \/ \E r \in Reservations : Inserted(request[q].slot, request[q].by, r)
  BY DEF Insert, Inserted
<1> QED
  BY <1>1, <1>6, <1>7

LEMMA InsertKeeps ==
  ASSUME ApptInv, NEW q \in Requests, Insert(q)
  PROVE  ApptInv'
<1>1. groupLock = q /\ groupLock' = None /\ UNCHANGED <<group, slot>>
  BY InsertSteps
<1>2. PICK z \in Request : z.at \in {"idle", "note"} /\ request' = [request EXCEPT ![q] = z]
  BY InsertSteps
<1>3. request' \in [Requests -> Request] /\ \A o \in Requests : RequestInv(o)'
  BY <1>1, <1>2, TransactionEnds
<1>4. CASE UNCHANGED reservation
  BY <1>1, <1>3, <1>4 DEF ApptInv, ApptTypeOK, OneLivePerSlot, Live
<1>5. CASE \E r \in Reservations : Inserted(request[q].slot, request[q].by, r)
  <2>1. PICK r \in Reservations : Inserted(request[q].slot, request[q].by, r)
    BY <1>5
  <2>2. PICK s \in Slots, p \in Participants : s = request[q].slot /\ p = request[q].by
    BY DEF Insert, At, ApptInv, RequestInv, Typed, Booking
  <2>3. [slot |-> s, by |-> p, state |-> "reserved", revived |-> FALSE] \in Reservation
    BY DEF Reservation
  <2>4. /\ DOMAIN reservation' = DOMAIN reservation \cup {r} /\ r \notin DOMAIN reservation
        /\ reservation'[r] = [slot |-> s, by |-> p, state |-> "reserved", revived |-> FALSE]
        /\ \A o \in DOMAIN reservation : reservation'[o] = reservation[o]
    BY <2>1, <2>2 DEF Inserted
  <2>5. ApptTypeOK'
    BY <1>1, <1>3, <2>3, <2>4 DEF ApptInv, ApptTypeOK
  <2>6. Live' = Live \cup {r}
    BY <2>4 DEF Live
  <2>7. \A o \in Live : ~(reservation[o].slot = s /\ reservation[o].by = p)
    BY <2>1, <2>2, NoneAssumption DEF Inserted, Taken, LiveIn, LiveOf, Live, ApptInv, ApptTypeOK
  <2>8. OneLivePerSlot'
    BY <2>4, <2>6, <2>7 DEF ApptInv, OneLivePerSlot, Live
  <2> QED
    BY <1>3, <2>5, <2>8 DEF ApptInv
<1> QED
  BY <1>4, <1>5, InsertSteps

\* A row is saved whole by the request that read it.
LEMMA ReservationSaved ==
  ASSUME ApptInv, NEW q \in Requests, Finish(q), request[q].at \notin Booking,
         UNCHANGED <<group, groupLock, slot>>,
         NEW r \in DOMAIN reservation, NEW z \in Reservation,
         z.slot = reservation[r].slot, z.by = reservation[r].by,
         \/ z.state = "canceled"
         \/ /\ ~Taken(z.slot, z.by, r)
            /\ z.revived = (reservation[r].revived \/ reservation[r].state = "canceled"),
         reservation' = [reservation EXCEPT ![r] = z]
  PROVE  ApptInv'
<1>1. /\ DOMAIN reservation' = DOMAIN reservation /\ reservation'[r] = z
      /\ \A o \in DOMAIN reservation \ {r} : reservation'[o] = reservation[o]
  OBVIOUS
<1>2. reservation[r] \in Reservation /\ reservation[r].state \in {"reserved", "canceled"}
  BY DEF ApptInv, ApptTypeOK, Reservation
<1>3. NoneCountedMore
  BY <1>1, <1>2 DEF NoneCountedMore, Counted, Live
<1>4. Idle \in Request /\ Idle.at = "idle"
  BY IdleTyped DEF Idle
<1>5. SlotsLast /\ request' = [request EXCEPT ![q] = Idle]
  BY DEF SlotsLast, Finish
<1>6. request' \in [Requests -> Request] /\ \A o \in Requests : RequestInv(o)'
  BY <1>3, <1>4, <1>5, OutsideStep DEF Booking
<1>7. ApptTypeOK'
  BY <1>1, <1>6 DEF ApptInv, ApptTypeOK
<1>8. OneLivePerSlot'
  <2>1. \A o \in Live' : o = r \/ o \in Live
    BY <1>1 DEF Live
  <2>2. CASE z.state = "canceled"
    BY <1>1, <2>1, <2>2 DEF ApptInv, OneLivePerSlot, Live
  <2>3. CASE ~Taken(z.slot, z.by, r)
    <3>1. \A o \in Live : o # r => ~(reservation[o].slot = z.slot /\ reservation[o].by = z.by)
      BY <2>3 DEF Taken, LiveIn, LiveOf
    <3> QED
      BY <1>1, <2>1, <3>1 DEF ApptInv, OneLivePerSlot, Live
  <2> QED
    BY <2>2, <2>3
<1> QED
  BY <1>6, <1>7, <1>8 DEF ApptInv

\* A request that writes nothing and ends.
LEMMA FinishKeeps ==
  ASSUME ApptInv, NEW q \in Requests, Finish(q), request[q].at \notin Booking,
         UNCHANGED <<group, groupLock, slot, reservation>>
  PROVE  ApptInv'
<1>1. Idle \in Request /\ Idle.at = "idle"
  BY IdleTyped DEF Idle
<1> QED
  BY <1>1, RequestOnlyStep DEF Finish, Booking

LEMMA NoteSaveKeeps ==
  ASSUME ApptInv, NEW q \in Requests, NoteSave(q)
  PROVE  ApptInv'
<1>1. Finish(q) /\ request[q].at \notin Booking /\ UNCHANGED <<group, groupLock, slot>>
  BY DEF NoteSave, At, Booking
<1>2. CASE UNCHANGED reservation
  BY <1>1, <1>2, FinishKeeps
<1>3. CASE reservation' # reservation
  <2>1. PICK r : r = request[q].row
    OBVIOUS
  <2> DEFINE b == reservation[r].revived \/ reservation[r].state = "canceled"
             z == [reservation[r] EXCEPT !.state = "reserved", !.revived = b]
  <2>2. r \in DOMAIN reservation /\ ~Taken(reservation[r].slot, reservation[r].by, r)
    BY <1>3, <2>1 DEF NoteSave
  <2>3. reservation[r] \in Reservation
    BY <2>2 DEF ApptInv, ApptTypeOK
  <2>4. b \in BOOLEAN
    BY <2>3 DEF Reservation
  <2>5. reservation' = [reservation EXCEPT ![r] = z]
    BY <2>1, <2>2 DEF NoteSave
  <2> HIDE DEF b
  <2>6. z \in Reservation
    BY <2>3, <2>4, ReservationRows
  <2>7. z.slot = reservation[r].slot /\ z.by = reservation[r].by /\ z.revived = b
    BY <2>3 DEF Reservation
  <2> HIDE DEF z
  <2> QED
    BY <1>1, <2>2, <2>5, <2>6, <2>7, ReservationSaved DEF b
<1> QED
  BY <1>2, <1>3

LEMMA CancelFindKeeps ==
  ASSUME ApptInv, NEW q \in Requests, NEW r \in Reservations, CancelFind(q, r)
  PROVE  ApptInv'
<1> DEFINE z == [Idle EXCEPT !.at = "cancel", !.row = r]
<1>1. z \in Request
  BY IdleTyped, Zenon DEF Request
<1>2. z.at = "cancel"
  BY DEF Idle
<1>3. request' = [request EXCEPT ![q] = z] /\ UNCHANGED <<group, groupLock, slot, reservation>>
  BY DEF CancelFind
<1>4. request[q].at \notin Booking
  BY DEF CancelFind, At, Booking
<1> HIDE DEF z
<1> QED
  BY <1>1, <1>2, <1>3, <1>4, RequestOnlyStep DEF Booking

LEMMA CancelSaveKeeps ==
  ASSUME ApptInv, NEW q \in Requests, CancelSave(q)
  PROVE  ApptInv'
<1>1. Finish(q) /\ request[q].at \notin Booking /\ UNCHANGED <<group, groupLock, slot>>
  BY DEF CancelSave, At, Booking
<1>2. PICK r : r = request[q].row
  OBVIOUS
<1>3. CASE r \notin DOMAIN reservation
  BY <1>1, <1>2, <1>3, FinishKeeps DEF CancelSave
<1>4. CASE r \in DOMAIN reservation
  <2> DEFINE z == [reservation[r] EXCEPT !.state = "canceled"]
  <2>1. reservation[r] \in Reservation
    BY <1>4 DEF ApptInv, ApptTypeOK
  <2>2. z \in Reservation
    BY <2>1, ReservationRows
  <2>3. z.slot = reservation[r].slot /\ z.by = reservation[r].by /\ z.state = "canceled"
    BY <2>1 DEF Reservation
  <2>4. reservation' = [reservation EXCEPT ![r] = z]
    BY <1>2, <1>4 DEF CancelSave
  <2> HIDE DEF z
  <2> QED
    BY <1>1, <1>4, <2>2, <2>3, <2>4, ReservationSaved
<1> QED
  BY <1>3, <1>4

-----------------------------------------------------------------------------
\* What the instructor's handlers do.
LEMMA UpdateFindKeeps ==
  ASSUME ApptInv, NEW q \in Requests,
         NEW max \in Limits, NEW limit \in Limits, UpdateFind(q, max, limit)
  PROVE  ApptInv'
<1> DEFINE g == [group EXCEPT !.max = max, !.limit = limit]
           z == [Idle EXCEPT !.at = "update", !.group = g]
<1>1. max \in Nat \ {0} /\ limit \in Nat \ {0}
  BY NumbersAssumption DEF Limits
<1>2. g \in Group
  BY <1>1, Zenon DEF ApptInv, ApptTypeOK, Group
<1>3. request' = [request EXCEPT ![q] = z] /\ UNCHANGED <<group, groupLock, slot, reservation>>
  BY DEF UpdateFind
<1>4. request[q].at \notin Booking
  BY DEF UpdateFind, At, Booking
<1> HIDE DEF g
<1>5. z \in Request
  BY <1>2, IdleTyped, Zenon DEF Request
<1>6. z.at = "update" /\ z.group = g
  BY DEF Idle
<1> HIDE DEF z
<1> QED
  BY <1>2, <1>3, <1>4, <1>5, <1>6, RequestOnlyStep DEF Booking

LEMMA UpdateSaveKeeps ==
  ASSUME ApptInv, NEW q \in Requests, UpdateSave(q)
  PROVE  ApptInv'
<1>1. Idle \in Request /\ Idle.at = "idle"
  BY IdleTyped DEF Idle
<1>2. request' = [request EXCEPT ![q] = Idle] /\ UNCHANGED <<groupLock, slot, reservation>> /\ GroupFree
  BY DEF UpdateSave, Finish
<1>3. group' \in Group
  BY DEF UpdateSave, At, ApptInv, RequestInv, Typed
<1>4. request' \in [Requests -> Request] /\ request'[q] = Idle
  BY <1>1, <1>2 DEF ApptInv, ApptTypeOK
<1>5. ApptTypeOK' /\ OneLivePerSlot'
  BY <1>2, <1>3, <1>4 DEF ApptInv, ApptTypeOK, OneLivePerSlot, Live
<1>6. RequestInv(q)'
  BY <1>1, <1>2, <1>4, NoneAssumption
     DEF RequestInv, LockHeld, Typed, OpenWhileLocked, SeatLeft, Booking, GroupFree
<1>7. ASSUME NEW o \in Requests, o # q PROVE RequestInv(o)'
  BY <1>2, <1>7, NobodyBooks DEF ApptInv, ApptTypeOK
<1> QED
  BY <1>5, <1>6, <1>7 DEF ApptInv

LEMMA DeleteKeeps ==
  ASSUME ApptInv, Delete
  PROVE  ApptInv'
<1>1. [group EXCEPT !.state = "deleted"] \in Group
  BY Zenon DEF ApptInv, ApptTypeOK, Group
<1>2. ApptTypeOK' /\ OneLivePerSlot'
  BY <1>1 DEF Delete, ApptInv, ApptTypeOK, OneLivePerSlot, Live
<1>3. \A q \in Requests : RequestInv(q)'
  BY NobodyBooks DEF Delete
<1> QED
  BY <1>2, <1>3 DEF ApptInv

LEMMA SlotKeeps ==
  ASSUME ApptInv, NEW s \in Slots,
         (\E limit \in Numbers \cup {None} : AddSlot(s, limit)) \/ SlotStarts(s) \/ DeleteSlot(s)
  PROVE  ApptInv'
<1>1. slot[s] \in Slot
  BY DEF ApptInv, ApptTypeOK
<1>2. /\ [slot[s] EXCEPT !.state = "started"] \in Slot
      /\ [slot[s] EXCEPT !.state = "deleted"] \in Slot
  BY <1>1, Zenon DEF Slot
<1>3. /\ [slot[s] EXCEPT !.state = "started"].limit = slot[s].limit
      /\ [slot[s] EXCEPT !.state = "started"].state = "started"
      /\ [slot[s] EXCEPT !.state = "deleted"].limit = slot[s].limit
      /\ [slot[s] EXCEPT !.state = "deleted"].state = "deleted"
  BY <1>1 DEF Slot
<1>4. \A limit \in Numbers \cup {None} : [state |-> "open", limit |-> limit] \in Slot
  BY NumbersAssumption DEF Slot
<1>5. PICK z \in Slot : /\ slot' = [slot EXCEPT ![s] = z]
                        /\ slot[s].state # "none" => z.state # "none" /\ z.limit = slot[s].limit
  BY <1>2, <1>3, <1>4 DEF AddSlot, SlotStarts, DeleteSlot, There
<1>6. slot' \in [Slots -> Slot] /\ SlotsLast
  BY <1>5 DEF SlotsLast, ApptInv, ApptTypeOK
<1>7. /\ DOMAIN reservation' \subseteq DOMAIN reservation
      /\ \A r \in DOMAIN reservation' : reservation'[r] = reservation[r]
  BY DEF AddSlot, SlotStarts, DeleteSlot
<1>8. UNCHANGED <<group, groupLock, request>>
  BY DEF AddSlot, SlotStarts, DeleteSlot
<1> QED
  BY <1>6, <1>7, <1>8, SlotStep

\* Every step keeps the invariant.
LEMMA ApptInductive == ApptInv /\ [ApptNext]_apptVars => ApptInv'
<1> SUFFICES ASSUME ApptInv, [ApptNext]_apptVars PROVE ApptInv'
  OBVIOUS
<1>1. ASSUME NEW q \in Requests, NEW s \in Slots, NEW p \in Participants, NEW note \in BOOLEAN,
             Reserve(q, s, p, note)
      PROVE  ApptInv'
  BY <1>1, ReserveKeeps
<1>2. ASSUME NEW q \in Requests, LockGroup(q) \/ Check(q) \/ Insert(q) PROVE ApptInv'
  BY <1>2, LockGroupKeeps, CheckKeeps, InsertKeeps
<1>3. ASSUME NEW q \in Requests, NoteSave(q) \/ CancelSave(q) \/ UpdateSave(q) PROVE ApptInv'
  BY <1>3, NoteSaveKeeps, CancelSaveKeeps, UpdateSaveKeeps
<1>4. ASSUME NEW q \in Requests, NEW r \in Reservations, CancelFind(q, r) PROVE ApptInv'
  BY <1>4, CancelFindKeeps
<1>5. ASSUME NEW q \in Requests, NEW max \in Limits, NEW limit \in Limits, UpdateFind(q, max, limit)
      PROVE  ApptInv'
  BY <1>5, UpdateFindKeeps
<1>6. CASE Delete
  BY <1>6, DeleteKeeps
<1>7. ASSUME NEW s \in Slots,
             (\E limit \in Numbers \cup {None} : AddSlot(s, limit)) \/ SlotStarts(s) \/ DeleteSlot(s)
      PROVE  ApptInv'
  BY <1>7, SlotKeeps
<1>8. CASE UNCHANGED apptVars
  BY <1>8, SlotStep DEF apptVars, SlotsLast, ApptInv, ApptTypeOK
<1> QED
  BY <1>1, <1>2, <1>3, <1>4, <1>5, <1>6, <1>7, <1>8 DEF ApptNext

-----------------------------------------------------------------------------
\* Only an insert books.
LEMMA OnlyInsertBooks ==
  ASSUME ApptInv, [ApptNext]_apptVars, NEW r \in Reservations, Booked(r)
  PROVE  \E q \in Requests : Insert(q)
<1>1. DOMAIN reservation' # DOMAIN reservation /\ r \in DOMAIN reservation'
  BY DEF Booked
<1>2. ~(UNCHANGED reservation) /\ ~(UNCHANGED apptVars)
  BY <1>1 DEF apptVars
<1>3. ASSUME NEW q \in Requests PROVE ~NoteSave(q) /\ ~CancelSave(q)
  BY <1>1 DEF NoteSave, CancelSave
<1>4. ASSUME NEW s \in Slots PROVE ~DeleteSlot(s)
  BY DEF DeleteSlot, Booked
<1>5. ASSUME NEW q \in Requests
      PROVE  /\ ~LockGroup(q) /\ ~Check(q) /\ ~UpdateSave(q)
             /\ \A s \in Slots, p \in Participants, note \in BOOLEAN : ~Reserve(q, s, p, note)
             /\ \A o \in Reservations : ~CancelFind(q, o)
             /\ \A max, limit \in Limits : ~UpdateFind(q, max, limit)
  BY <1>2 DEF LockGroup, Check, UpdateSave, Reserve, CancelFind, UpdateFind
<1>6. ~Delete /\ \A s \in Slots : ~SlotStarts(s) /\ \A limit \in Numbers \cup {None} : ~AddSlot(s, limit)
  BY <1>2 DEF Delete, SlotStarts, AddSlot
<1> QED
  BY <1>2, <1>3, <1>4, <1>5, <1>6 DEF ApptNext

\* What the request that inserts had checked, of what it inserts.
LEMMA BookingFits ==
  ASSUME ApptInv, [ApptNext]_apptVars, NEW r \in Reservations, Booked(r)
  PROVE  /\ group.state # "deleted"
         /\ \A s \in Slots : reservation'[r].slot = s => Cardinality(CountedIn(s)') <= LimitOf(s)'
         /\ \A p \in Participants : reservation'[r].by = p => Cardinality(CountedOf(p)') <= group'.max
<1>1. PICK q \in Requests : Insert(q)
  BY OnlyInsertBooks
<1>2. request[q].at = "insert" /\ UNCHANGED <<group, slot>>
  BY <1>1 DEF Insert, At
<1>3. PICK s \in Slots, p \in Participants : s = request[q].slot /\ p = request[q].by
  BY <1>2 DEF ApptInv, RequestInv, Typed, Booking
<1>4. /\ group.state # "deleted"
      /\ Cardinality(CountedIn(s)) < LimitOf(s)
      /\ Cardinality(CountedOf(p)) < group.max
  BY <1>2, <1>3 DEF ApptInv, RequestInv, OpenWhileLocked, SeatLeft, Booking
<1>5. Inserted(s, p, r)
  <2>1. ~(UNCHANGED reservation)
    BY DEF Booked
  <2>2. PICK o \in Reservations : Inserted(s, p, o)
    BY <1>1, <1>3, <2>1, InsertSteps
  <2>3. o = r
    BY <2>2 DEF Inserted, Booked
  <2> QED
    BY <2>2, <2>3
<1>6. /\ DOMAIN reservation' = DOMAIN reservation \cup {r} /\ r \notin DOMAIN reservation
      /\ reservation'[r] = [slot |-> s, by |-> p, state |-> "reserved", revived |-> FALSE]
      /\ \A o \in DOMAIN reservation : reservation'[o] = reservation[o]
  BY <1>5 DEF Inserted
<1>7. Counted' = Counted \cup {r} /\ r \notin Counted
  BY <1>6 DEF Counted, Live
<1>8. CountedIn(s)' = CountedIn(s) \cup {r} /\ CountedOf(p)' = CountedOf(p) \cup {r}
  BY <1>6, <1>7 DEF CountedIn, CountedOf, Counted, Live
<1>9. r \notin CountedIn(s) /\ r \notin CountedOf(p)
  BY <1>7 DEF CountedIn, CountedOf
<1>10. /\ Cardinality(CountedIn(s)') = Cardinality(CountedIn(s)) + 1
       /\ Cardinality(CountedOf(p)') = Cardinality(CountedOf(p)) + 1
  BY <1>8, <1>9, CountedFinite, FS_AddElement DEF ApptInv
<1>11. LimitOf(s)' = LimitOf(s) /\ group' = group
  BY <1>2 DEF LimitOf
<1>12. /\ Cardinality(CountedIn(s)) \in Nat /\ Cardinality(CountedOf(p)) \in Nat
       /\ LimitOf(s) \in Nat /\ group.max \in Nat
  BY CountedFinite, LimitIsNumber DEF ApptInv
<1>13. Cardinality(CountedIn(s)') <= LimitOf(s)' /\ Cardinality(CountedOf(p)') <= group'.max
  BY <1>4, <1>10, <1>11, <1>12
<1>14. reservation'[r].slot = s /\ reservation'[r].by = p
  BY <1>6
<1> QED
  BY <1>4, <1>13, <1>14

LEMMA FitsAll ==
  ASSUME ApptInv, [ApptNext]_apptVars
  PROVE  NeverOverbooked /\ NeverBeyondMaximum /\ NotAfterDeletion
BY BookingFits DEF NeverOverbooked, NeverBeyondMaximum, NotAfterDeletion

(***************************************************************************)
(* The invariant holds in every behaviour: the row lock of the group       *)
(* serializes the bookings and keeps the instructor's saves of the group   *)
(* out of them, and what may come in between takes no seat.                *)
(***************************************************************************)
THEOREM AppointmentsInvariance == ApptSpec => []ApptInv
BY ApptInitially, ApptInductive, PTL DEF ApptSpec

(***************************************************************************)
(* Every row has the columns its statements write.                         *)
(***************************************************************************)
THEOREM AppointmentsTyped == ApptSpec => []ApptTypeOK
<1>1. ApptInv => ApptTypeOK
  BY DEF ApptInv
<1> QED
  BY <1>1, AppointmentsInvariance, PTL

(***************************************************************************)
(* A participant has one live reservation of a slot at most, whichever     *)
(* late saves come.                                                        *)
(***************************************************************************)
THEOREM AppointmentsNotDoubled == ApptSpec => []OneLivePerSlot
<1>1. ApptInv => OneLivePerSlot
  BY DEF ApptInv
<1> QED
  BY <1>1, AppointmentsInvariance, PTL

(***************************************************************************)
(* No booking overfills a slot, for any number of requests at once.        *)
(***************************************************************************)
THEOREM AppointmentsFit == ApptSpec => CapacityKept
<1>1. ApptInv /\ [ApptNext]_apptVars => [NeverOverbooked]_apptVars
  BY FitsAll
<1> QED
  BY <1>1, AppointmentsInvariance, PTL DEF ApptSpec, CapacityKept

(***************************************************************************)
(* No booking takes a participant beyond the maximum of the group.         *)
(***************************************************************************)
THEOREM AppointmentsWithinMaximum == ApptSpec => MaximumKept
<1>1. ApptInv /\ [ApptNext]_apptVars => [NeverBeyondMaximum]_apptVars
  BY FitsAll
<1> QED
  BY <1>1, AppointmentsInvariance, PTL DEF ApptSpec, MaximumKept

(***************************************************************************)
(* No slot of a deleted group is booked.                                   *)
(***************************************************************************)
THEOREM AppointmentsOfOpenGroups == ApptSpec => BookedWhileOpen
<1>1. ApptInv /\ [ApptNext]_apptVars => [NotAfterDeletion]_apptVars
  BY FitsAll
<1> QED
  BY <1>1, AppointmentsInvariance, PTL DEF ApptSpec, BookedWhileOpen

-----------------------------------------------------------------------------
\* The refinement of AppointmentBook

Seat(r) == <<reservation[r].slot, reservation[r].by>>
Room == [s \in {o \in Slots : There(o)} |-> slot[s].limit]
Seats == Pairs(Counted)
Late == Pairs(Live \ Counted)
Sheet == <<group.state # "deleted", group.max, group.limit, Room, Seats, Late>>

\* Both modules count alike.
LEMMA SameCount == \A S : Book!Cardinality(S) = Cardinality(S)
BY DEF Book!Cardinality, Cardinality

\* The seats of a slot, or of a participant, are no more than its rows.
LEMMA SeatsAreRows ==
  ASSUME ApptInv, NEW s \in Slots, NEW p \in Participants
  PROVE  /\ Cardinality(Book!Seated(s)) \in Nat /\ Cardinality(Book!BookedBy(p)) \in Nat
         /\ Cardinality(Book!Seated(s)) <= Cardinality(CountedIn(s))
         /\ Cardinality(Book!BookedBy(p)) <= Cardinality(CountedOf(p))
<1> DEFINE f == [r \in DOMAIN reservation |-> Seat(r)]
<1>1. IsFiniteSet(CountedIn(s)) /\ IsFiniteSet(CountedOf(p))
  BY CountedFinite DEF ApptInv
<1>2. ASSUME NEW S, IsFiniteSet(S)
      PROVE  IsFiniteSet({f[r] : r \in S}) /\ Cardinality({f[r] : r \in S}) <= Cardinality(S)
  <2> DEFINE T == {f[r] : r \in S}
             g == [r \in S |-> f[r]]
  <2>1. g \in Surjection(S, T)
    BY DEF Surjection
  <2> HIDE DEF g, T
  <2> QED
    BY <1>2, <2>1, FS_Surjection DEF T
<1>3. \A r \in Counted : f[r] = Seat(r) /\ Seat(r)[1] = reservation[r].slot /\ Seat(r)[2] = reservation[r].by
  BY DEF Counted, Live, Seat
<1>4. Seats = {f[r] : r \in Counted}
  BY <1>3 DEF Seats, Pairs, Seat
<1> HIDE DEF f
<1>5. Book!Seated(s) = {f[r] : r \in CountedIn(s)}
  BY <1>3, <1>4 DEF Book!Seated, Seats, CountedIn
<1>6. Book!BookedBy(p) = {f[r] : r \in CountedOf(p)}
  BY <1>3, <1>4 DEF Book!BookedBy, Seats, CountedOf
<1> QED
  BY <1>1, <1>2, <1>5, <1>6, FS_CardinalityType

\* The sheet is made of the group, the slots and the reservations.
LEMMA SheetStays ==
  ASSUME UNCHANGED <<group, slot, reservation>>
  PROVE  UNCHANGED Sheet
BY DEF Sheet, Room, Seats, Late, Pairs, Counted, Live, There

\* The insert books: what the request checked under the lock is still so.
LEMMA InsertBooks ==
  ASSUME ApptInv, NEW q \in Requests, Insert(q)
  PROVE  UNCHANGED Sheet \/ \E s \in Slots, p \in Participants : Book!Book(s, p)
<1>1. UNCHANGED <<group, slot>> /\ request[q].at = "insert"
  BY DEF Insert, At
<1>2. CASE UNCHANGED reservation
  BY <1>1, <1>2, SheetStays
<1>3. CASE \E r \in Reservations : Inserted(request[q].slot, request[q].by, r)
  <2>1. PICK s \in Slots, p \in Participants : s = request[q].slot /\ p = request[q].by
    BY <1>1 DEF ApptInv, RequestInv, Typed, Booking
  <2>2. PICK r \in Reservations : Inserted(s, p, r)
    BY <1>3, <2>1
  <2>3. /\ DOMAIN reservation' = DOMAIN reservation \cup {r} /\ r \notin DOMAIN reservation
        /\ reservation'[r] = [slot |-> s, by |-> p, state |-> "reserved", revived |-> FALSE]
        /\ \A o \in DOMAIN reservation : reservation'[o] = reservation[o]
    BY <2>2 DEF Inserted
  <2>4. Counted' = Counted \cup {r} /\ (Live \ Counted)' = Live \ Counted
    BY <2>3 DEF Counted, Live
  <2>5. Seat(r)' = <<s, p>> /\ \A o \in Live : Seat(o)' = Seat(o)
    BY <2>3 DEF Seat, Live
  <2>6. Seats' = Seats \cup {<<s, p>>} /\ Late' = Late
    BY <2>4, <2>5 DEF Seats, Late, Pairs, Seat, Counted
  <2>7. <<s, p>> \notin Seats \cup Late
    <3>1. \A o \in Live : ~(reservation[o].slot = s /\ reservation[o].by = p)
      BY <2>2, NoneAssumption DEF Inserted, Taken, LiveIn, LiveOf, Live, ApptInv, ApptTypeOK
    <3> QED
      BY <3>1 DEF Seats, Late, Pairs, Counted
  <2>8. s \in DOMAIN Room /\ Room[s] = slot[s].limit /\ group.state # "deleted"
    BY <1>1, <2>2 DEF Inserted, Room, ApptInv, RequestInv, OpenWhileLocked, Booking
  <2>9. Cardinality(CountedIn(s)) < LimitOf(s) /\ Cardinality(CountedOf(p)) < group.max
    BY <1>1, <2>1 DEF ApptInv, RequestInv, SeatLeft
  <2>10. Book!LimitOf(s) = LimitOf(s)
    BY <2>8 DEF Book!LimitOf, LimitOf, Room
  <2>11. Cardinality(Book!Seated(s)) < Book!LimitOf(s) /\ Cardinality(Book!BookedBy(p)) < group.max
    <3>1. /\ Cardinality(CountedIn(s)) \in Nat /\ Cardinality(CountedOf(p)) \in Nat
          /\ LimitOf(s) \in Nat /\ group.max \in Nat
      BY CountedFinite, LimitIsNumber DEF ApptInv
    <3> QED
      BY <2>9, <2>10, <3>1, SeatsAreRows
  <2>12. Room' = Room
    BY <1>1 DEF Room, There
  <2>13. Book!Book(s, p)
    <3>1. (group.state # "deleted")' = (group.state # "deleted") /\ group'.max = group.max /\ group'.limit = group.limit
      BY <1>1
    <3> QED
      BY <2>6, <2>7, <2>8, <2>11, <2>12, <3>1, SameCount DEF Book!Book, Seats, Late, Room
  <2> QED
    BY <2>13
<1> QED
  BY <1>2, <1>3, InsertSteps

\* What a save of one row does to the sheet.
LEMMA RowSavedOnSheet ==
  ASSUME ApptInv, NEW r \in DOMAIN reservation, NEW z \in Reservation,
         z.slot = reservation[r].slot, z.by = reservation[r].by,
         UNCHANGED <<group, slot>>, reservation' = [reservation EXCEPT ![r] = z]
  PROVE  /\ UNCHANGED <<group.state # "deleted", group.max, group.limit, Room>>
         /\ z.slot \in Slots /\ z.by \in Participants
         /\ \A o \in DOMAIN reservation : Seat(o)' = Seat(o)
         /\ Counted' \ {r} = Counted \ {r} /\ Live' \ {r} = Live \ {r}
         /\ r \in Live' <=> z.state = "reserved"
         /\ r \in Counted' <=> z.state = "reserved" /\ ~z.revived
<1>1. /\ DOMAIN reservation' = DOMAIN reservation /\ reservation'[r] = z
      /\ \A o \in DOMAIN reservation \ {r} : reservation'[o] = reservation[o]
  OBVIOUS
<1>2. \A o \in DOMAIN reservation : Seat(o)' = Seat(o)
  BY <1>1 DEF Seat
<1> QED
  BY <1>1, <1>2 DEF Room, There, Counted, Live, Reservation

\* A row's pair is on the sheet by that row alone.
LEMMA PairIsOneRow ==
  ASSUME ApptInv, NEW r \in Live
  PROVE  \A o \in Live : Seat(o) = Seat(r) => o = r
BY DEF Seat, ApptInv, OneLivePerSlot

\* A late note brings a booking back, or changes nothing.
LEMMA NoteBringsBack ==
  ASSUME ApptInv, NEW q \in Requests, NoteSave(q)
  PROVE  UNCHANGED Sheet \/ \E s \in Slots, p \in Participants : Book!BringBack(s, p)
<1>1. UNCHANGED <<group, slot>>
  BY DEF NoteSave
<1>2. CASE UNCHANGED reservation
  BY <1>1, <1>2, SheetStays
<1>3. CASE reservation' # reservation
  <2>1. PICK r : r = request[q].row
    OBVIOUS
  <2> DEFINE b == reservation[r].revived \/ reservation[r].state = "canceled"
             z == [reservation[r] EXCEPT !.state = "reserved", !.revived = b]
  <2>2. r \in DOMAIN reservation /\ ~Taken(reservation[r].slot, reservation[r].by, r)
    BY <1>3, <2>1 DEF NoteSave
  <2>3. reservation[r] \in Reservation
    BY <2>2 DEF ApptInv, ApptTypeOK
  <2>4. b \in BOOLEAN /\ reservation[r].state \in {"reserved", "canceled"}
    BY <2>3 DEF Reservation
  <2>5. reservation' = [reservation EXCEPT ![r] = z]
    BY <2>1, <2>2 DEF NoteSave
  <2>6. (b <=> reservation[r].revived) \/ (b /\ r \notin Live)
    BY <2>4 DEF Live
  <2> HIDE DEF b
  <2>7. /\ z \in Reservation /\ z.slot = reservation[r].slot /\ z.by = reservation[r].by
        /\ z.state = "reserved" /\ z.revived = b
    BY <2>3, <2>4, ReservationRows DEF Reservation
  <2> HIDE DEF z
  <2>8. /\ UNCHANGED <<group.state # "deleted", group.max, group.limit, Room>>
        /\ z.slot \in Slots /\ z.by \in Participants
        /\ \A o \in DOMAIN reservation : Seat(o)' = Seat(o)
        /\ Counted' \ {r} = Counted \ {r} /\ Live' \ {r} = Live \ {r}
        /\ r \in Live' /\ (r \in Counted' <=> ~b)
    BY <1>1, <2>2, <2>5, <2>7, RowSavedOnSheet
  <2>9. CASE r \in Live
    <3>1. Live' = Live /\ Counted' = Counted
      <4>1. b => reservation[r].revived
        BY <2>6, <2>9
      <4>2. r \in Counted <=> ~reservation[r].revived
        BY <2>9 DEF Counted
      <4>3. r \in Counted' <=> r \in Counted
        BY <2>4, <2>8, <4>1, <4>2 DEF b
      <4> QED
        BY <2>8, <2>9, <4>3
    <3>2. Seats' = Seats /\ Late' = Late
      BY <2>8, <3>1 DEF Seats, Late, Pairs, Seat, Counted, Live
    <3> QED
      BY <2>8, <3>2 DEF Sheet
  <2>10. CASE r \notin Live
    <3>1. Live' = Live \cup {r} /\ Counted' = Counted /\ b
      <4>1. b
        BY <2>4, <2>10, <2>2 DEF b, Live
      <4> QED
        BY <2>8, <2>10, <4>1 DEF Counted
    <3>2. Seats' = Seats /\ Late' = Late \cup {<<z.slot, z.by>>}
      <4>1. Seat(r)' = <<z.slot, z.by>>
        BY <2>2, <2>7, <2>8 DEF Seat
      <4>2. (Live \ Counted)' = (Live \ Counted) \cup {r} /\ Live \subseteq DOMAIN reservation
        BY <2>10, <3>1 DEF Counted, Live
      <4> QED
        BY <2>8, <3>1, <4>1, <4>2 DEF Seats, Late, Pairs, Seat, Counted
    <3>3. <<z.slot, z.by>> \notin Seats \cup Late
      <4>1. \A o \in Live : ~(reservation[o].slot = z.slot /\ reservation[o].by = z.by)
        BY <2>2, <2>7, <2>10 DEF Taken, LiveIn, LiveOf
      <4> QED
        BY <4>1 DEF Seats, Late, Pairs, Counted
    <3>4. Book!BringBack(z.slot, z.by)
      BY <2>8, <3>2, <3>3 DEF Book!BringBack, Seats, Late, Room
    <3> QED
      BY <2>8, <3>4
  <2> QED
    BY <2>9, <2>10
<1> QED
  BY <1>2, <1>3

\* A cancellation takes a booking off the sheet, or changes nothing.
LEMMA CancelTakesOff ==
  ASSUME ApptInv, NEW q \in Requests, CancelSave(q)
  PROVE  UNCHANGED Sheet \/ \E s \in Slots, p \in Participants : Book!Cancel(s, p)
<1>1. UNCHANGED <<group, slot>>
  BY DEF CancelSave
<1>2. PICK r : r = request[q].row
  OBVIOUS
<1>3. CASE r \notin DOMAIN reservation
  BY <1>1, <1>2, <1>3, SheetStays DEF CancelSave
<1>4. CASE r \in DOMAIN reservation
  <2> DEFINE z == [reservation[r] EXCEPT !.state = "canceled"]
  <2>1. reservation[r] \in Reservation
    BY <1>4 DEF ApptInv, ApptTypeOK
  <2>2. reservation' = [reservation EXCEPT ![r] = z]
    BY <1>2, <1>4 DEF CancelSave
  <2>3. z \in Reservation /\ z.slot = reservation[r].slot /\ z.by = reservation[r].by /\ z.state = "canceled"
    BY <2>1, ReservationRows DEF Reservation
  <2> HIDE DEF z
  <2>4. /\ UNCHANGED <<group.state # "deleted", group.max, group.limit, Room>>
        /\ z.slot \in Slots /\ z.by \in Participants
        /\ \A o \in DOMAIN reservation : Seat(o)' = Seat(o)
        /\ Counted' \ {r} = Counted \ {r} /\ Live' \ {r} = Live \ {r}
        /\ r \notin Live' /\ r \notin Counted'
    BY <1>1, <1>4, <2>2, <2>3, RowSavedOnSheet
  <2>5. Live' = Live \ {r} /\ Counted' = Counted \ {r}
    BY <2>4
  <2>6. CASE r \notin Live
    <3>1. Live' = Live /\ Counted' = Counted
      BY <2>5, <2>6 DEF Counted
    <3>2. Seats' = Seats /\ Late' = Late
      BY <2>4, <3>1 DEF Seats, Late, Pairs, Seat, Counted, Live
    <3> QED
      BY <2>4, <3>2 DEF Sheet
  <2>7. CASE r \in Live
    <3>1. Seat(r) = <<z.slot, z.by>> /\ \A o \in Live : Seat(o) = Seat(r) => o = r
      BY <2>3, <2>7, PairIsOneRow DEF Seat
    <3>2. Counted \subseteq Live /\ Live \subseteq DOMAIN reservation
      BY DEF Counted, Live
    <3>3. /\ Seats = {Seat(o) : o \in Counted} /\ Late = {Seat(o) : o \in Live \ Counted}
          /\ Seats' = {Seat(o)' : o \in Counted'} /\ Late' = {Seat(o)' : o \in Live' \ Counted'}
      BY DEF Seats, Late, Pairs, Seat
    <3>4. Seats' = Seats \ {<<z.slot, z.by>>} /\ Late' = Late \ {<<z.slot, z.by>>}
      BY <2>4, <2>5, <3>1, <3>2, <3>3
    <3>5. <<z.slot, z.by>> \in Seats \cup Late
      BY <2>7, <3>1, <3>3
    <3>6. Book!Cancel(z.slot, z.by)
      BY <2>4, <3>4, <3>5 DEF Book!Cancel, Seats, Late, Room
    <3> QED
      BY <2>4, <3>6
  <2> QED
    BY <2>6, <2>7
<1> QED
  BY <1>3, <1>4

\* An instructor's changes of slots.
LEMMA SlotsOnSheet ==
  ASSUME ApptInv, NEW s \in Slots,
         (\E limit \in Numbers \cup {None} : AddSlot(s, limit)) \/ SlotStarts(s) \/ DeleteSlot(s)
  PROVE  UNCHANGED Sheet \/ Book!AddSlot(s) \/ Book!RemoveSlot(s)
<1>1. slot \in [Slots -> Slot]
  BY DEF ApptInv, ApptTypeOK
<1>2. CASE SlotStarts(s)
  <2>1. \A o \in Slots : There(o)' = There(o) /\ slot'[o].limit = slot[o].limit
    BY <1>1, <1>2 DEF SlotStarts, There, Slot
  <2>2. Room' = Room /\ UNCHANGED <<group, reservation>>
    BY <1>2, <2>1 DEF Room, SlotStarts
  <2> QED
    BY <2>2 DEF Sheet, Seats, Late, Pairs, Counted, Live
<1>3. ASSUME NEW limit \in Numbers \cup {None}, AddSlot(s, limit)
      PROVE  Book!AddSlot(s)
  <2>1. /\ slot'[s] = [state |-> "open", limit |-> limit] /\ \A o \in Slots \ {s} : slot'[o] = slot[o]
        /\ slot[s].state = "none" /\ UNCHANGED <<group, reservation>>
    BY <1>1, <1>3 DEF AddSlot
  <2>2. s \notin DOMAIN Room /\ DOMAIN Room' = DOMAIN Room \cup {s}
    BY <2>1 DEF Room, There
  <2>3. Room'[s] = limit /\ \A o \in DOMAIN Room : Room'[o] = Room[o] /\ o # s
    BY <2>1, <2>2 DEF Room, There
  <2>4. Room' = [o \in DOMAIN Room \cup {s} |-> IF o = s THEN Room'[s] ELSE Room[o]]
    <3>1. Room' = [o \in DOMAIN Room' |-> Room'[o]]
      BY DEF Room
    <3> QED
      BY <2>2, <2>3, <3>1
  <2>5. Seats' = Seats /\ Late' = Late
    BY <2>1 DEF Seats, Late, Pairs, Counted, Live
  <2>6. limit \in Nat \cup {None}
    BY NumbersAssumption
  <2> QED
    BY <2>1, <2>2, <2>3, <2>4, <2>5, <2>6 DEF Book!AddSlot, Seats, Late, Room
<1>4. CASE DeleteSlot(s)
  <2>1. /\ There(s) /\ slot'[s].state = "deleted" /\ \A o \in Slots \ {s} : slot'[o] = slot[o]
        /\ UNCHANGED group
    BY <1>1, <1>4 DEF DeleteSlot, Slot
  <2>2. /\ DOMAIN reservation' = {o \in DOMAIN reservation : reservation[o].slot # s}
        /\ \A o \in DOMAIN reservation' : reservation'[o] = reservation[o]
    BY <1>4 DEF DeleteSlot
  <2>3. s \in DOMAIN Room /\ Room' = [o \in DOMAIN Room \ {s} |-> Room[o]]
    BY <2>1 DEF Room, There
  <2>4. /\ Live' = {o \in Live : reservation[o].slot # s}
        /\ Counted' = {o \in Counted : reservation[o].slot # s}
    BY <2>2 DEF Live, Counted
  <2>5. \A o \in DOMAIN reservation' : Seat(o)' = Seat(o)
    BY <2>2 DEF Seat
  <2>6. \A o : Seat(o)[1] = reservation[o].slot
    BY DEF Seat
  <2>7. /\ Seats = {Seat(o) : o \in Counted} /\ Late = {Seat(o) : o \in Live \ Counted}
        /\ Seats' = {Seat(o)' : o \in Counted'} /\ Late' = {Seat(o)' : o \in Live' \ Counted'}
    BY DEF Seats, Late, Pairs, Seat
  <2>8. Counted' \subseteq DOMAIN reservation' /\ Live' \subseteq DOMAIN reservation'
    BY DEF Counted, Live
  <2>9. Seats' = {b \in Seats : b[1] # s} /\ Late' = {b \in Late : b[1] # s}
    BY <2>4, <2>5, <2>6, <2>7, <2>8
  <2>10. Seats' = Seats \ Book!Seated(s)
    BY <2>9 DEF Book!Seated, Seats
  <2> QED
    BY <2>1, <2>3, <2>9, <2>10 DEF Book!RemoveSlot, Seats, Late, Room
<1> QED
  BY <1>2, <1>3, <1>4

\* The group's row is saved: limits change, and whether it can be booked.
LEMMA GroupOnSheet ==
  ASSUME ApptInv, group' \in Group, UNCHANGED <<slot, reservation>>
  PROVE  Book!ChangeGroup
<1>1. group'.max \in Nat \ {0} /\ group'.limit \in Nat \ {0}
  BY DEF Group
<1>2. Room' = Room /\ Seats' = Seats /\ Late' = Late
  BY DEF Room, There, Seats, Late, Pairs, Counted, Live
<1> QED
  BY <1>1, <1>2 DEF Book!ChangeGroup, Book!Limits, Seats, Late, Room

\* Every statement is one step of the sheet, or none.
LEMMA SheetStep == ApptInv /\ [ApptNext]_apptVars => [Book!Next]_Sheet
<1> SUFFICES ASSUME ApptInv, [ApptNext]_apptVars PROVE Book!Next \/ UNCHANGED Sheet
  OBVIOUS
<1>1. ASSUME NEW q \in Requests,
             \/ \E s \in Slots, p \in Participants, note \in BOOLEAN : Reserve(q, s, p, note)
             \/ LockGroup(q) \/ Check(q)
             \/ \E r \in Reservations : CancelFind(q, r)
             \/ \E max, limit \in Limits : UpdateFind(q, max, limit)
      PROVE  UNCHANGED Sheet
  <2>1. UNCHANGED <<group, slot, reservation>>
    BY <1>1 DEF Reserve, LockGroup, Check, CancelFind, UpdateFind
  <2> QED
    BY <2>1, SheetStays
<1>2. ASSUME NEW q \in Requests, Insert(q) \/ NoteSave(q) \/ CancelSave(q)
      PROVE  Book!Next \/ UNCHANGED Sheet
  BY <1>2, InsertBooks, NoteBringsBack, CancelTakesOff DEF Book!Next
<1>3. ASSUME NEW q \in Requests, UpdateSave(q) PROVE Book!Next
  <2>1. group' \in Group /\ UNCHANGED <<slot, reservation>>
    BY <1>3 DEF UpdateSave, At, ApptInv, RequestInv, Typed
  <2> QED
    BY <2>1, GroupOnSheet DEF Book!Next
<1>4. CASE Delete
  <2>1. [group EXCEPT !.state = "deleted"] \in Group
    BY Zenon DEF ApptInv, ApptTypeOK, Group
  <2>2. group' \in Group /\ UNCHANGED <<slot, reservation>>
    BY <1>4, <2>1 DEF Delete
  <2> QED
    BY <2>2, GroupOnSheet DEF Book!Next
<1>5. ASSUME NEW s \in Slots,
             (\E limit \in Numbers \cup {None} : AddSlot(s, limit)) \/ SlotStarts(s) \/ DeleteSlot(s)
      PROVE  Book!Next \/ UNCHANGED Sheet
  BY <1>5, SlotsOnSheet DEF Book!Next
<1>6. CASE UNCHANGED apptVars
  BY <1>6, SheetStays DEF apptVars
<1> QED
  BY <1>1, <1>2, <1>3, <1>4, <1>5, <1>6 DEF ApptNext

(***************************************************************************)
(* The row lock and the saves outside it implement a sheet on which a      *)
(* booking is checked and made in one step.                                *)
(***************************************************************************)
THEOREM AppointmentsAreABook == ApptSpec => ImplementsBook
<1>1. ApptInit => Book!Init
  <2> SUFFICES ASSUME ApptInit PROVE Book!Init
    OBVIOUS
  <2>1. group.state # "deleted" /\ group.max \in Nat \ {0} /\ group.limit \in Nat \ {0}
    BY NumbersAssumption DEF ApptInit, Limits
  <2>2. Live = {} /\ Counted = {}
    BY DEF ApptInit, Live, Counted
  <2>3. \A s \in Slots : ~There(s)
    BY DEF ApptInit, There
  <2>4. Seats = {} /\ Late = {} /\ Room = [s \in {} |-> None]
    BY <2>2, <2>3 DEF Seats, Late, Pairs, Room
  <2> QED
    BY <2>1, <2>4 DEF Book!Init, Book!Limits, Seats, Late, Room
<1>2. ApptInv /\ [ApptNext]_apptVars => [Book!Next]_(Book!bookVars)
  BY SheetStep DEF Book!bookVars, Sheet, Room, Seats, Late
<1> QED
  BY <1>1, <1>2, AppointmentsInvariance, PTL DEF ApptSpec, ImplementsBook, Book!Spec

-----------------------------------------------------------------------------
(***************************************************************************)
(* MCCourseGroups: whatever it is about, appointment groups and teams each *)
(* go on as their own specification says, so what is proved of one holds   *)
(* beside the other.                                                       *)
(***************************************************************************)
THEOREM CourseGroupsCompose == Spec => ApptSpec /\ TeamSpec
<1>1. Init => ApptInit /\ TeamInit
  BY DEF Init
<1>2. [Next]_vars => [ApptNext]_apptVars /\ [TeamNext]_teamVars
  BY DEF Next, vars
<1> QED
  BY <1>1, <1>2, PTL DEF Spec, ApptSpec, TeamSpec

(***************************************************************************)
(* Rows of both, and the copies that requests and calls hold of them, keep *)
(* their types side by side.                                               *)
(***************************************************************************)
THEOREM CourseGroupsTyped == Spec => []TypeOK
BY CourseGroupsCompose, AppointmentsTyped, TeamsTyped, PTL DEF TypeOK
================================================================================
