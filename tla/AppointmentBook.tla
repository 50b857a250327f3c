---------------------------- MODULE AppointmentBook ----------------------------
(***************************************************************************)
(* What the sign-up sheet of an appointment group promises, without        *)
(* requests, locks or rows: a booking is checked and made in one step,     *)
(* nobody has a slot twice, and bookings only go by being cancelled or     *)
(* with their slot.  The one thing it cannot promise is kept apart: a note *)
(* saved late may bring a cancelled booking back, which no limit counts.   *)
(***************************************************************************)
EXTENDS Naturals, FiniteSets

CONSTANTS Participants, Slots, None

VARIABLES
  open,   \* whether the group can be booked
  max,    \* bookings a participant may have
  limit,  \* participants a slot may have that has no limit of its own
  room,   \* the slots there are, each with its own limit, or None
  seats,  \* who has booked what: pairs of slot and participant
  late    \* bookings that were brought back

bookVars == <<open, max, limit, room, seats, late>>

Seated(s) == {b \in seats : b[1] = s}
BookedBy(p) == {b \in seats : b[2] = p}
LimitOf(s) == IF room[s] = None THEN limit ELSE room[s]
Limits == Nat \ {0}

Init ==
  /\ open = TRUE /\ max \in Limits /\ limit \in Limits
  /\ room = [s \in {} |-> None]
  /\ seats = {} /\ late = {}

Book(s, p) ==
  /\ open
  /\ s \in DOMAIN room
  /\ <<s, p>> \notin seats \cup late
  /\ Cardinality(Seated(s)) < LimitOf(s)
  /\ Cardinality(BookedBy(p)) < max
  /\ seats' = seats \cup {<<s, p>>}
  /\ UNCHANGED <<open, max, limit, room, late>>

Cancel(s, p) ==
  /\ <<s, p>> \in seats \cup late
  /\ seats' = seats \ {<<s, p>>}
  /\ late' = late \ {<<s, p>>}
  /\ UNCHANGED <<open, max, limit, room>>

BringBack(s, p) ==
  /\ <<s, p>> \notin seats \cup late
  /\ late' = late \cup {<<s, p>>}
  /\ UNCHANGED <<open, max, limit, room, seats>>

\* An instructor changes limits, deletes the group, or saves it back.
ChangeGroup ==
  /\ open' \in BOOLEAN /\ max' \in Limits /\ limit' \in Limits
  /\ UNCHANGED <<room, seats, late>>

AddSlot(s) ==
  /\ s \notin DOMAIN room /\ DOMAIN room' = DOMAIN room \cup {s}
  /\ room'[s] \in Nat \cup {None}
  /\ room' = [o \in DOMAIN room \cup {s} |-> IF o = s THEN room'[s] ELSE room[o]]
  /\ UNCHANGED <<open, max, limit, seats, late>>

RemoveSlot(s) ==
  /\ s \in DOMAIN room
  /\ room' = [o \in DOMAIN room \ {s} |-> room[o]]
  /\ seats' = seats \ Seated(s)
  /\ late' = {b \in late : b[1] # s}
  /\ UNCHANGED <<open, max, limit>>

Next ==
  \/ ChangeGroup
  \/ \E s \in Slots, p \in Participants : Book(s, p) \/ Cancel(s, p) \/ BringBack(s, p)
  \/ \E s \in Slots : AddSlot(s) \/ RemoveSlot(s)

Spec == Init /\ [][Next]_bookVars
=============================================================================
