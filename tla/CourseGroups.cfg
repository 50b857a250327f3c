\* Two requests for two slots of an appointment group; two calls about the
\* teams of a group set.
CONSTANTS
  Requests = {q1, q2}
  Participants = {u1, u2}
  Slots = {s1, s2}
  Reservations = {r1, r2}
  Numbers = {0, 1}
  None = None
  Calls = {q1, q2}
  Students = {u1, u2}
  Teams = {1, 2, 3}
  Sets <- ThreeSets
  Nobody = Nobody
  MaxRows = 3
  MaxActs = 1
  MaxDone = 3
SPECIFICATION Spec
SYMMETRY Symmetry
INVARIANTS
  TypeOK
  OneLivePerSlot
  NobodyStranded
  LeaderIsMember
PROPERTIES
  CapacityKept
  MaximumKept
  ImplementsBook
  RoomKept
  OneTeamKept
  PlacedEvenly
CHECK_DEADLOCK FALSE
