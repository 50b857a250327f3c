----------------------------- MODULE GroupMembers ------------------------------
(***************************************************************************)
(* internal/service/group_service.go and group_set_service.go: the groups  *)
(* of one group set (teams here), their members and their leaders. A join  *)
(* checks the room, leaves the other teams of the set, inserts the member  *)
(* and sees to the leader of every team it touched; each is a statement of *)
(* its own, and no two are in one transaction.                             *)
(*                                                                         *)
(* Calls interleave between these statements; the reads a join begins with *)
(* are one step, and so is the find and delete of a removal. Who may make  *)
(* a call, sections, names and moderators are left out; a team's limit     *)
(* does not change.                                                        *)
(***************************************************************************)
EXTENDS Naturals, FiniteSets, FiniteSetsExt, Sequences, SequencesExt

CONSTANTS
  Calls,       \* requests under way
  Students,    \* the students of the course
  Teams,       \* ids of the groups of the set, which are listed in this order
  Sets,        \* the group sets a behaviour may be about
  Nobody,      \* no student
  MaxRows,     \* bound on memberships ever made
  MaxActs      \* bound on what staff do, members accepted apart, and calls that break off

\* several: role student_organized; limit: what groupCapacity makes of
\* max_membership and group_limit, 0 for none.
GroupSet == [several : BOOLEAN, limit : Nat, auto : {"", "first", "random"}]
ASSUME SetsAssumption == Sets \subseteq GroupSet
ASSUME TeamsAssumption == Teams \subseteq Nat \ {0}
ASSUME NobodyAssumption == Nobody \notin Students
ASSUME StudentsAssumption == IsFiniteSet(Students)
ASSUME TeamBoundsAssumption == {MaxRows, MaxActs} \subseteq Nat

VARIABLES
  set,         \* the group_categories row
  team,        \* the groups rows
  member,      \* group_memberships: id -> row
  made,        \* memberships made so far
  call,        \* per call: where it stands and what it has read
  owed,        \* students who joined and whom nobody has taken out
  disorder     \* acts so far; calls have overlapped; one has broken off

teamVars == <<set, team, member, made, call, owed, disorder>>

StudentOrNobody == Students \cup {Nobody}
Team == [deleted : BOOLEAN, leader : StudentOrNobody]
Member == [team : Teams, student : Students, state : {"accepted", "invited"}]
\* row: the membership to delete or save; plan: who is still to be put in which
\* team; leaders: LeaderID in the copies of
\* teams held; sync: the team whose leader is seen to, and after: what comes
\* then; saw: the memberships there, untouched by others, since the call began,
\* and its own; lost: a lookup found that another call had moved the student.
Call == [at : {"rest", "leaving", "seek", "leave", "create", "assign", "save", "lead", "store",
               "reload", "check", "clear", "fill", "appoint"},
         team : Teams \cup {0}, student : StudentOrNobody, state : {"accepted", "invited"},
         row : Nat, deleted : BOOLEAN, leaders : [Teams -> StudentOrNobody], pick : StudentOrNobody,
         plan : [Teams -> SUBSET Students], sync : Teams \cup {0},
         after : {"rest", "leaving", "assign"}, saw : SUBSET Nat, lost : BOOLEAN]
Nowhere == [t \in Teams |-> {}]
Rest == [at |-> "rest", team |-> 0, student |-> Nobody, state |-> "accepted", row |-> 0,
         deleted |-> FALSE, leaders |-> [t \in Teams |-> Nobody], pick |-> Nobody,
         plan |-> Nowhere, sync |-> 0, after |-> "rest", saw |-> {}, lost |-> FALSE]

InTeam(t) == {m \in DOMAIN member : member[m].team = t}
Of(u) == {m \in DOMAIN member : member[m].student = u}
Accepted == {m \in DOMAIN member : member[m].state = "accepted"}
Rows(t, u) == InTeam(t) \cap Of(u)
Open == {t \in Teams : ~team[t].deleted}

\* The rows and, by idx_group_user, one row of a student in a team.
TeamTypeOK ==
  /\ set \in Sets
  /\ team \in [Teams -> Team]
  /\ made \in 0 .. MaxRows
  /\ DOMAIN member \subseteq 1 .. made
  /\ \A m \in DOMAIN member : member[m] \in Member
  /\ \A t \in Teams, u \in Students : Cardinality(Rows(t, u)) <= 1
  /\ call \in [Calls -> Call]
  /\ owed \subseteq Students
  /\ disorder \in [acts : 0 .. MaxActs, overlapped : BOOLEAN, broken : BOOLEAN]

TeamInit ==
  /\ set \in Sets
  /\ team = [t \in Teams |-> [deleted |-> FALSE, leader |-> Nobody]]
  /\ member = <<>> /\ made = 0
  /\ call = [c \in Calls |-> Rest]
  /\ owed = {}
  /\ disorder = [acts |-> 0, overlapped |-> FALSE, broken |-> FALSE]

-----------------------------------------------------------------------------
Resting(c) == call[c].at = "rest"
Standing(c, at) == call[c].at = at
To(c, record) == call' = [call EXCEPT ![c] = record]
GoTo(c, at) == To(c, [call[c] EXCEPT !.at = at])
Start(c, record, acts) ==
  /\ Resting(c)
  /\ disorder.acts + acts <= MaxActs
  /\ To(c, [record EXCEPT !.saw = DOMAIN member])
  /\ disorder' = [disorder EXCEPT !.acts = @ + acts,
                                  !.overlapped = @ \/ \E d \in Calls \ {c} : ~Resting(d)]
Act(c, record) == Start(c, record, 1)
\* What a call does when it has seen to a team's leader.
Onward(record) ==
  IF record.after = "rest" \/ (record.after = "assign" /\ record.plan = Nowhere)
  THEN Rest ELSE [record EXCEPT !.at = record.after, !.pick = Nobody]
SeeTo(record, t, after) == [record EXCEPT !.at = "check", !.sync = t, !.after = after]

\* AddMember looks for the membership, reads the group and counts its rows, of
\* whatever state, ...
FullOffByOne(t) == set.limit > 0 /\ Cardinality(InTeam(t)) > set.limit
Full(t) == set.limit > 0 /\ Cardinality(InTeam(t)) >= set.limit
AllowsMultipleMemberships == set.several

AddMember(c, t, u, state) ==
  /\ Rows(t, u) = {} /\ ~Full(t)
  /\ Start(c, [Rest EXCEPT !.at = IF AllowsMultipleMemberships THEN "create" ELSE "leaving",
                           !.team = t, !.student = u, !.state = state,
                           !.leaders[t] = team[t].leader],
           IF state = "accepted" THEN 0 ELSE 1)
  /\ UNCHANGED <<set, team, member, made, owed>>

\* ... and takes the student out of one other team after another, until the
\* lookup finds none or, the student having got there meanwhile, this team; ...
TeamsOf(u) == {t \in Open : Rows(t, u) \cap Accepted # {}}
Copy(c, t) == To(c, [call[c] EXCEPT !.at = "seek", !.sync = t, !.leaders[t] = team[t].leader])
Lose(c) == To(c, [call[c] EXCEPT !.at = "create", !.lost = TRUE])

LeaveFindCheckRoom(c) ==
  LET found == TeamsOf(call[c].student)
  IN
  /\ Standing(c, "leaving")
  /\ IF found = {} THEN IF Full(call[c].team) THEN To(c, Rest) ELSE GoTo(c, "create")
     ELSE IF Min(found) = call[c].team THEN Lose(c) ELSE Copy(c, Min(found))
  /\ UNCHANGED <<set, team, member, made, owed, disorder>>
LeaveFindOnce(c) ==
  LET found == TeamsOf(call[c].student)
  IN
  /\ Standing(c, "leaving")
  /\ IF found = {} \/ call[c].row # 0 THEN GoTo(c, "create")
     ELSE IF Min(found) = call[c].team THEN Lose(c) ELSE Copy(c, Min(found))
  /\ UNCHANGED <<set, team, member, made, owed, disorder>>
LeaveFind(c) ==
  LET found == TeamsOf(call[c].student)
  IN
  /\ Standing(c, "leaving")
  /\ IF found = {} THEN GoTo(c, "create")
     ELSE IF Min(found) = call[c].team THEN Lose(c) ELSE Copy(c, Min(found))
  /\ UNCHANGED <<set, team, member, made, owed, disorder>>

\* ... or the membership of the team found is gone when it is looked for: then
\* too the call goes on to the insert, whatever other teams there are.
LeaveSeek(c) ==
  LET found == Rows(call[c].sync, call[c].student)
  IN
  /\ Standing(c, "seek")
  /\ \/ found = {} /\ Lose(c)
     \/ \E m \in found : To(c, [call[c] EXCEPT !.at = "leave", !.row = m])
  /\ UNCHANGED <<set, team, member, made, owed, disorder>>

Without(m) == [n \in DOMAIN member \ {m} |-> member[n]]
With(m, row) == [n \in DOMAIN member \cup {m} |-> IF n = m THEN row ELSE member[n]]

LeaveDelete(c) ==
  /\ Standing(c, "leave")
  /\ member' = Without(call[c].row)
  /\ To(c, SeeTo(call[c], call[c].sync, "leaving"))
  /\ UNCHANGED <<set, team, made, owed, disorder>>

\* The insert, which idx_group_user may refuse.
Refused(t, u) == Rows(t, u) # {}
Joins(c, t, u, state) ==
  /\ made < MaxRows
  /\ made' = made + 1
  /\ member' = With(made + 1, [team |-> t, student |-> u, state |-> state])
  /\ owed' = owed \cup {u}

Create(c) ==
  LET t == call[c].team
      u == call[c].student
  IN
  /\ Standing(c, "create")
  /\ IF Refused(t, u)
       THEN To(c, Rest) /\ UNCHANGED <<member, made, owed>>
       ELSE Joins(c, t, u, call[c].state) /\ To(c, SeeTo(call[c], t, "rest"))
  /\ UNCHANGED <<set, team, disorder>>

-----------------------------------------------------------------------------
\* planEvenly: students in a random order, each to the smallest team with room,
\* the first of them in the list; nobody goes anywhere when all are full. Who is
\* then put in a team first is left open, as the order is.
Roomy(size) == {t \in DOMAIN size : set.limit = 0 \/ size[t] < set.limit}
FirstRoomy(size) == Min(Roomy(size))
Smallest(size) == Min({t \in Roomy(size) : \A o \in Roomy(size) : size[t] <= size[o]})
Place(placed, u) ==
  IF Roomy(placed.size) = {} THEN placed
  ELSE LET t == Smallest(placed.size)
       IN  [size |-> [placed.size EXCEPT ![t] = @ + 1],
            plan |-> [placed.plan EXCEPT ![t] = @ \cup {u}]]
PlanEvenly(order) ==
  FoldLeft(Place, [size |-> [t \in Open |-> Cardinality(InTeam(t))], plan |-> Nowhere], order).plan

\* AssignUnassigned: the lists it reads first, taken together.
Unassigned == {u \in Students : TeamsOf(u) = {}}
AssignUnassigned(c) ==
  /\ ~set.several
  /\ \E order \in SetToSeqs(Unassigned) :
       LET plan == PlanEvenly(order)
       IN  /\ plan # Nowhere
           /\ Act(c, [Rest EXCEPT !.at = "assign", !.after = "assign", !.plan = plan,
                                  !.leaders = [t \in Teams |-> IF t \in Open THEN team[t].leader ELSE Nobody]])
  /\ UNCHANGED <<set, team, member, made, owed>>

\* One student of the plan, which is carried out team by team; the last of a
\* team is followed by its leader. A row that is refused, as that of a student
\* invited to the team is, ends the call.
AssignCreate(c) ==
  LET t == Min({s \in Teams : call[c].plan[s] # {}}) IN
  /\ Standing(c, "assign")
  /\ \E u \in call[c].plan[t] :
       IF Refused(t, u)
         THEN To(c, Rest) /\ UNCHANGED <<member, made, owed>>
         ELSE /\ Joins(c, t, u, "accepted")
              /\ LET next == [call[c] EXCEPT !.plan[t] = @ \ {u}, !.saw = @ \cup {made + 1}]
                 IN  To(c, IF next.plan[t] # {} THEN next ELSE SeeTo(next, t, "assign"))
  /\ UNCHANGED <<set, team, disorder>>

-----------------------------------------------------------------------------
\* syncLeadership looks whether the leader of its copy of the team is a member
\* of it now, ...
IsMember(t, u) == Rows(t, u) \cap Accepted # {}

See(c, leader) ==
  LET next == [call[c] EXCEPT !.leaders[call[c].sync] = leader]
  IN  IF leader # Nobody /\ ~IsMember(call[c].sync, leader) THEN [next EXCEPT !.at = "clear"]
      ELSE IF leader # Nobody \/ set.auto = "" THEN Onward(next)
      ELSE [next EXCEPT !.at = "fill"]

SyncCheck(c) ==
  /\ Standing(c, "check")
  /\ To(c, See(c, call[c].leaders[call[c].sync]))
  /\ UNCHANGED <<set, team, member, made, owed, disorder>>

\* syncLeadershipByID, with a new copy.
Reload(c) ==
  /\ Standing(c, "reload")
  /\ To(c, See(c, team[call[c].sync].leader))
  /\ UNCHANGED <<set, team, member, made, owed, disorder>>

Lead(t, u) == team' = [team EXCEPT ![t].leader = u]
SyncClear(c) ==
  LET next == [call[c] EXCEPT !.leaders[call[c].sync] = Nobody]
  IN
  /\ Standing(c, "clear")
  /\ Lead(call[c].sync, Nobody)
  /\ To(c, IF set.auto = "" THEN Onward(next) ELSE [next EXCEPT !.at = "fill"])
  /\ UNCHANGED <<set, member, made, owed, disorder>>

\* ... and with auto_leader gives a team without one the first or any member.
SyncFill(c) ==
  LET candidates == InTeam(call[c].sync) \cap Accepted
  IN
  /\ Standing(c, "fill")
  /\ IF candidates = {} THEN To(c, Onward(call[c]))
     ELSE \E m \in IF set.auto = "first" THEN {Min(candidates)} ELSE candidates :
            To(c, [call[c] EXCEPT !.at = "appoint", !.pick = member[m].student])
  /\ UNCHANGED <<set, team, member, made, owed, disorder>>

SyncAppoint(c) ==
  /\ Standing(c, "appoint")
  /\ Lead(call[c].sync, call[c].pick)
  /\ To(c, Onward([call[c] EXCEPT !.leaders[call[c].sync] = call[c].pick]))
  /\ UNCHANGED <<set, member, made, owed, disorder>>

-----------------------------------------------------------------------------
RemoveMemberOnly(c, m) ==
  /\ m \in DOMAIN member
  /\ member' = Without(m)
  /\ owed' = owed \ {member[m].student}
  /\ Act(c, Rest)
  /\ UNCHANGED <<set, team, made>>
RemoveMember(c, m) ==
  /\ m \in DOMAIN member
  /\ member' = Without(m)
  /\ owed' = owed \ {member[m].student}
  /\ Act(c, [Rest EXCEPT !.at = "reload", !.sync = member[m].team])
  /\ UNCHANGED <<set, team, made>>

\* UpdateMembership saves the whole row as read, with another state: a row
\* deleted meanwhile is inserted again.
UpdateMembershipFind(c, m) ==
  /\ m \in DOMAIN member
  /\ \E state \in {"accepted", "invited"} \ {member[m].state} :
       Act(c, [Rest EXCEPT !.at = "save", !.row = m, !.team = member[m].team,
                             !.student = member[m].student, !.state = state])
  /\ UNCHANGED <<set, team, member, made, owed>>

UpdateMembershipSave(c) ==
  LET m == call[c].row
      t == call[c].team
      u == call[c].student
      seen == [d \in Calls |-> [call[d] EXCEPT !.saw = @ \ {m}]]
  IN
  /\ Standing(c, "save")
  /\ IF Rows(t, u) \subseteq {m}
       THEN /\ member' = With(m, [team |-> t, student |-> u, state |-> call[c].state])
            /\ call' = [seen EXCEPT ![c].at = "reload", ![c].sync = t]
       ELSE To(c, Rest) /\ UNCHANGED member
  /\ UNCHANGED <<set, team, made, owed, disorder>>

\* UpdateGroup, with a new leader, who must be a member, or none: SetLeader
\* first; or without: the whole row is saved as it was read.
EditGroup(c, t) ==
  /\ Act(c, [Rest EXCEPT !.at = "store", !.team = t, !.student = team[t].leader,
                           !.deleted = team[t].deleted])
  /\ UNCHANGED <<set, team, member, made, owed>>

SetLeader(c, t, u) ==
  /\ u = Nobody \/ IsMember(t, u)
  /\ Act(c, [Rest EXCEPT !.at = "lead", !.team = t, !.student = u, !.deleted = team[t].deleted])
  /\ UNCHANGED <<set, team, member, made, owed>>

SetLeaderSave(c) ==
  /\ Standing(c, "lead")
  /\ Lead(call[c].team, call[c].student)
  /\ GoTo(c, "store")
  /\ UNCHANGED <<set, member, made, owed, disorder>>

\* The copy of the team takes a deletion back.
UpdateGroup(c) ==
  LET t == call[c].team
      back == IF team[t].deleted /\ ~call[c].deleted THEN InTeam(t) ELSE {}
  IN
  /\ Standing(c, "store")
  /\ team' = [team EXCEPT ![t] = [deleted |-> call[c].deleted, leader |-> call[c].student]]
  /\ call' = [[d \in Calls |-> [call[d] EXCEPT !.saw = @ \ back]] EXCEPT ![c] = Rest]
  /\ UNCHANGED <<set, member, made, owed, disorder>>

DeleteGroup(t) ==
  /\ ~team[t].deleted
  /\ disorder.acts < MaxActs
  /\ disorder' = [disorder EXCEPT !.acts = @ + 1]
  /\ team' = [team EXCEPT ![t].deleted = TRUE]
  /\ UNCHANGED <<set, member, made, call, owed>>

\* A statement fails or the server dies: the call ends where it stands, but for
\* the two lookups of other teams, whose failure counts as none found.
BreaksOff(c) ==
  /\ ~Resting(c)
  /\ disorder.acts < MaxActs
  /\ disorder' = [disorder EXCEPT !.acts = @ + 1, !.broken = TRUE]
  /\ owed' = owed \ {call[c].student}
  /\ \/ To(c, Rest)
     \/ call[c].at \in {"leaving", "seek"} /\ GoTo(c, "create")
  /\ UNCHANGED <<set, team, member, made>>

CallStep(c) ==
  \/ LeaveFind(c) \/ LeaveSeek(c) \/ LeaveDelete(c) \/ Create(c) \/ AssignCreate(c)
  \/ SyncCheck(c) \/ SyncClear(c) \/ SyncFill(c) \/ SyncAppoint(c) \/ Reload(c)
  \/ UpdateMembershipSave(c) \/ SetLeaderSave(c) \/ UpdateGroup(c)

TeamNext ==
  \/ \E c \in Calls :
       \/ \E t \in Teams, u \in Students, state \in {"accepted", "invited"} : AddMember(c, t, u, state)
       \/ AssignUnassigned(c)
       \/ \E m \in DOMAIN member : RemoveMember(c, m) \/ UpdateMembershipFind(c, m)
       \/ \E t \in Teams : EditGroup(c, t) \/ \E u \in StudentOrNobody : SetLeader(c, t, u)
       \/ CallStep(c)
       \/ BreaksOff(c)
  \/ \E t \in Teams : DeleteGroup(t)

TeamSpec == TeamInit /\ [][TeamNext]_teamVars

-----------------------------------------------------------------------------
Joined(c) == made' > made /\ call'[c] # call[c]
Joiner == member'[made']
\* The memberships a call cannot have missed.
Known(c) == call[c].saw \cap DOMAIN member

(***************************************************************************)
(* Nobody is added to a full team, but for calls that overlap: when a call *)
(* inserts a member, the memberships that were there before it began, with *)
(* those it made itself, leave room. Joins check the room one by one, an   *)
(* assignment once for the whole plan.                                     *)
(***************************************************************************)
RoomLeft ==
  \A c \in Calls :
    Joined(c) /\ set.limit > 0 => Cardinality(Known(c) \cap InTeam(Joiner.team)) < set.limit
RoomKept == [][RoomLeft]_teamVars

(***************************************************************************)
(* Nor does a join leave a student in two teams of the set, unless it      *)
(* allows that: when a join or an assignment inserts the membership, none  *)
(* in another team that it cannot have missed is left, however many there  *)
(* were. That is so unless a statement failed or the join's own lookups    *)
(* came upon another call that was moving the student. An invitation that  *)
(* is accepted is not a join: it makes a member without leaving any team.  *)
(***************************************************************************)
OthersLeft ==
  \A c \in Calls :
    Joined(c) /\ ~set.several /\ ~disorder.broken /\ ~call[c].lost =>
      \A m \in Known(c) \cap Of(Joiner.student) \cap Accepted : team[member[m].team].deleted
OneTeamKept == [][OthersLeft]_teamVars

(***************************************************************************)
(* Changing teams leaves no student behind: one who joined a team and whom *)
(* nobody took out has a membership, or is between two in a call that will *)
(* make one, also when several calls move the student at once.             *)
(***************************************************************************)
BetweenTeams(u) ==
  \E c \in Calls :
    /\ call[c].student = u
    /\ call[c].at \in {"leaving", "seek", "leave", "create"} \/ call[c].after = "leaving"
NobodyStranded == \A u \in owed : Of(u) # {} \/ BetweenTeams(u)

(***************************************************************************)
(* Between calls the leader of a team is a member of it, as long as calls  *)
(* have not overlapped and none has broken off: every way out of a team    *)
(* sees to its leader.                                                     *)
(***************************************************************************)
LeaderIsMember ==
  (\A c \in Calls : Resting(c)) /\ ~disorder.overlapped /\ ~disorder.broken
    => \A t \in Teams : team[t].leader # Nobody => IsMember(t, team[t].leader)

(***************************************************************************)
(* What an assignment plans is fair: no team that gets someone ends up     *)
(* larger than another with room by more than one, nor beyond the limit,   *)
(* nobody is placed twice, and nobody is left out while there is room.     *)
(***************************************************************************)
Fair(plan) ==
  LET size(t) == Cardinality(InTeam(t)) + Cardinality(plan[t])
      room(t) == set.limit = 0 \/ size(t) < set.limit
  IN
  /\ \A t \in Open : plan[t] # {} =>
       /\ set.limit = 0 \/ size(t) <= set.limit
       /\ \A o \in Open : room(o) => size(t) <= size(o) + 1
  /\ \A t, o \in Teams : t # o => plan[t] \cap plan[o] = {}
  /\ UNION {plan[t] : t \in Open} = Unassigned \/ \A t \in Open : ~room(t)
PlansAreFair == \A c \in Calls : Resting(c) /\ call'[c].at = "assign" => Fair(call'[c].plan)
PlacedEvenly == [][PlansAreFair]_teamVars
=============================================================================
