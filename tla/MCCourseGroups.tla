---------------------------- MODULE MCCourseGroups -----------------------------
(***************************************************************************)
(* Two services instructors and students use side by side, checked in one  *)
(* run: appointment groups and the groups of a group set. They share no    *)
(* row they write, so a behaviour is about one of them, chosen at the      *)
(* start, and the other stays as it is.                                    *)
(***************************************************************************)
EXTENDS AppointmentGroups, GroupMembers

CONSTANT MaxDone  \* bound on memberships made and acts, together

VARIABLE about

\* A group set of one team per student, with room for one in each, that gives
\* a team any of its members as its leader; one of one team per student and any
\* number in each, which an assignment has to even out; and one that allows
\* several teams.
OneEach == [several |-> FALSE, limit |-> 1, auto |-> "random"]
Unlimited == [several |-> FALSE, limit |-> 0, auto |-> ""]
SeveralTeams == [several |-> TRUE, limit |-> 0, auto |-> "first"]
ThreeSets == {OneEach, Unlimited, SeveralTeams}

\* In teams of one, two of them in play, either both students change teams at
\* once or there is an act meanwhile. In the other sets, with all the teams in
\* play, there is one thing less, but for one student who may, without an act,
\* come to be in several teams at once and join a third.
Spare(t) == ~team[t].deleted /\ \A c \in Calls : call[c].team # t /\ call[c].plan[t] = {}
OneStudent == \E u \in Students : \A c \in Calls : owed \cup {call[c].student} \subseteq {u, Nobody}
FewDone ==
  \/ set = OneEach /\ made + disorder.acts <= MaxDone /\ \A t \in Teams \ {1, 2} : Spare(t)
  \/ set # OneEach /\ made + disorder.acts < MaxDone
  \/ set # OneEach /\ disorder.acts = 0 /\ OneStudent

Init ==
  /\ ApptInit /\ TeamInit
  /\ \/ about = "appointments" /\ set = OneEach
     \/ about = "teams" /\ group = [state |-> "active", byGroup |-> FALSE, max |-> 1, limit |-> 1]
Next ==
  /\ \/ about = "appointments" /\ ApptNext /\ UNCHANGED teamVars
     \/ about = "teams" /\ TeamNext /\ FewDone' /\ UNCHANGED apptVars
  /\ UNCHANGED about
vars == <<apptVars, teamVars, about>>
Spec == Init /\ [][Next]_vars

\* Rows, and the copies of them that requests and calls hold, keep their types.
TypeOK == ApptTypeOK /\ TeamTypeOK

\* Ids are interchangeable; teams are not, as they are listed in order.
Symmetry ==
  Permutations(Requests \cup Calls) \cup Permutations(Participants \cup Students)
    \cup Permutations(Slots) \cup Permutations(Reservations)
===============================================================================
