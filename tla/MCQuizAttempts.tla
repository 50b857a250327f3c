---------------------------- MODULE MCQuizAttempts ----------------------------
(***************************************************************************)
(* Values for the constants of QuizAttempts that a .cfg cannot write.      *)
(***************************************************************************)
EXTENDS QuizAttempts

CONSTANTS p1, p2

\* Moderation inputs: settings only, and the two ways to extend an attempt.
Input(attempts, time, unlocked, fromNow, fromEnd) ==
  [attempts |-> attempts, time |-> time, unlocked |-> unlocked,
   fromNow |-> fromNow, fromEnd |-> fromEnd]
OneMoreAttempt == Input(1, Nil, Nil, Nil, Nil)
Unlock == Input(Nil, Nil, TRUE, Nil, Nil)
FromNow == Input(Nil, Nil, Nil, 1, Nil)
FromEnd == Input(Nil, Nil, Nil, Nil, 1)

NoInputs == {}
FromEndOnly == {FromEnd}
SerialInputs == {OneMoreAttempt, Unlock, FromNow, FromEnd}

\* What each run's workers serve.
Everyone(ops) == [p \in Procs |-> ops]
ScoreOps == Everyone({"start", "answer", "read", "complete", "grade", "regrade", "editkey", "see"})
KeptOps == Everyone({"start", "answer", "complete", "grade", "regrade"})
PolicyOps == Everyone({"start", "complete", "autosubmit", "extend", "excuse", "period"})
StudentRaceOps == Everyone({"start", "complete", "autosubmit", "extend"})
StartRaceOps == Everyone({"start", "complete"})
AnswerRaceOps == Everyone({"start", "answer", "complete"})

\* Two roles: worker p1 serves one, every other worker the other.
Roles(first, others) == [p \in Procs |-> IF p = p1 THEN first ELSE others]
Student == {"start", "complete"}
ExcuseRaceOps == Roles({"excuse"}, Student \cup {"grade"})
LiveOps == Roles({"autosubmit"}, {"start", "complete", "extend"})
=============================================================================
