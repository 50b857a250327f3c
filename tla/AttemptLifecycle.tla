--------------------------- MODULE AttemptLifecycle ---------------------------
(***************************************************************************)
(* What the attempt engine promises a student about their attempts at one  *)
(* quiz, without requests, rows or clocks: attempts come one after the     *)
(* other, each is turned in once, at a time that never changes, and the    *)
(* rest of the system hears of each at most once, afterwards.              *)
(***************************************************************************)
EXTENDS Integers

CONSTANTS MaxRows, Nil

Ids == 1..MaxRows

VARIABLES
  open,    \* the attempts in progress
  finish,  \* finish[i]: when attempt i was turned in, Nil before
  calls    \* calls[i]: how often the completion callbacks of i were started

lifecycleVars == <<open, finish, calls>>

Known == open \cup {i \in Ids : finish[i] # Nil}

Init ==
  /\ open = {}
  /\ finish = [i \in Ids |-> Nil]
  /\ calls = [i \in Ids |-> 0]

\* A new attempt takes the next id, and only when none is in progress.
Begin(i) ==
  /\ open = {}
  /\ i \notin Known
  /\ \A j \in 1..(i - 1) : j \in Known
  /\ open' = {i}
  /\ UNCHANGED <<finish, calls>>

\* At whatever time the engine stamps it with.
TurnIn(i) ==
  /\ i \in open
  /\ open' = open \ {i}
  /\ finish'[i] # Nil
  /\ finish' = [finish EXCEPT ![i] = finish'[i]]
  /\ UNCHANGED calls

Report(i) ==
  /\ finish[i] # Nil
  /\ calls[i] = 0
  /\ calls' = [calls EXCEPT ![i] = 1]
  /\ UNCHANGED <<open, finish>>

Next == \E i \in Ids : Begin(i) \/ TurnIn(i) \/ Report(i)

Spec == Init /\ [][Next]_lifecycleVars
=============================================================================
