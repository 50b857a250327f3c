-------------------------------- MODULE Rewards --------------------------------
(***************************************************************************)
(* What the rules engine promises a learner, without events under way,     *)
(* locks or transactions: currency is awarded in one step, once for each   *)
(* event and rule, and stays; a badge is announced once at most for each   *)
(* time it came to be held.                                                *)
(***************************************************************************)
EXTENDS Naturals

CONSTANTS Currencies, Badges

VARIABLES
  ledger,   \* the awards of currency, each of a rule, for an event
  balance,  \* what the learner has of each currency
  held,     \* the badges the learner has
  times,    \* how often each badge came to be held
  told      \* how often each was announced

rewardVars == <<ledger, balance, held, times, told>>

Init ==
  /\ ledger = {} /\ held = {}
  /\ balance = [c \in Currencies |-> 0]
  /\ times = [b \in Badges |-> 0] /\ told = [b \in Badges |-> 0]

Award(t) ==
  /\ \A o \in ledger : o.event # t.event \/ o.rule # t.rule
  /\ t.code \in Currencies /\ t.delta > 0
  /\ ledger' = ledger \cup {t}
  /\ balance' = [balance EXCEPT ![t.code] = @ + t.delta]
  /\ UNCHANGED <<held, times, told>>

Give(b) ==
  /\ b \notin held
  /\ held' = held \cup {b}
  /\ times' = [times EXCEPT ![b] = @ + 1]
  /\ UNCHANGED <<ledger, balance, told>>

TakeBack(b) ==
  /\ b \in held
  /\ held' = held \ {b}
  /\ UNCHANGED <<ledger, balance, times, told>>

Announce(b) ==
  /\ told[b] < times[b]
  /\ told' = [told EXCEPT ![b] = @ + 1]
  /\ UNCHANGED <<ledger, balance, held, times>>

Next ==
  \/ \E t \in ledger' \ ledger : Award(t)
  \/ \E b \in Badges : Give(b) \/ TakeBack(b) \/ Announce(b)

Spec == Init /\ [][Next]_rewardVars
=============================================================================
