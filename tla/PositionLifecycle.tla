--------------------------- MODULE PositionLifecycle ---------------------------
(***************************************************************************)
(* What a position promises its owner, with the amounts left out: the      *)
(* order of its states, when it may take on new debt, and when it may be   *)
(* said to be closed.  state is PositionState of state/position.rs with    *)
(* "None" for the account that does not exist; indebted says whether the   *)
(* lending market is owed anything; funded whether the position or its     *)
(* obligation holds any token.                                             *)
(***************************************************************************)
VARIABLES state, indebted, funded

lifecycle == <<state, indebted, funded>>

\* A position begins with a loan, either swapped at once or left for later.
Begin ==
    /\ state = "None"
    /\ state' \in {"AwaitingSwap", "Open"}
    /\ indebted' /\ funded'

\* While it is watched it may swap, borrow again, repay and be drained by the
\* market, and move between waiting for its swap and being open.
Run ==
    /\ state \in {"AwaitingSwap", "Open"}
    /\ state' \in {"AwaitingSwap", "Open"}
    /\ indebted' \in BOOLEAN /\ funded' \in BOOLEAN

\* Leave and rescue hand a position back that still owes; it stays handed back.
HandBack ==
    /\ state \in {"AwaitingSwap", "Open", "Closing"}
    /\ state' = "Closing"
    /\ indebted'
    /\ funded' \in BOOLEAN

\* A position that was handed back only pays its debt down and takes its stock
\* out; stock may still be added to protect it.
Settle ==
    /\ state = "Closing" /\ state' = "Closing"
    /\ indebted' => indebted
    /\ funded' \in BOOLEAN

\* It is closed once it owes nothing and holds nothing.
Finish ==
    /\ state # "None"
    /\ state' = "Closed"
    /\ ~indebted' /\ ~funded'

\* The account goes away only when nothing is left behind.
Delete ==
    /\ state # "None"
    /\ ~indebted /\ ~funded
    /\ state' = "None"
    /\ ~indebted' /\ ~funded'

LifecycleInit == state = "None" /\ ~indebted /\ ~funded

LifecycleNext == Begin \/ Run \/ HandBack \/ Settle \/ Finish \/ Delete

LifecycleSpec == LifecycleInit /\ [][LifecycleNext]_lifecycle
==============================================================================
