----------------------------- MODULE MCGuardEvents -----------------------------
(***************************************************************************)
(* Transactions for GuardEvents: one guard action, one that failed, two    *)
(* actions in one transaction, and one called by another program.          *)
(***************************************************************************)
EXTENDS GuardEvents

Call(kind, position) == [kind |-> kind, position |-> position, direct |-> TRUE]

Left == [ok |-> TRUE, calls |-> <<Call("leave", "p")>>]
Reverted == [ok |-> FALSE, calls |-> <<Call("protect", "p")>>]
ProtectedThenGrown == [ok |-> TRUE, calls |-> <<Call("protect", "p"), Call("grow", "q")>>]
ThroughAnother == [ok |-> TRUE, calls |-> <<[Call("grow", "p") EXCEPT !.direct = FALSE]>>]

SomeOfEach == {Left, Reverted, ProtectedThenGrown, ThroughAnother}
==============================================================================
