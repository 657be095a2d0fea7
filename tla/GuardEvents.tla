------------------------------ MODULE GuardEvents ------------------------------
(***************************************************************************)
(* The log of protect, grow and leave the web server keeps.  A catch-up    *)
(* takes the newest stored slot as its watermark, lists the newest         *)
(* signatures of the program and stores, newest first, the guard actions   *)
(* past the watermark.  The cron and every screen that polls start one of  *)
(* their own, so several run at once, on one table and one chain.          *)
(***************************************************************************)
EXTENDS Naturals, Sequences, SequencesExt, FiniteSetsExt

CONSTANTS
    \* The catch-ups that may be under way at once.
    Readers,
    \* The positions, and the transactions that may land: [ok, calls], calls being
    \* the program's instructions among them in order, each [kind, position,
    \* direct]; direct is FALSE when another program makes the call.
    Positions, Menu,
    \* How many signatures one listing returns.
    Page,
    \* Bounds of an instance: transactions on the chain, reads that go wrong.
    MaxTransactions, MaxFaults

GuardKinds == {"protect", "grow", "leave"}
Calls == [kind : GuardKinds \cup {"open"}, position : Positions, direct : BOOLEAN]
Transactions == [ok : BOOLEAN, calls : Seq(Calls) \ {<<>>}]

ASSUME GuardEventsAssumption ==
    /\ Page \in Nat \ {0} /\ MaxTransactions \in Nat /\ MaxFaults \in Nat
    /\ "none" \notin Positions /\ Menu \subseteq Transactions

VARIABLES
    chain,    \* the program's transactions in order, each with its slot
    rows,     \* the table: rows[i] is what is stored of chain[i], or NoRow
    reader,   \* per catch-up: where it stands, its watermark, what it has to read
    dropped,  \* transactions some catch-up had to read and gave up on, or did not list
    faults    \* reads that went wrong so far

vars == <<chain, rows, reader, dropped, faults>>

NoRow == [kind |-> "none", position |-> "none"]
Idle == [at |-> "idle", since |-> 0, todo |-> {}]

\* The account list each instruction of the program declares starts with these.
AccountsOf(call) ==
    CASE call.kind = "protect" -> <<"caller", "caller_usdc", "config", call.position>>
      [] call.kind = "grow"    -> <<"caller", "config", call.position, "destination_mint">>
      [] call.kind = "leave"   -> <<"caller", "config", call.position, "collateral_mint">>
      [] call.kind = "open"    -> <<"owner", "config", call.position, "collateral_mint">>

------------------------------------------------------------------------------
(* What a catch-up makes of a transaction.                                 *)

\* KINDS: the first of the three, in this order, that any log line names.
KindOf(tx) ==
    LET logged == {c.kind : c \in ToSet(tx.calls)}
    IN  CASE "protect" \in logged -> "protect"
          [] "protect" \notin logged /\ "grow" \in logged -> "grow"
          [] logged \cap {"protect", "grow"} = {} /\ "leave" \in logged -> "leave"
          [] OTHER -> "none"

\* Slip: protect's index taken for that of the others.
OneIndexForAll == [protect |-> 2, grow |-> 2, leave |-> 2]
\* POSITION_ACCOUNT_INDEX, counted from zero.
PositionAccountIndex == [protect |-> 3, grow |-> 2, leave |-> 2]

\* positionFromTheMessage: the first instruction of the message that names the
\* program, whatever it is.
PositionFromTheMessage(tx, kind) ==
    LET direct == {n \in DOMAIN tx.calls : tx.calls[n].direct}
    IN  IF direct = {} THEN "none"
        ELSE AccountsOf(tx.calls[Min(direct)])[PositionAccountIndex[kind] + 1]

RowFor(tx) ==
    IF KindOf(tx) = "none" \/ PositionFromTheMessage(tx, KindOf(tx)) = "none" THEN NoRow
    ELSE [kind |-> KindOf(tx), position |-> PositionFromTheMessage(tx, KindOf(tx))]

Stored == {i \in DOMAIN rows : rows[i] # NoRow}
NewestStoredSlot == Max({chain[i].slot : i \in Stored} \cup {0})

------------------------------------------------------------------------------
(* The chain.                                                              *)

\* A block lands whole: its transactions share a slot.
Block(txs) ==
    LET slot == IF chain = <<>> THEN 1 ELSE Last(chain).slot + 1
    IN  /\ Len(chain) + Len(txs) <= MaxTransactions
        /\ chain' = chain \o [n \in DOMAIN txs |-> [ok |-> txs[n].ok, calls |-> txs[n].calls,
                                                    slot |-> slot]]
        /\ rows' = rows \o [n \in DOMAIN txs |-> NoRow]
        /\ UNCHANGED <<reader, dropped, faults>>

------------------------------------------------------------------------------
(* catchUpOnGuardEvents.                                                   *)

\* Slip: the newest slot of the chain for that of the table.
NewestSlot == IF chain = <<>> THEN 0 ELSE Last(chain).slot
Watermark == NewestStoredSlot

\* The newest stored slot is read first, and kept.
ReadTheWatermark(r) ==
    /\ reader[r].at = "idle"
    /\ reader' = [reader EXCEPT ![r] = [at |-> "listing", since |-> Watermark,
                                        todo |-> {}]]
    /\ UNCHANGED <<chain, rows, dropped, faults>>

IsToBeRead(i, since) == chain[i].ok /\ chain[i].slot > since

\* getSignaturesForAddress, newest first.  What failed on the chain and what is
\* not past the watermark is skipped, which needs nothing but the listing.
ListTheSignatures(r) ==
    LET since == reader[r].since
        page  == {i \in DOMAIN chain : i + Page > Len(chain)}
    IN  /\ reader[r].at = "listing"
        /\ reader' = [reader EXCEPT ![r].at = "reading",
                                    ![r].todo = {i \in page : IsToBeRead(i, since)}]
        /\ dropped' = dropped \cup {i \in (DOMAIN chain) \ page : chain[i].slot > since}
        /\ UNCHANGED <<chain, rows, faults>>

TheNext(r) == Max(reader[r].todo)
\* Slip: a transaction that makes no row ends the catch-up.
UnlessItMadeNone(r) ==
    IF RowFor(chain[TheNext(r)]) = NoRow THEN {} ELSE reader[r].todo \ {TheNext(r)}
AllButTheNext(r) == reader[r].todo \ {TheNext(r)}

\* One transaction read, made a row of and inserted unless the signature is
\* there; what it makes a row of never changes, so the awaits in between show
\* nothing new.
StoreTheNext(r) ==
    LET i == TheNext(r)
    IN  /\ reader[r].at = "reading" /\ reader[r].todo # {}
        /\ rows' = [rows EXCEPT ![i] = IF @ = NoRow THEN RowFor(chain[i]) ELSE @]
        /\ reader' = [reader EXCEPT ![r].todo = AllButTheNext(r)]
        /\ UNCHANGED <<chain, dropped, faults>>

\* getTransaction answers null, or its logs are cut short: no kind, and on to
\* the next.
FindNothing(r) ==
    /\ reader[r].at = "reading" /\ reader[r].todo # {}
    /\ faults < MaxFaults /\ faults' = faults + 1
    /\ dropped' = dropped \cup {TheNext(r)}
    /\ reader' = [reader EXCEPT ![r].todo = @ \ {TheNext(r)}]
    /\ UNCHANGED <<chain, rows>>

\* A read or the insert throws, or the process goes: the catch-up ends where it is.
BreakOff(r) ==
    /\ reader[r].at \in {"listing", "reading"}
    /\ faults < MaxFaults /\ faults' = faults + 1
    /\ dropped' = dropped \cup reader[r].todo
    /\ reader' = [reader EXCEPT ![r] = Idle]
    /\ UNCHANGED <<chain, rows>>

Finish(r) ==
    /\ reader[r].at = "reading" /\ reader[r].todo = {}
    /\ reader' = [reader EXCEPT ![r] = Idle]
    /\ UNCHANGED <<chain, rows, dropped, faults>>

------------------------------------------------------------------------------
Init ==
    /\ chain = <<>> /\ rows = <<>> /\ dropped = {} /\ faults = 0
    /\ reader = [r \in Readers |-> Idle]

CatchUp(r) ==
    ReadTheWatermark(r) \/ ListTheSignatures(r) \/ StoreTheNext(r) \/ Finish(r)

Next ==
    \/ \E tx \in Menu : Block(<<tx>>)
    \/ \E first, second \in Menu : Block(<<first, second>>)
    \/ \E r \in Readers : CatchUp(r) \/ FindNothing(r) \/ BreakOff(r)

Spec == Init /\ [][Next]_vars

\* The cron comes round again and again, and a catch-up that has begun goes on.
FairSpec == Spec /\ \A r \in Readers : WF_vars(CatchUp(r))

------------------------------------------------------------------------------
(* Properties.                                                             *)

\* A guard action: it happened, in a transaction that called the program itself.
IsGuardAction(i) ==
    /\ chain[i].ok
    /\ \E c \in ToSet(chain[i].calls) : c.kind \in GuardKinds
    /\ \A c \in ToSet(chain[i].calls) : c.direct

TypeOK ==
    /\ \A i \in DOMAIN chain : chain[i].slot \in 1..MaxTransactions
    /\ DOMAIN rows = DOMAIN chain
    /\ dropped \subseteq DOMAIN chain /\ faults \in 0..MaxFaults
    /\ \A r \in Readers :
         /\ reader[r].at \in {"idle", "listing", "reading"} /\ reader[r].since \in Nat
         /\ reader[r].todo \subseteq {i \in DOMAIN chain : chain[i].ok}

\* A row says what its transaction did: the kind of a call that went through,
\* and, when that call came first, the position it acted on.  (The server's
\* table of account indexes against the program's account lists.)
RowsTellTheTruth ==
    \A i \in Stored :
        LET calls == chain[i].calls
        IN  /\ chain[i].ok /\ \E c \in ToSet(calls) : c.kind = rows[i].kind
            /\ (calls[1].direct /\ calls[1].kind = rows[i].kind)
                 => rows[i].position = calls[1].position

\* Whatever order catch-ups run in, a guard action below the newest stored one
\* is stored, or some catch-up still has it to read, or one that had it to read
\* was broken off, found nothing or was not listed it.  (The watermark is sound
\* but for those.)
NothingIsOvertakenUnread ==
    \A i \in DOMAIN chain :
        (IsGuardAction(i) /\ chain[i].slot <= NewestStoredSlot) =>
            \/ i \in Stored \cup dropped
            \/ \E r \in Readers : i \in reader[r].todo

\* For good: given up on, and below the watermark or off the page.
OutOfReach(i) ==
    i \in dropped /\ (chain[i].slot <= NewestStoredSlot \/ Len(chain) - i >= Page)

\* A guard action is stored in the end, given up on or not, unless one that is
\* newer was stored before it could be tried again, or it left the page.
EveryActionIsStoredOrOvertaken ==
    \A i \in 1..MaxTransactions :
        (i \in DOMAIN chain /\ IsGuardAction(i))
            ~> (i \in DOMAIN chain /\ (i \in Stored \/ OutOfReach(i)))
==============================================================================
