--------------------------- MODULE GuardEventsProofs ---------------------------
(***************************************************************************)
(* That the rows of GuardEvents tell the truth and that no guard action is *)
(* overtaken unread, for any number of catch-ups, any page and any         *)
(* transactions.  The argument is that a catch-up, which stores newest     *)
(* first, has every action between its watermark and what it stores next   *)
(* still to read, and that its watermark was stored when it began.         *)
(***************************************************************************)
EXTENDS GuardEvents, SequenceTheorems, WellFoundedInduction, TLAPS

Landed == [ok : BOOLEAN, calls : Seq(Calls) \ {<<>>}, slot : Nat]
Row == {RowFor(tx) : tx \in Landed} \cup {NoRow}
Reader == [at : {"idle", "listing", "reading"}, since : Nat, todo : SUBSET Nat]

\* The chain only grows, its slots in order and no more of them than transactions.
ChainInOrder ==
    /\ chain \in Seq(Landed) /\ Len(chain) <= MaxTransactions
    /\ \A i \in DOMAIN chain : chain[i].slot \in 1..i
    /\ \A i, j \in DOMAIN chain : i <= j => chain[i].slot <= chain[j].slot

\* Whoever stored it, a row is what its transaction makes, and that went through.
RowsAreMade ==
    /\ rows \in Seq(Row) /\ Len(rows) = Len(chain)
    /\ \A i \in DOMAIN rows : rows[i] # NoRow => rows[i] = RowFor(chain[i]) /\ chain[i].ok

\* Only a catch-up that reads has anything left, all of it on the chain, and the
\* watermark it took is still no newer than the newest row.
ReadersAreBehind ==
    /\ reader \in [Readers -> Reader]
    /\ dropped \subseteq DOMAIN chain /\ faults \in 0..MaxFaults
    /\ \A r \in Readers :
         /\ reader[r].todo \subseteq {i \in DOMAIN chain : chain[i].ok}
         /\ reader[r].at # "reading" => reader[r].todo = {}
         /\ reader[r].since > 0 => \E j \in Stored : reader[r].since <= chain[j].slot

\* A catch-up has everything past its watermark and below what it has still to
\* read, but for what is stored or was given up on.
NothingIsSkipped ==
    \A r \in Readers : \A i \in DOMAIN chain : \A j \in reader[r].todo :
        (IsGuardAction(i) /\ reader[r].since < chain[i].slot /\ chain[i].slot <= chain[j].slot)
            => i \in Stored \cup dropped \cup reader[r].todo

\* NothingIsOvertakenUnread without the greatest slot.
NothingIsPassed ==
    \A i \in DOMAIN chain : \A j \in Stored :
        (IsGuardAction(i) /\ chain[i].slot <= chain[j].slot) =>
            i \in Stored \cup dropped \cup UNION {reader[r].todo : r \in Readers}

EventsInv ==
    ChainInOrder /\ RowsAreMade /\ ReadersAreBehind /\ NothingIsSkipped /\ NothingIsPassed

------------------------------------------------------------------------------
(* Least and greatest numbers.                                             *)

\* A set of natural numbers has a least element.
LEMMA LeastOfNaturals ==
    ASSUME NEW T \in SUBSET Nat, T # {}
    PROVE  \E x \in T : \A y \in T : x <= y
<1>1. IsWellFoundedOn({ss \in Nat \X Nat : ss[1] < ss[2]}, Nat)
  BY NatLessThanWellFounded DEF OpToRel
<1>2. PICK x \in T : \A y \in T : ~ (<<y, x>> \in {ss \in Nat \X Nat : ss[1] < ss[2]})
  BY <1>1, WFMin
<1>3. ASSUME NEW y \in T PROVE x <= y
  <2>1. x \in Nat /\ y \in Nat
    OBVIOUS
  <2>2. <<y, x>> \in Nat \X Nat /\ <<y, x>>[1] = y /\ <<y, x>>[2] = x
    BY <2>1
  <2>3. ~(y < x)
    BY <1>2, <2>2
  <2>4. QED
    BY <2>1, <2>3
<1>4. QED
  BY <1>3

\* Min of a set of natural numbers is its least element.
LEMMA MinIsLeast ==
    ASSUME NEW T \in SUBSET Nat, T # {}
    PROVE  Min(T) \in T /\ \A y \in T : Min(T) <= y
BY LeastOfNaturals DEF Min

\* Max of a bounded set of natural numbers is its greatest element.
LEMMA MaxIsGreatest ==
    ASSUME NEW n \in Nat, NEW T \in SUBSET (0..n), T # {}
    PROVE  Max(T) \in T /\ \A y \in T : y <= Max(T)
<1> DEFINE D == {n - x : x \in T}
<1>1. D \subseteq Nat /\ D # {}
  <2>1. PICK x \in T : TRUE
    OBVIOUS
  <2>2. n - x \in D
    OBVIOUS
  <2>3. \A y \in T : n - y \in Nat
    OBVIOUS
  <2>4. QED
    BY <2>2, <2>3
<1>2. PICK d \in D : \A y \in D : d <= y
  <2> HIDE DEF D
  <2> QED BY <1>1, LeastOfNaturals
<1>3. PICK x \in T : d = n - x
  OBVIOUS
<1>4. ASSUME NEW y \in T PROVE x >= y
  <2>1. n - y \in D
    OBVIOUS
  <2>2. n - x <= n - y /\ x \in 0..n /\ y \in 0..n
    BY <1>2, <1>3, <2>1
  <2>3. QED
    BY <2>2
<1>5. QED
  BY <1>4 DEF Max

------------------------------------------------------------------------------
(* What is made of a transaction.                                          *)

\* The kind is that of a call of the transaction, or there is no guard action.
LEMMA TheKind ==
    ASSUME NEW tx \in Landed
    PROVE  LET made == {tx.calls[n].kind : n \in DOMAIN tx.calls} IN
           /\ KindOf(tx) = "none" => made \cap GuardKinds = {}
           /\ KindOf(tx) # "none" => KindOf(tx) \in made \cap GuardKinds
           /\ "protect" \in made => KindOf(tx) = "protect"
<1> DEFINE made == {tx.calls[n].kind : n \in DOMAIN tx.calls}
           logged == {c.kind : c \in ToSet(tx.calls)}
<1>1. logged = made
  BY DEF ToSet
<1>2. /\ "protect" \in logged => KindOf(tx) = "protect"
      /\ "protect" \notin logged /\ "grow" \in logged => KindOf(tx) = "grow"
      /\ "protect" \notin logged /\ "grow" \notin logged /\ "leave" \in logged
           => KindOf(tx) = "leave"
      /\ "protect" \notin logged /\ "grow" \notin logged /\ "leave" \notin logged
           => KindOf(tx) = "none"
  BY DEF KindOf
<1> HIDE DEF made, logged
<1>3. QED
  BY <1>1, <1>2 DEF made, GuardKinds

\* The position a row names is that of the first direct call, if the call is the
\* one the kind was taken from.
LEMMA TheAccounts ==
    ASSUME NEW call \in Calls, NEW kind \in GuardKinds
    PROVE  /\ kind = call.kind => AccountsOf(call)[PositionAccountIndex[kind] + 1] = call.position
           /\ (kind = "protect" \/ call.kind # "protect")
                => AccountsOf(call)[PositionAccountIndex[kind] + 1] # "none"
<1>1. /\ PositionAccountIndex["protect"] + 1 = 4
      /\ PositionAccountIndex["grow"] + 1 = 3 /\ PositionAccountIndex["leave"] + 1 = 3
  BY DEF PositionAccountIndex
<1>2. call.position # "none" /\ call.kind \in {"protect", "grow", "leave", "open"}
  BY GuardEventsAssumption DEF Calls, GuardKinds
<1>3. CASE call.kind = "protect"
  <2>1. AccountsOf(call) = <<"caller", "caller_usdc", "config", call.position>>
    BY <1>3 DEF AccountsOf
  <2>2. QED
    BY <1>1, <1>2, <1>3, <2>1
<1>4. CASE call.kind = "grow"
  <2>1. AccountsOf(call) = <<"caller", "config", call.position, "destination_mint">>
    BY <1>4 DEF AccountsOf
  <2>2. QED
    BY <1>1, <1>2, <1>4, <2>1 DEF GuardKinds
<1>5. CASE call.kind = "leave"
  <2>1. AccountsOf(call) = <<"caller", "config", call.position, "collateral_mint">>
    BY <1>5 DEF AccountsOf
  <2>2. QED
    BY <1>1, <1>2, <1>5, <2>1 DEF GuardKinds
<1>6. CASE call.kind = "open"
  <2>1. AccountsOf(call) = <<"owner", "config", call.position, "collateral_mint">>
    BY <1>6 DEF AccountsOf
  <2>2. QED
    BY <1>1, <1>2, <1>6, <2>1 DEF GuardKinds
<1>7. QED
  BY <1>2, <1>3, <1>4, <1>5, <1>6

\* Every guard action makes a row: it called the program itself, so the server
\* finds an instruction and, past protect or not, an account of it.
LEMMA ActionsMakeRows ==
    ASSUME ChainInOrder, NEW i \in DOMAIN chain, IsGuardAction(i)
    PROVE  RowFor(chain[i]) # NoRow
<1> DEFINE tx == chain[i]
           direct == {n \in DOMAIN tx.calls : tx.calls[n].direct}
<1>1. tx \in Landed
  BY DEF ChainInOrder
<1>2. tx.calls \in Seq(Calls) /\ tx.calls # <<>>
  BY <1>1 DEF Landed
<1>3. direct \in SUBSET Nat /\ 1 \in DOMAIN tx.calls
  <2> DEFINE calls == tx.calls
  <2>1. calls \in Seq(Calls) /\ calls # <<>>
    BY <1>2
  <2> HIDE DEF calls
  <2>2. DOMAIN calls \subseteq Nat /\ 1 \in DOMAIN calls
    BY <2>1
  <2>3. QED
    BY <2>2 DEF calls
<1>4. \A n \in DOMAIN tx.calls : tx.calls[n].direct
  BY DEF IsGuardAction, ToSet
<1>5. direct # {}
  BY <1>3, <1>4
<1>6. Min(direct) \in direct
  <2> HIDE DEF direct
  <2> QED BY <1>3, <1>5, MinIsLeast
<1> DEFINE first == tx.calls[Min(direct)]
<1>7. first \in Calls
  <2>1. Min(direct) \in DOMAIN tx.calls
    BY <1>6
  <2> HIDE DEF tx, direct
  <2>2. QED
    BY <1>2, <2>1
<1>8. \E n \in DOMAIN tx.calls : tx.calls[n].kind \in GuardKinds
  BY DEF IsGuardAction, ToSet
<1>9. /\ KindOf(tx) \in GuardKinds
      /\ KindOf(tx) = "protect" \/ first.kind # "protect"
  <2>1. first.kind \in {tx.calls[n].kind : n \in DOMAIN tx.calls}
    BY <1>6
  <2>2. QED
    BY <1>1, <1>8, <2>1, TheKind
<1>10. PositionFromTheMessage(tx, KindOf(tx))
         = AccountsOf(first)[PositionAccountIndex[KindOf(tx)] + 1]
  BY <1>5 DEF PositionFromTheMessage
<1> HIDE DEF first, direct, tx
<1>11. PositionFromTheMessage(tx, KindOf(tx)) # "none"
  BY <1>7, <1>9, <1>10, TheAccounts
<1>12. RowFor(tx) = [kind |-> KindOf(tx), position |-> PositionFromTheMessage(tx, KindOf(tx))]
  BY <1>9, <1>11 DEF RowFor, GuardKinds
<1>13. QED
  BY <1>11, <1>12 DEF NoRow, tx

\* What a row says of the transaction it was made of.
LEMMA RowsAreTrue ==
    ASSUME NEW tx \in Landed, RowFor(tx) # NoRow
    PROVE  /\ \E c \in ToSet(tx.calls) : c.kind = RowFor(tx).kind
           /\ (tx.calls[1].direct /\ tx.calls[1].kind = RowFor(tx).kind)
                => RowFor(tx).position = tx.calls[1].position
<1> DEFINE direct == {n \in DOMAIN tx.calls : tx.calls[n].direct}
           kind == KindOf(tx)
<1>1. /\ kind # "none" /\ PositionFromTheMessage(tx, kind) # "none"
      /\ RowFor(tx).kind = kind
      /\ RowFor(tx).position = PositionFromTheMessage(tx, kind)
  BY DEF RowFor
<1>2. tx.calls \in Seq(Calls) /\ 1 \in DOMAIN tx.calls /\ DOMAIN tx.calls \subseteq Nat \ {0}
  BY DEF Landed
<1>3. kind \in GuardKinds /\ \E n \in DOMAIN tx.calls : tx.calls[n].kind = kind
  BY <1>1, TheKind
<1>4. ASSUME tx.calls[1].direct, tx.calls[1].kind = kind
      PROVE  PositionFromTheMessage(tx, kind) = tx.calls[1].position
  <2>1. direct \in SUBSET Nat /\ 1 \in direct /\ \A n \in direct : 1 <= n
    BY <1>2, <1>4
  <2>2. Min(direct) = 1
    <3> HIDE DEF direct
    <3>1. Min(direct) \in direct /\ Min(direct) <= 1
      BY <2>1, MinIsLeast
    <3>2. Min(direct) \in Nat /\ 1 <= Min(direct)
      BY <2>1, <3>1
    <3>3. QED
      BY <3>1, <3>2
  <2>3. PositionFromTheMessage(tx, kind)
          = AccountsOf(tx.calls[1])[PositionAccountIndex[kind] + 1]
    BY <2>1, <2>2 DEF PositionFromTheMessage
  <2>4. QED
    BY <1>2, <1>3, <1>4, <2>3, TheAccounts
<1>5. QED
  BY <1>1, <1>3, <1>4 DEF ToSet

\* The watermark is the slot of a row, or zero, and no row is newer.
LEMMA TheNewestRow ==
    ASSUME ChainInOrder, RowsAreMade
    PROVE  /\ NewestStoredSlot \in Nat
           /\ \A i \in Stored : chain[i].slot <= NewestStoredSlot
           /\ NewestStoredSlot > 0 => \E i \in Stored : chain[i].slot = NewestStoredSlot
<1> DEFINE slots == {chain[i].slot : i \in Stored} \cup {0}
<1>1. Stored \subseteq DOMAIN chain /\ DOMAIN chain = 1..Len(chain) /\ Len(chain) \in Nat
  BY DEF Stored, RowsAreMade, ChainInOrder
<1>2. \A i \in Stored : chain[i].slot \in 0..Len(chain)
  BY <1>1 DEF ChainInOrder
<1>3. slots \in SUBSET (0..Len(chain)) /\ slots # {}
  BY <1>1, <1>2
<1>4. Max(slots) \in slots /\ \A y \in slots : y <= Max(slots)
  <2> HIDE DEF slots
  <2> QED BY <1>1, <1>3, MaxIsGreatest
<1>5. NewestStoredSlot = Max(slots)
  BY DEF NewestStoredSlot
<1> DEFINE newest == Max(slots)
<1>6. newest \in Nat
  BY <1>3, <1>4
<1>7. \A i \in Stored : chain[i].slot <= newest
  BY <1>4
<1>8. newest > 0 => \E i \in Stored : chain[i].slot = newest
  BY <1>4
<1>9. QED
  BY <1>5, <1>6, <1>7, <1>8

\* What a catch-up stores next is the newest of what it has to read.
LEMMA TheNextIsTheNewest ==
    ASSUME ChainInOrder, ReadersAreBehind, NEW r \in Readers, reader[r].todo # {}
    PROVE  /\ TheNext(r) \in reader[r].todo /\ TheNext(r) \in DOMAIN chain
           /\ chain[TheNext(r)].ok
           /\ \A i \in reader[r].todo : i <= TheNext(r)
<1>1. Len(chain) \in Nat /\ DOMAIN chain = 1..Len(chain)
  BY DEF ChainInOrder
<1>2. reader[r].todo \subseteq {i \in DOMAIN chain : chain[i].ok}
  BY DEF ReadersAreBehind
<1>3. reader[r].todo \in SUBSET (0..Len(chain))
  BY <1>1, <1>2
<1>4. QED
  BY <1>1, <1>2, <1>3, MaxIsGreatest DEF TheNext

------------------------------------------------------------------------------
(* The steps.                                                              *)

\* Where a step leaves the chain and the table as they were, rows and actions are
\* the same.
LEMMA SameChainSameRows ==
    ASSUME UNCHANGED <<chain, rows>>
    PROVE  /\ Stored' = Stored /\ \A i : IsGuardAction(i)' <=> IsGuardAction(i)
           /\ ChainInOrder => ChainInOrder'
           /\ RowsAreMade => RowsAreMade'
<1>1. chain' = chain /\ rows' = rows
  OBVIOUS
<1>2. Stored' = Stored /\ \A i : IsGuardAction(i)' <=> IsGuardAction(i)
  BY <1>1 DEF Stored, IsGuardAction
<1>3. ChainInOrder => ChainInOrder'
  BY <1>1 DEF ChainInOrder
<1>4. RowsAreMade => RowsAreMade'
  BY <1>1 DEF RowsAreMade
<1>5. QED
  BY <1>2, <1>3, <1>4

\* At the start nothing is on the chain.
LEMMA EventsInv_Init == Init => EventsInv
<1> SUFFICES ASSUME Init PROVE EventsInv
  OBVIOUS
<1>1. chain = <<>> /\ rows = <<>> /\ dropped = {} /\ faults = 0 /\ DOMAIN chain = {}
  BY DEF Init
<1>2. reader \in [Readers -> Reader] /\ \A r \in Readers : reader[r] = Idle
  BY DEF Init, Idle, Reader
<1>3. ChainInOrder
  BY <1>1, GuardEventsAssumption DEF ChainInOrder
<1>4. RowsAreMade /\ Stored = {}
  BY <1>1 DEF RowsAreMade, Stored
<1>5. ReadersAreBehind
  BY <1>1, <1>2, GuardEventsAssumption DEF ReadersAreBehind, Idle
<1>6. NothingIsSkipped /\ NothingIsPassed
  BY <1>1, <1>4 DEF NothingIsSkipped, NothingIsPassed
<1>7. QED
  BY <1>3, <1>4, <1>5, <1>6 DEF EventsInv

\* What a block does to the chain and the table: a slot past all others, no rows.
LEMMA BlocksExtend ==
    ASSUME EventsInv, NEW txs \in Seq(Menu), txs # <<>>, Block(txs)
    PROVE  /\ chain' \in Seq(Landed) /\ Len(chain') = Len(chain) + Len(txs)
           /\ Len(chain') <= MaxTransactions
           /\ rows' \in Seq(Row) /\ Len(rows') = Len(chain')
           /\ \A i \in DOMAIN chain : chain'[i] = chain[i] /\ rows'[i] = rows[i]
           /\ \A i \in DOMAIN chain' \ DOMAIN chain :
                /\ rows'[i] = NoRow /\ chain'[i].slot \in 1..i
                /\ \A j \in DOMAIN chain : chain[j].slot < chain'[i].slot
                /\ \A j \in DOMAIN chain' \ DOMAIN chain : chain'[j].slot = chain'[i].slot
<1> DEFINE slot == IF chain = <<>> THEN 1 ELSE Last(chain).slot + 1
           new == [n \in DOMAIN txs |-> [ok |-> txs[n].ok, calls |-> txs[n].calls, slot |-> slot]]
           blank == [n \in DOMAIN txs |-> NoRow]
<1>1. chain' = chain \o new /\ rows' = rows \o blank /\ Len(chain) + Len(txs) <= MaxTransactions
  BY DEF Block
<1>2. chain \in Seq(Landed) /\ Len(chain) \in Nat /\ DOMAIN chain = 1..Len(chain)
  BY DEF EventsInv, ChainInOrder
<1>3. slot \in Nat /\ slot \in 1..(Len(chain) + 1) /\ \A j \in DOMAIN chain : chain[j].slot < slot
  <2>1. CASE chain = <<>>
    BY <2>1
  <2>2. CASE chain # <<>>
    <3>1. Len(chain) \in DOMAIN chain
      BY <1>2, <2>2
    <3>2. chain[Len(chain)].slot \in 1..Len(chain)
      BY <3>1 DEF EventsInv, ChainInOrder
    <3>3. ASSUME NEW j \in DOMAIN chain
          PROVE  chain[j].slot <= chain[Len(chain)].slot /\ chain[j].slot \in Nat
      <4>1. j <= Len(chain)
        BY <1>2
      <4>2. QED
        BY <1>2, <3>1, <4>1 DEF EventsInv, ChainInOrder
    <3>4. slot = chain[Len(chain)].slot + 1
      BY <2>2 DEF Last
    <3> HIDE DEF slot
    <3>5. QED
      BY <3>2, <3>3, <3>4, <1>2
  <2>3. QED
    BY <2>1, <2>2
<1> HIDE DEF slot
<1>4. new \in Seq(Landed) /\ Len(new) = Len(txs) /\ Len(txs) \in Nat
  <2>1. DOMAIN txs = 1..Len(txs) /\ Len(txs) \in Nat
    OBVIOUS
  <2>2. ASSUME NEW n \in DOMAIN txs
        PROVE  [ok |-> txs[n].ok, calls |-> txs[n].calls, slot |-> slot] \in Landed
    <3>1. txs[n] \in Transactions
      BY GuardEventsAssumption
    <3>2. QED
      BY <1>3, <3>1 DEF Transactions, Landed
  <2>3. QED
    BY <2>1, <2>2, IsASeq
<1>5. \A n \in DOMAIN new : new[n].slot = slot
  OBVIOUS
<1>6. blank \in Seq(Row) /\ Len(blank) = Len(txs) /\ \A n \in DOMAIN blank : blank[n] = NoRow
  <2>1. DOMAIN txs = 1..Len(txs) /\ Len(txs) \in Nat
    OBVIOUS
  <2>2. NoRow \in Row
    BY DEF Row
  <2> HIDE DEF Row
  <2>3. QED
    BY <2>1, <2>2
<1>7. rows \in Seq(Row) /\ Len(rows) = Len(chain)
  BY DEF EventsInv, RowsAreMade
<1> HIDE DEF new, blank, Row, Landed
<1>8. /\ chain' \in Seq(Landed) /\ Len(chain') = Len(chain) + Len(txs)
      /\ rows' \in Seq(Row) /\ Len(rows') = Len(chain) + Len(txs)
  <2>1. chain \o new \in Seq(Landed) /\ Len(chain \o new) = Len(chain) + Len(new)
    BY <1>2, <1>4, ConcatProperties
  <2>2. rows \o blank \in Seq(Row) /\ Len(rows \o blank) = Len(rows) + Len(blank)
    BY <1>6, <1>7, ConcatProperties
  <2>3. QED
    BY <1>1, <1>4, <1>6, <1>7, <2>1, <2>2
<1>9. \A i \in DOMAIN chain : chain'[i] = chain[i] /\ rows'[i] = rows[i]
  <2> SUFFICES ASSUME NEW i \in DOMAIN chain
               PROVE  chain'[i] = chain[i] /\ rows'[i] = rows[i]
    OBVIOUS
  <2>1. i \in 1..Len(chain)
    BY <1>2
  <2>2. (chain \o new)[i] = chain[i]
    BY <1>2, <1>4, <2>1
  <2>3. (rows \o blank)[i] = rows[i]
    BY <1>4, <1>6, <1>7, <2>1
  <2>4. QED
    BY <1>1, <2>2, <2>3
<1>10. ASSUME NEW i \in DOMAIN chain' \ DOMAIN chain
       PROVE  rows'[i] = NoRow /\ chain'[i].slot = slot /\ i \in Nat /\ i > Len(chain)
  <2>1. i \in Nat /\ i > Len(chain) /\ i <= Len(chain) + Len(txs)
    BY <1>2, <1>4, <1>8
  <2>2. chain'[i] = new[i - Len(chain)] /\ rows'[i] = blank[i - Len(chain)]
    BY <1>1, <1>2, <1>4, <1>6, <1>7, <2>1
  <2>3. i - Len(chain) \in DOMAIN new /\ i - Len(chain) \in DOMAIN blank
    BY <1>2, <1>4, <1>6, <2>1
  <2>4. QED
    BY <1>5, <1>6, <2>1, <2>2, <2>3
<1>11. ASSUME NEW i \in DOMAIN chain' \ DOMAIN chain
       PROVE  /\ rows'[i] = NoRow /\ chain'[i].slot \in 1..i
              /\ \A j \in DOMAIN chain : chain[j].slot < chain'[i].slot
              /\ \A j \in DOMAIN chain' \ DOMAIN chain : chain'[j].slot = chain'[i].slot
  BY <1>2, <1>3, <1>10
<1>12. QED
  BY <1>1, <1>4, <1>8, <1>9, <1>11

\* A block keeps the invariant: what lands is past every row and every watermark,
\* and past all that is still to be read.
LEMMA BlocksKeepInv ==
    ASSUME EventsInv, NEW txs \in Seq(Menu), txs # <<>>, Block(txs)
    PROVE  EventsInv'
<1> DEFINE landed == DOMAIN chain' \ DOMAIN chain
<1>1. /\ chain' \in Seq(Landed) /\ Len(chain') <= MaxTransactions
      /\ rows' \in Seq(Row) /\ Len(rows') = Len(chain')
      /\ DOMAIN chain \subseteq DOMAIN chain'
      /\ DOMAIN chain = 1..Len(chain) /\ DOMAIN chain' = 1..Len(chain')
      /\ DOMAIN rows = DOMAIN chain /\ DOMAIN rows' = DOMAIN chain'
  <2>1. chain \in Seq(Landed) /\ rows \in Seq(Row) /\ Len(rows) = Len(chain)
    BY DEF EventsInv, ChainInOrder, RowsAreMade
  <2>2. /\ chain' \in Seq(Landed) /\ Len(chain') = Len(chain) + Len(txs)
        /\ Len(chain') <= MaxTransactions /\ rows' \in Seq(Row) /\ Len(rows') = Len(chain')
    BY BlocksExtend
  <2>3. Len(txs) \in Nat /\ Len(chain) \in Nat
    BY <2>1
  <2> HIDE DEF Landed, Row
  <2>4. QED
    BY <2>1, <2>2, <2>3
<1>2. \A i \in DOMAIN chain : chain'[i] = chain[i] /\ rows'[i] = rows[i]
  BY BlocksExtend
<1>3. \A i \in landed : /\ rows'[i] = NoRow /\ chain'[i].slot \in 1..i
                        /\ \A j \in DOMAIN chain : chain[j].slot < chain'[i].slot
                        /\ \A j \in landed : chain'[j].slot = chain'[i].slot
  BY BlocksExtend
<1>4. reader' = reader /\ dropped' = dropped /\ faults' = faults
  BY DEF Block
<1> HIDE DEF landed
<1>5. Stored' = Stored /\ Stored \subseteq DOMAIN chain
  <2>1. \A i \in DOMAIN chain' : rows'[i] # NoRow <=> i \in DOMAIN chain /\ rows[i] # NoRow
    BY <1>1, <1>2, <1>3 DEF landed
  <2>2. QED
    BY <1>1, <2>1 DEF Stored
<1>6. ASSUME NEW i \in DOMAIN chain
      PROVE  (chain'[i].slot = chain[i].slot) /\ (IsGuardAction(i)' <=> IsGuardAction(i))
  BY <1>2 DEF IsGuardAction
<1>7. ChainInOrder'
  <2>1. \A i \in DOMAIN chain' : chain'[i].slot \in 1..i
    BY <1>1, <1>2, <1>3 DEF EventsInv, ChainInOrder, landed
  <2>2. ASSUME NEW i \in DOMAIN chain', NEW j \in DOMAIN chain', i <= j
        PROVE  chain'[i].slot <= chain'[j].slot
    <3>1. CASE i \in DOMAIN chain /\ j \in DOMAIN chain
      BY <1>2, <2>2, <3>1 DEF EventsInv, ChainInOrder
    <3>2. CASE i \in landed /\ j \in landed
      BY <1>3, <2>1, <3>2
    <3>3. CASE i \in DOMAIN chain /\ j \in landed
      <4>1. chain[i].slot < chain'[j].slot /\ chain'[i] = chain[i]
        BY <1>2, <1>3, <3>3
      <4>2. chain'[i].slot \in Nat /\ chain'[j].slot \in Nat
        BY <1>1, <2>1
      <4>3. QED
        BY <4>1, <4>2
    <3>4. ~(i \in landed /\ j \in DOMAIN chain)
      BY <1>1, <2>2 DEF landed
    <3>5. QED
      BY <3>1, <3>2, <3>3, <3>4 DEF landed
  <2>3. QED
    BY <1>1, <2>1, <2>2 DEF ChainInOrder
<1>8. RowsAreMade'
  <2>1. ASSUME NEW i \in DOMAIN rows', rows'[i] # NoRow
        PROVE  rows'[i] = RowFor(chain'[i]) /\ chain'[i].ok
    <3>1. i \in DOMAIN chain /\ rows[i] # NoRow
      BY <1>1, <1>2, <1>3, <2>1 DEF landed
    <3>2. QED
      BY <1>1, <1>2, <3>1 DEF EventsInv, RowsAreMade
  <2>2. QED
    BY <1>1, <2>1 DEF RowsAreMade, RowFor, KindOf, PositionFromTheMessage
<1>9. ReadersAreBehind'
  <2>1. \A r \in Readers : reader[r].since > 0 => \E j \in Stored : reader[r].since <= chain'[j].slot
    BY <1>2, <1>5 DEF EventsInv, ReadersAreBehind
  <2>2. \A r \in Readers : reader[r].todo \subseteq {i \in DOMAIN chain' : chain'[i].ok}
    BY <1>1, <1>2 DEF EventsInv, ReadersAreBehind
  <2>3. dropped \subseteq DOMAIN chain'
    BY <1>1 DEF EventsInv, ReadersAreBehind
  <2>4. QED
    BY <1>4, <1>5, <2>1, <2>2, <2>3 DEF EventsInv, ReadersAreBehind
<1>10. ASSUME NEW i \in DOMAIN chain', NEW j \in DOMAIN chain, chain'[i].slot <= chain'[j].slot
       PROVE  i \in DOMAIN chain
  <2>1. SUFFICES ASSUME i \in landed PROVE FALSE
    BY DEF landed
  <2>2. chain[j].slot < chain'[i].slot /\ chain'[j] = chain[j]
    BY <1>2, <1>3, <2>1
  <2>3. chain[j].slot \in Nat /\ chain'[i].slot \in Nat
    BY <1>1, <1>3, <2>1 DEF EventsInv, ChainInOrder
  <2>4. QED
    BY <1>10, <2>2, <2>3
<1>11. NothingIsSkipped'
  <2>1. \A r \in Readers : reader[r].todo \subseteq DOMAIN chain
    BY DEF EventsInv, ReadersAreBehind
  <2>2. SUFFICES ASSUME NEW r \in Readers, NEW i \in DOMAIN chain', NEW j \in reader[r].todo,
                        IsGuardAction(i)', reader[r].since < chain'[i].slot,
                        chain'[i].slot <= chain'[j].slot
                 PROVE  i \in Stored \cup dropped \cup reader[r].todo
    BY <1>4, <1>5 DEF NothingIsSkipped
  <2>3. i \in DOMAIN chain /\ j \in DOMAIN chain
    BY <1>10, <2>1, <2>2
  <2>4. QED
    BY <1>6, <2>2, <2>3 DEF EventsInv, NothingIsSkipped
<1>12. NothingIsPassed'
  <2>1. SUFFICES ASSUME NEW i \in DOMAIN chain', NEW j \in Stored,
                        IsGuardAction(i)', chain'[i].slot <= chain'[j].slot
                 PROVE  i \in Stored \cup dropped \cup UNION {reader[r].todo : r \in Readers}
    BY <1>4, <1>5 DEF NothingIsPassed
  <2>2. i \in DOMAIN chain /\ j \in DOMAIN chain
    BY <1>5, <1>10, <2>1
  <2>3. QED
    BY <1>6, <2>1, <2>2 DEF EventsInv, NothingIsPassed
<1>13. QED
  BY <1>7, <1>8, <1>9, <1>11, <1>12 DEF EventsInv

\* A watermark read is no newer than the newest row, and nothing is to be read yet.
LEMMA ReadTheWatermarkKeepsInv ==
    ASSUME EventsInv, NEW r \in Readers, ReadTheWatermark(r)
    PROVE  EventsInv'
<1>1. /\ chain' = chain /\ rows' = rows /\ dropped' = dropped /\ faults' = faults
      /\ Stored' = Stored /\ \A i : IsGuardAction(i)' <=> IsGuardAction(i)
  BY SameChainSameRows DEF ReadTheWatermark
<1>2. reader \in [Readers -> Reader] /\ reader[r].todo = {} /\ reader[r].at = "idle"
  BY DEF ReadTheWatermark, EventsInv, ReadersAreBehind
<1>3. reader' = [reader EXCEPT ![r] = [at |-> "listing", since |-> NewestStoredSlot, todo |-> {}]]
  BY DEF ReadTheWatermark, Watermark
<1>4. /\ NewestStoredSlot \in Nat
      /\ NewestStoredSlot > 0 => \E j \in Stored : NewestStoredSlot <= chain[j].slot
  BY TheNewestRow DEF EventsInv
<1>5. /\ reader' \in [Readers -> Reader]
      /\ \A s \in Readers : reader'[s].todo = reader[s].todo
      /\ \A s \in Readers : s # r => reader'[s] = reader[s]
      /\ reader'[r].since = NewestStoredSlot /\ reader'[r].todo = {}
  BY <1>2, <1>3, <1>4 DEF Reader
<1>6. ChainInOrder' /\ RowsAreMade'
  BY SameChainSameRows DEF EventsInv, ReadTheWatermark
<1>7. ReadersAreBehind'
  BY <1>1, <1>4, <1>5 DEF EventsInv, ReadersAreBehind
<1>8. NothingIsSkipped'
  BY <1>1, <1>5 DEF EventsInv, NothingIsSkipped
<1>9. NothingIsPassed'
  BY <1>1, <1>5 DEF EventsInv, NothingIsPassed
<1>10. QED
  BY <1>6, <1>7, <1>8, <1>9 DEF EventsInv

\* A listing has everything past the watermark to read, or did not list it, but
\* for what failed on the chain.
LEMMA ListTheSignaturesKeepsInv ==
    ASSUME EventsInv, NEW r \in Readers, ListTheSignatures(r)
    PROVE  EventsInv'
<1> DEFINE since == reader[r].since
           page == {i \in DOMAIN chain : i + Page > Len(chain)}
           todo == {i \in page : chain[i].ok /\ chain[i].slot > since}
           unlisted == {i \in (DOMAIN chain) \ page : chain[i].slot > since}
<1>1. /\ chain' = chain /\ rows' = rows /\ faults' = faults
      /\ Stored' = Stored /\ \A i : IsGuardAction(i)' <=> IsGuardAction(i)
  BY SameChainSameRows DEF ListTheSignatures
<1>2. reader \in [Readers -> Reader] /\ reader[r].todo = {}
  BY DEF ListTheSignatures, EventsInv, ReadersAreBehind
<1>3. /\ reader' = [reader EXCEPT ![r].at = "reading", ![r].todo = todo]
      /\ dropped' = dropped \cup unlisted
  BY DEF ListTheSignatures, IsToBeRead
<1>4. todo \subseteq {i \in DOMAIN chain : chain[i].ok} /\ unlisted \subseteq DOMAIN chain
      /\ todo \subseteq Nat /\ DOMAIN chain \subseteq Nat
  BY DEF EventsInv, ChainInOrder
<1>5. \A i \in DOMAIN chain : IsGuardAction(i) /\ since < chain[i].slot => i \in todo \cup unlisted
  BY <1>4 DEF IsGuardAction, EventsInv, ChainInOrder
<1> HIDE DEF todo, unlisted, page
<1>6. /\ reader' \in [Readers -> Reader]
      /\ \A s \in Readers : s # r => reader'[s] = reader[s]
      /\ reader'[r].since = since /\ reader'[r].todo = todo /\ reader'[r].at = "reading"
  BY <1>2, <1>3, <1>4 DEF Reader
<1>7. ChainInOrder' /\ RowsAreMade'
  BY SameChainSameRows DEF EventsInv, ListTheSignatures
<1>8. ReadersAreBehind'
  <2>1. dropped' \subseteq DOMAIN chain
    BY <1>3, <1>4 DEF EventsInv, ReadersAreBehind
  <2>2. QED
    BY <1>1, <1>4, <1>6, <2>1 DEF EventsInv, ReadersAreBehind
<1>9. NothingIsSkipped'
  BY <1>1, <1>3, <1>5, <1>6 DEF EventsInv, NothingIsSkipped
<1>10. NothingIsPassed'
  <2>1. UNION {reader[s].todo : s \in Readers} \subseteq UNION {reader'[s].todo : s \in Readers}
    BY <1>2, <1>6
  <2>2. QED
    BY <1>1, <1>3, <2>1 DEF EventsInv, NothingIsPassed
<1>11. QED
  BY <1>7, <1>8, <1>9, <1>10 DEF EventsInv

\* What a step that leaves the chain and the table alone may do to one reader: to
\* take from what it has to read only what is given up on, or is stored.
LEMMA TakingFromOneKeepsInv ==
    ASSUME EventsInv, UNCHANGED <<chain, rows>>, NEW r \in Readers,
           reader' \in [Readers -> Reader], faults' \in 0..MaxFaults,
           \A s \in Readers : s # r => reader'[s] = reader[s],
           dropped \subseteq dropped', dropped' \subseteq DOMAIN chain,
           reader'[r].todo \subseteq reader[r].todo,
           reader[r].todo \subseteq reader'[r].todo \cup dropped',
           reader'[r].at # "reading" => reader'[r].todo = {},
           reader'[r].since \in {reader[r].since, 0},
           reader'[r].since = reader[r].since \/ reader'[r].todo = {}
    PROVE  EventsInv'
<1>1. /\ chain' = chain /\ rows' = rows
      /\ Stored' = Stored /\ \A i : IsGuardAction(i)' <=> IsGuardAction(i)
  BY SameChainSameRows
<1>2. ChainInOrder' /\ RowsAreMade'
  BY SameChainSameRows DEF EventsInv
<1>3. ReadersAreBehind'
  <2>1. ASSUME NEW s \in Readers
        PROVE  /\ reader'[s].todo \subseteq {i \in DOMAIN chain : chain[i].ok}
               /\ reader'[s].at # "reading" => reader'[s].todo = {}
               /\ reader'[s].since > 0 => \E j \in Stored : reader'[s].since <= chain[j].slot
    BY DEF EventsInv, ReadersAreBehind
  <2>2. QED
    BY <1>1, <2>1 DEF ReadersAreBehind
<1>4. NothingIsSkipped'
  BY <1>1 DEF EventsInv, NothingIsSkipped
<1>5. NothingIsPassed'
  <2>1. UNION {reader[s].todo : s \in Readers}
          \subseteq (UNION {reader'[s].todo : s \in Readers}) \cup dropped'
    <3>1. \A s \in Readers : reader[s].todo \subseteq reader'[s].todo \cup dropped'
      OBVIOUS
    <3>2. ASSUME NEW s \in Readers, NEW x \in reader[s].todo
          PROVE  x \in (UNION {reader'[q].todo : q \in Readers}) \cup dropped'
      <4>1. x \in reader'[s].todo \/ x \in dropped'
        BY <3>1
      <4>2. reader'[s].todo \in {reader'[q].todo : q \in Readers}
        OBVIOUS
      <4>3. QED
        BY <4>1, <4>2
    <3>3. QED
      BY <3>2
  <2>2. QED
    BY <1>1, <2>1 DEF EventsInv, NothingIsPassed
<1>6. QED
  BY <1>2, <1>3, <1>4, <1>5 DEF EventsInv

\* Finding nothing, breaking off and finishing take from one reader.
LEMMA FindNothingKeepsInv ==
    ASSUME EventsInv, NEW r \in Readers, FindNothing(r)
    PROVE  EventsInv'
<1> DEFINE i == TheNext(r)
<1>1. /\ UNCHANGED <<chain, rows>> /\ faults < MaxFaults /\ faults' = faults + 1
      /\ dropped' = dropped \cup {i} /\ reader[r].at = "reading"
      /\ reader' = [reader EXCEPT ![r].todo = @ \ {i}]
  BY DEF FindNothing
<1>2. i \in DOMAIN chain
  BY TheNextIsTheNewest DEF EventsInv, FindNothing
<1>3. reader \in [Readers -> Reader] /\ faults \in 0..MaxFaults /\ dropped \subseteq DOMAIN chain
  BY DEF EventsInv, ReadersAreBehind
<1> HIDE DEF i
<1>4. /\ reader' \in [Readers -> Reader] /\ \A s \in Readers : s # r => reader'[s] = reader[s]
      /\ reader'[r].todo = reader[r].todo \ {i} /\ reader'[r].since = reader[r].since
      /\ reader'[r].at = "reading"
  BY <1>1, <1>3 DEF Reader
<1>5. faults' \in 0..MaxFaults
  BY <1>1, <1>3, GuardEventsAssumption
<1>6. QED
  BY <1>1, <1>2, <1>3, <1>4, <1>5, TakingFromOneKeepsInv

LEMMA BreakOffKeepsInv ==
    ASSUME EventsInv, NEW r \in Readers, BreakOff(r)
    PROVE  EventsInv'
<1>1. /\ UNCHANGED <<chain, rows>> /\ faults < MaxFaults /\ faults' = faults + 1
      /\ dropped' = dropped \cup reader[r].todo
      /\ reader' = [reader EXCEPT ![r] = Idle]
  BY DEF BreakOff
<1>2. /\ reader \in [Readers -> Reader] /\ faults \in 0..MaxFaults /\ dropped \subseteq DOMAIN chain
      /\ reader[r].todo \subseteq DOMAIN chain
  BY DEF EventsInv, ReadersAreBehind
<1>3. /\ reader' \in [Readers -> Reader] /\ \A s \in Readers : s # r => reader'[s] = reader[s]
      /\ reader'[r].todo = {} /\ reader'[r].since = 0
  BY <1>1, <1>2 DEF Reader, Idle
<1>4. faults' \in 0..MaxFaults
  BY <1>1, <1>2, GuardEventsAssumption
<1>5. QED
  BY <1>1, <1>2, <1>3, <1>4, TakingFromOneKeepsInv

LEMMA FinishKeepsInv ==
    ASSUME EventsInv, NEW r \in Readers, Finish(r)
    PROVE  EventsInv'
<1>1. /\ UNCHANGED <<chain, rows>> /\ faults' = faults /\ dropped' = dropped
      /\ reader' = [reader EXCEPT ![r] = Idle] /\ reader[r].todo = {}
  BY DEF Finish
<1>2. reader \in [Readers -> Reader] /\ faults \in 0..MaxFaults /\ dropped \subseteq DOMAIN chain
  BY DEF EventsInv, ReadersAreBehind
<1>3. /\ reader' \in [Readers -> Reader] /\ \A s \in Readers : s # r => reader'[s] = reader[s]
      /\ reader'[r].todo = {} /\ reader'[r].since = 0
  BY <1>1, <1>2 DEF Reader, Idle
<1>4. QED
  BY <1>1, <1>2, <1>3, TakingFromOneKeepsInv

\* Storing the newest to be read passes nothing: what is older and past the
\* watermark is still to be read, and what is not past it was passed before.
LEMMA StoreTheNextKeepsInv ==
    ASSUME EventsInv, NEW r \in Readers, StoreTheNext(r)
    PROVE  EventsInv'
<1> DEFINE n == TheNext(r)
           made == RowFor(chain[n])
<1>1. /\ chain' = chain /\ dropped' = dropped /\ faults' = faults
      /\ rows' = [rows EXCEPT ![n] = IF @ = NoRow THEN made ELSE @]
      /\ reader' = [reader EXCEPT ![r].todo = reader[r].todo \ {n}]
      /\ reader[r].at = "reading"
  BY DEF StoreTheNext, AllButTheNext
<1>2. /\ n \in reader[r].todo /\ n \in DOMAIN chain /\ chain[n].ok
      /\ \A i \in reader[r].todo : i <= n
  BY TheNextIsTheNewest DEF EventsInv, StoreTheNext
<1>3. /\ reader \in [Readers -> Reader]
      /\ rows \in Seq(Row) /\ DOMAIN rows = DOMAIN chain /\ Len(rows) = Len(chain)
      /\ DOMAIN chain = 1..Len(chain) /\ Len(chain) \in Nat
      /\ chain[n] \in Landed
  BY <1>2 DEF EventsInv, ReadersAreBehind, RowsAreMade, ChainInOrder
<1>4. made \in Row
  BY <1>3 DEF Row
<1> HIDE DEF n, made
<1>5. /\ reader' \in [Readers -> Reader] /\ \A s \in Readers : s # r => reader'[s] = reader[s]
      /\ reader'[r].todo = reader[r].todo \ {n} /\ reader'[r].since = reader[r].since
      /\ reader'[r].at = "reading"
  BY <1>1, <1>3 DEF Reader
<1>6. /\ rows' \in Seq(Row) /\ Len(rows') = Len(chain) /\ DOMAIN rows' = DOMAIN chain
      /\ \A i \in DOMAIN chain : i # n => rows'[i] = rows[i]
      /\ rows'[n] = IF rows[n] = NoRow THEN made ELSE rows[n]
  <2> HIDE DEF Row
  <2>1. (IF rows[n] = NoRow THEN made ELSE rows[n]) \in Row
    BY <1>2, <1>3, <1>4
  <2>2. QED
    BY <1>1, <1>2, <1>3, <2>1
<1>7. /\ Stored \subseteq Stored' /\ Stored' \subseteq Stored \cup {n}
      /\ made # NoRow => n \in Stored'
  BY <1>2, <1>3, <1>6 DEF Stored
<1>8. \A i : IsGuardAction(i)' <=> IsGuardAction(i)
  BY <1>1 DEF IsGuardAction
<1>9. IsGuardAction(n) => n \in Stored'
  BY <1>2, <1>7, ActionsMakeRows DEF EventsInv, made
<1>10. ChainInOrder'
  BY <1>1 DEF EventsInv, ChainInOrder
<1>11. RowsAreMade'
  BY <1>1, <1>2, <1>3, <1>6 DEF EventsInv, RowsAreMade, made
<1>12. ReadersAreBehind'
  <2>1. ASSUME NEW s \in Readers
        PROVE  /\ reader'[s].todo \subseteq {i \in DOMAIN chain : chain[i].ok}
               /\ reader'[s].at # "reading" => reader'[s].todo = {}
               /\ reader'[s].since > 0 => \E j \in Stored' : reader'[s].since <= chain[j].slot
    BY <1>5, <1>7 DEF EventsInv, ReadersAreBehind
  <2>2. QED
    BY <1>1, <1>5, <2>1 DEF EventsInv, ReadersAreBehind
<1>13. NothingIsSkipped'
  <2>1. SUFFICES ASSUME NEW s \in Readers, NEW i \in DOMAIN chain, NEW j \in reader'[s].todo,
                        IsGuardAction(i), reader'[s].since < chain[i].slot,
                        chain[i].slot <= chain[j].slot
                 PROVE  i \in Stored' \cup dropped \cup reader'[s].todo
    BY <1>1, <1>8 DEF NothingIsSkipped
  <2>2. j \in reader[s].todo /\ reader[s].since < chain[i].slot
    BY <1>5, <2>1
  <2>3. i \in Stored \cup dropped \cup reader[s].todo
    BY <2>1, <2>2 DEF EventsInv, NothingIsSkipped
  <2>4. QED
    BY <1>5, <1>7, <1>9, <2>1, <2>3
<1>14. ASSUME NEW i \in DOMAIN chain, IsGuardAction(i), chain[i].slot <= chain[n].slot
       PROVE  i \in Stored' \cup dropped \cup UNION {reader[s].todo : s \in Readers}
  <2>1. CASE reader[r].since < chain[i].slot
    <3>1. i \in Stored \cup dropped \cup reader[r].todo
      BY <1>2, <1>14, <2>1 DEF EventsInv, NothingIsSkipped
    <3>2. QED
      BY <1>7, <3>1
  <2>2. CASE ~(reader[r].since < chain[i].slot)
    <3>1. chain[i].slot \in Nat /\ chain[i].slot > 0 /\ reader[r].since \in Nat
      BY <1>3 DEF EventsInv, ChainInOrder, Reader
    <3>2. PICK j \in Stored : reader[r].since <= chain[j].slot
      BY <2>2, <3>1 DEF EventsInv, ReadersAreBehind
    <3>3. j \in DOMAIN chain /\ chain[j].slot \in Nat
      BY <1>3 DEF Stored, EventsInv, ChainInOrder
    <3>4. chain[i].slot <= chain[j].slot
      BY <2>2, <3>1, <3>2, <3>3
    <3>5. QED
      BY <1>7, <1>14, <3>4 DEF EventsInv, NothingIsPassed
  <2>3. QED
    BY <2>1, <2>2
<1>15. ASSUME NEW i \in DOMAIN chain, IsGuardAction(i),
              i \in Stored' \cup dropped \cup UNION {reader[s].todo : s \in Readers}
       PROVE  i \in Stored' \cup dropped \cup UNION {reader'[s].todo : s \in Readers}
  <2>1. CASE i = n
    BY <1>9, <1>15, <2>1
  <2>2. CASE i # n
    <3>1. \A s \in Readers : i \in reader[s].todo => i \in reader'[s].todo
      BY <1>5, <2>2
    <3>2. QED
      BY <1>15, <3>1
  <2>3. QED
    BY <2>1, <2>2
<1>16. NothingIsPassed'
  <2>1. SUFFICES ASSUME NEW i \in DOMAIN chain, NEW j \in Stored',
                        IsGuardAction(i), chain[i].slot <= chain[j].slot
                 PROVE  i \in Stored' \cup dropped \cup UNION {reader'[s].todo : s \in Readers}
    BY <1>1, <1>8 DEF NothingIsPassed
  <2>2. CASE j = n
    BY <1>14, <1>15, <2>1, <2>2
  <2>3. CASE j # n
    <3>1. j \in Stored
      BY <1>7, <2>3
    <3>2. i \in Stored' \cup dropped \cup UNION {reader[s].todo : s \in Readers}
      BY <1>7, <2>1, <3>1 DEF EventsInv, NothingIsPassed
    <3>3. QED
      BY <1>15, <2>1, <3>2
  <2>4. QED
    BY <2>2, <2>3
<1>17. QED
  BY <1>10, <1>11, <1>12, <1>13, <1>16 DEF EventsInv

LEMMA EventsInv_Next == EventsInv /\ [Next]_vars => EventsInv'
<1> SUFFICES ASSUME EventsInv, [Next]_vars PROVE EventsInv'
  OBVIOUS
<1>1. ASSUME NEW tx \in Menu, Block(<<tx>>) PROVE EventsInv'
  <2>1. <<tx>> \in Seq(Menu) /\ <<tx>> # <<>>
    OBVIOUS
  <2>2. QED
    BY <1>1, <2>1, BlocksKeepInv
<1>2. ASSUME NEW first \in Menu, NEW second \in Menu, Block(<<first, second>>) PROVE EventsInv'
  <2>1. <<first, second>> \in Seq(Menu) /\ <<first, second>> # <<>>
    OBVIOUS
  <2>2. QED
    BY <1>2, <2>1, BlocksKeepInv
<1>3. ASSUME NEW r \in Readers, CatchUp(r) \/ FindNothing(r) \/ BreakOff(r) PROVE EventsInv'
  BY <1>3, ReadTheWatermarkKeepsInv, ListTheSignaturesKeepsInv, StoreTheNextKeepsInv,
     FinishKeepsInv, FindNothingKeepsInv, BreakOffKeepsInv DEF CatchUp
<1>4. CASE UNCHANGED vars
  <2>1. /\ UNCHANGED <<chain, rows>> /\ reader' = reader /\ dropped' = dropped /\ faults' = faults
    BY <1>4 DEF vars
  <2>2. Stored' = Stored /\ (\A i : IsGuardAction(i)' <=> IsGuardAction(i))
        /\ ChainInOrder' /\ RowsAreMade'
    BY <2>1, SameChainSameRows DEF EventsInv
  <2>3. ReadersAreBehind'
    BY <2>1, <2>2 DEF EventsInv, ReadersAreBehind
  <2>4. NothingIsSkipped' /\ NothingIsPassed'
    BY <2>1, <2>2 DEF EventsInv, NothingIsSkipped, NothingIsPassed
  <2>5. QED
    BY <2>2, <2>3, <2>4 DEF EventsInv
<1>5. QED
  BY <1>1, <1>2, <1>3, <1>4 DEF Next

LEMMA EventsInv_Always == Spec => []EventsInv
BY EventsInv_Init, EventsInv_Next, PTL DEF Spec

------------------------------------------------------------------------------
(* What a run checks of a few catch-ups, for any number of them.           *)

\* Catch-ups and table are what they should be.
THEOREM EventTypes == Spec => []TypeOK
<1>1. EventsInv => TypeOK
  <2>1. SUFFICES ASSUME EventsInv PROVE TypeOK
    OBVIOUS
  <2>2. /\ DOMAIN chain = 1..Len(chain) /\ Len(chain) \in Nat /\ Len(chain) <= MaxTransactions
        /\ rows \in Seq(Row) /\ Len(rows) = Len(chain)
    BY <2>1 DEF EventsInv, ChainInOrder, RowsAreMade
  <2>3. \A i \in DOMAIN chain : chain[i].slot \in 1..MaxTransactions
    <3>1. ASSUME NEW i \in DOMAIN chain PROVE chain[i].slot \in 1..MaxTransactions
      <4>1. chain[i].slot \in 1..i /\ i \in 1..Len(chain)
        BY <2>1, <2>2 DEF EventsInv, ChainInOrder
      <4>2. QED
        BY <2>2, <4>1, GuardEventsAssumption
    <3>2. QED
      BY <3>1
  <2>4. \A r \in Readers :
           /\ reader[r].at \in {"idle", "listing", "reading"} /\ reader[r].since \in Nat
           /\ reader[r].todo \subseteq {i \in DOMAIN chain : chain[i].ok}
    BY <2>1 DEF EventsInv, ReadersAreBehind, Reader
  <2>5. DOMAIN rows = DOMAIN chain
    BY <2>2
  <2>6. QED
    BY <2>1, <2>3, <2>4, <2>5 DEF TypeOK, EventsInv, ReadersAreBehind
<1>2. QED
  BY <1>1, EventsInv_Always, PTL

\* No row tells of what did not happen, or of another position than the call's,
\* whatever the transactions are.
THEOREM RowsAreHonest == Spec => []RowsTellTheTruth
<1>1. EventsInv => RowsTellTheTruth
  <2>1. SUFFICES ASSUME EventsInv, NEW i \in Stored
                 PROVE  LET calls == chain[i].calls
                        IN  /\ chain[i].ok /\ \E c \in ToSet(calls) : c.kind = rows[i].kind
                            /\ (calls[1].direct /\ calls[1].kind = rows[i].kind)
                                 => rows[i].position = calls[1].position
    BY DEF RowsTellTheTruth
  <2>2. i \in DOMAIN chain /\ i \in DOMAIN rows /\ rows[i] # NoRow
    BY <2>1 DEF Stored, EventsInv, RowsAreMade, ChainInOrder
  <2>3. rows[i] = RowFor(chain[i]) /\ chain[i].ok /\ chain[i] \in Landed
    BY <2>1, <2>2 DEF EventsInv, RowsAreMade, ChainInOrder
  <2>4. QED
    BY <2>2, <2>3, RowsAreTrue
<1>2. QED
  BY <1>1, EventsInv_Always, PTL

\* However many catch-ups run, and however their reads and inserts fall together,
\* the watermark passes no action that none of them has to read or gave up on.
THEOREM NothingOvertaken == Spec => []NothingIsOvertakenUnread
<1>1. EventsInv => NothingIsOvertakenUnread
  <2>1. SUFFICES ASSUME EventsInv, NEW i \in DOMAIN chain, IsGuardAction(i),
                        chain[i].slot <= NewestStoredSlot
                 PROVE  i \in Stored \cup dropped \/ \E r \in Readers : i \in reader[r].todo
    BY DEF NothingIsOvertakenUnread
  <2>2. chain[i].slot \in Nat /\ chain[i].slot > 0
    BY <2>1 DEF EventsInv, ChainInOrder
  <2>3. PICK j \in Stored : chain[j].slot = NewestStoredSlot
    BY <2>1, <2>2, TheNewestRow DEF EventsInv
  <2>4. QED
    BY <2>1, <2>3 DEF EventsInv, NothingIsPassed
<1>2. QED
  BY <1>1, EventsInv_Always, PTL
==============================================================================
