------------------------------ MODULE KeeperProofs ------------------------------
(***************************************************************************)
(* What the keeper's liveness rests on, proved for any number of           *)
(* positions, any strategies, levels and intervals and any number of       *)
(* failures: a round decides on everybody it saw, the keeper knows every   *)
(* call it has under way, and its decisions are the program's.             *)
(***************************************************************************)
EXTENDS Keeper, FiniteSetTheorems, TLAPS

Intervals == [protectWait : 0..ProtectInterval, growWait : 0..GrowInterval]
CallType == [of : Positions, kind : Kinds, result : {"sent", "landed", "refused"}]
RoundType == [limits : LimitsType, listed : [Positions -> Intervals],
              at : Positions \cup {"nobody"}, seen : [Positions -> Reading], watches : BOOLEAN]
Phases == {"config", "listing", "market", "destination", "acting", "awaiting",
           "resting", "watching", "stopped"}

\* Every variable has its type, a round all its fields.
Types ==
    /\ chain \in [Positions -> Account] /\ limits \in LimitsType /\ fresh \in BOOLEAN
    /\ flights \subseteq Call /\ phase \in Phases /\ round \in RoundType
    /\ todo \subseteq Positions /\ call \in CallType \cup {NoCall} /\ faults \in 0..MaxFaults

\* A reading is kept only of who owes something, and the one being made is of
\* somebody the survey has still to come to.
ReadingsAreOfDebtors ==
    /\ \A p \in Positions : round.seen[p].ltv = 0 => round.seen[p] = NotSeen
    /\ phase = "destination" => round.at \in todo /\ round.seen[round.at].ltv # 0

\* Those the round has still to decide on are those it has a reading of.
DueAreSeen ==
    /\ phase = "acting" => todo = Candidates
    /\ phase = "awaiting" => /\ call \in CallType /\ call.of \notin Candidates
                            /\ todo = Candidates \cup {call.of}

KeeperInv ==
    /\ Types /\ ReadingsAreOfDebtors /\ DueAreSeen
    /\ CallsAreAccountedFor /\ IsFiniteSet(flights)

------------------------------------------------------------------------------
(* The operators.                                                          *)

\* What the code assumes of the owner's choices and the instance's bounds.
LEMMA ConstantsFact ==
    /\ IsFiniteSet(Positions) /\ ProtectInterval \in Nat /\ GrowInterval \in Nat
    /\ MaxFaults \in Nat /\ LoanToValues \subseteq Nat \ {0}
    /\ \A p \in Positions :
         /\ Strategy[p].target \in LoanToValues
         /\ Strategy[p].growBelow \in Nat /\ Strategy[p].protect \in Nat
         /\ Strategy[p].growBelow < Strategy[p].protect
         /\ Strategy[p].growEnabled \in BOOLEAN /\ Strategy[p].exitOnFlag \in BOOLEAN
<1>1. ASSUME NEW p \in Positions PROVE Strategy[p].growBelow < Strategy[p].protect
  <2>1. /\ Strategy[p].target \in LoanToValues /\ LoanToValues \subseteq Nat \ {0}
        /\ Strategy[p].growBelow \in Nat /\ Strategy[p].protect \in Nat
        /\ Strategy[p].growBelow < Strategy[p].target /\ Strategy[p].target < Strategy[p].protect
    BY KeeperAssumption
  <2>2. Strategy[p].target \in Nat
    BY <2>1
  <2>3. QED
    BY <2>1, <2>2
<1>2. QED
  BY <1>1, KeeperAssumption

\* What a call that lands makes of a position is one again.
LEMMA OutcomesAreAccounts ==
    ASSUME Types, NEW p \in Positions, NEW kind \in Kinds, NEW d \in Outcomes(p, kind)
    PROVE  d \in Account
<1>1. chain[p] \in Account
  BY DEF Types
<1>2. 0 \in 0..ProtectInterval /\ 0 \in 0..GrowInterval
      /\ ProtectInterval \in 0..ProtectInterval /\ GrowInterval \in 0..GrowInterval
  BY ConstantsFact
<1>3. CASE kind = "protect"
  <2>1. PICK x \in [ltv : LoanToValues, sells : BOOLEAN] :
           d = [chain[p] EXCEPT !.ltv = x.ltv, !.sells = x.sells, !.protectWait = ProtectInterval]
    BY <1>3 DEF Outcomes, AfterProtect
  <2>2. QED
    BY <1>1, <1>2, <2>1 DEF Account
<1>4. CASE kind = "grow"
  <2>1. d = [chain[p] EXCEPT !.ltv = Strategy[p].target, !.sells = TRUE, !.growWait = GrowInterval]
    BY <1>4 DEF Outcomes, AfterGrow
  <2>2. Strategy[p].target \in LoanToValues
    BY ConstantsFact
  <2>3. QED
    BY <1>1, <1>2, <2>1, <2>2 DEF Account
<1>5. CASE kind = "leave"
  <2>1. d = Gone \/ \E l \in LoanToValues :
                       d = [chain[p] EXCEPT !.state = "Closing", !.ltv = l, !.sells = FALSE]
    BY <1>5 DEF Outcomes, AfterLeave
  <2>2. QED
    <3>1. CASE d = Gone
      BY <1>2, <3>1 DEF Account, Gone
    <3>2. CASE d # Gone
      BY <1>1, <2>1, <3>2 DEF Account
    <3>3. QED
      BY <3>1, <3>2
<1>6. QED
  BY <1>3, <1>4, <1>5 DEF Kinds

LEMMA LandingKeepsTheType ==
    ASSUME Types, NEW p \in Positions, NEW kind \in Kinds, Lands(p, kind)
    PROVE  chain' \in [Positions -> Account]
<1>1. PICK d \in Outcomes(p, kind) : chain' = [chain EXCEPT ![p] = d]
  BY DEF Lands
<1>2. d \in Account
  BY OutcomesAreAccounts
<1>3. QED
  BY <1>1, <1>2 DEF Types

\* The four cases of the decision: past the guard level, low with growing
\* paused, low with growing on, and the rest.
PastTheGuard(p) == round.seen[p].ltv >= Strategy[p].protect
IsLow(p) == round.seen[p].ltv <= Strategy[p].growBelow

LEMMA DecisionByCases ==
    ASSUME Types, NEW p \in Positions
    PROVE  /\ PastTheGuard(p) =>
                decideWhatToDo(p) =
                  (IF round.seen[p].fresh /\ round.seen[p].sells /\ round.listed[p].protectWait = 0
                   THEN "protect" ELSE "wait")
           /\ ~PastTheGuard(p) /\ IsLow(p) /\ round.limits.growPaused =>
                decideWhatToDo(p) = "wait"
           /\ ~PastTheGuard(p) /\ IsLow(p) /\ ~round.limits.growPaused /\ Strategy[p].growEnabled =>
                decideWhatToDo(p) =
                  (IF round.seen[p].fresh /\ round.listed[p].growWait = 0 THEN "grow" ELSE "wait")
           /\ ~PastTheGuard(p) /\ ~(IsLow(p) /\ (round.limits.growPaused \/ Strategy[p].growEnabled)) =>
                decideWhatToDo(p) =
                  (IF IsHandedBack(p, round.seen[p], round.limits)
                      /\ (round.seen[p].sells => round.seen[p].fresh)
                   THEN "leave" ELSE "wait")
<1>1. /\ round.seen[p].ltv \in Nat /\ Strategy[p].growBelow \in Nat /\ Strategy[p].protect \in Nat
      /\ Strategy[p].growBelow < Strategy[p].protect
  <2>1. round.seen[p] \in Reading
    BY DEF Types, RoundType
  <2>2. round.seen[p].ltv \in LoanToValues \cup {0}
    BY <2>1 DEF Reading
  <2>3. QED
    <3>1. LoanToValues \subseteq Nat /\ Strategy[p].growBelow \in Nat /\ Strategy[p].protect \in Nat
          /\ Strategy[p].growBelow < Strategy[p].protect
      BY ConstantsFact
    <3>2. LoanToValues \cup {0} \subseteq Nat
      BY <3>1
    <3>3. round.seen[p].ltv \in Nat
      BY <2>2, <3>2
    <3>4. QED
      BY <3>1, <3>3
<1>2. PastTheGuard(p) => ~IsLow(p)
  BY <1>1 DEF PastTheGuard, IsLow
<1>3. QED
  BY <1>2 DEF decideWhatToDo, MayProtectAgain, PastTheGuard, IsLow

LEMMA DecisionIsAKind ==
    ASSUME Types, NEW p \in Positions
    PROVE  decideWhatToDo(p) \in Kinds \cup {"wait"}
  BY DecisionByCases DEF Kinds

------------------------------------------------------------------------------
(* The calls under way.                                                    *)

Late == {c \in flights : c.late}

\* As long as no call leaves the keeper's hands, each stays accounted for.
LEMMA NoCallIsSent ==
    ASSUME KeeperInv, flights' = flights, faults' \in Nat, faults <= faults',
           phase # "awaiting" \/ (phase' = phase /\ call' = call)
    PROVE  CallsAreAccountedFor' /\ IsFiniteSet(flights')
<1>1. faults \in Nat /\ Cardinality(Late) <= faults /\ Cardinality(Late) \in Nat
  <2>1. IsFiniteSet(Late)
    BY FS_Subset DEF KeeperInv, Late
  <2>2. QED
    BY <2>1, FS_CardinalityType, ConstantsFact DEF KeeperInv, Types, CallsAreAccountedFor, Late
<1>2. Late' = Late
  BY DEF Late
<1>3. \A c \in flights : ~c.late =>
         phase' = "awaiting" /\ call' = [of |-> c.of, kind |-> c.kind, result |-> "sent"]
  BY DEF KeeperInv, CallsAreAccountedFor
<1>4. Cardinality(Late') <= faults'
  BY <1>1, <1>2
<1>5. QED
  BY <1>3, <1>4 DEF KeeperInv, CallsAreAccountedFor, Late

\* Giving up on the call under way, if there is one, leaves one more behind.
LEMMA GivingUpLeavesOne ==
    ASSUME KeeperInv, flights' = Overdue, faults' \in Nat, faults' >= faults + 1
    PROVE  CallsAreAccountedFor' /\ IsFiniteSet(flights') /\ flights' \subseteq Call
<1> DEFINE awaited == [of |-> call.of, kind |-> call.kind, late |-> TRUE]
<1>1. \A c \in flights : /\ [c EXCEPT !.late = TRUE] \in Call /\ [c EXCEPT !.late = TRUE].late
                         /\ c.late => [c EXCEPT !.late = TRUE] = c
                         /\ ~c.late => [c EXCEPT !.late = TRUE] = awaited
  <2>1. SUFFICES ASSUME NEW c \in flights
                 PROVE  /\ [c EXCEPT !.late = TRUE] \in Call /\ [c EXCEPT !.late = TRUE].late
                        /\ c.late => [c EXCEPT !.late = TRUE] = c
                        /\ ~c.late => [c EXCEPT !.late = TRUE] = awaited
    OBVIOUS
  <2>2. c \in Call
    BY DEF KeeperInv, Types
  <2>3. ~c.late => call.of = c.of /\ call.kind = c.kind
    BY DEF KeeperInv, CallsAreAccountedFor
  <2>4. [c EXCEPT !.late = TRUE] = [of |-> c.of, kind |-> c.kind, late |-> TRUE]
    <3> DEFINE a == [c EXCEPT !.late = TRUE]
    <3> DEFINE b == [of |-> c.of, kind |-> c.kind, late |-> TRUE]
    <3>1. a \in Call /\ a.of = c.of /\ a.kind = c.kind /\ a.late = TRUE
      BY <2>2 DEF Call
    <3>2. b \in Call /\ b.of = c.of /\ b.kind = c.kind /\ b.late = TRUE
      BY <2>2 DEF Call
    <3> HIDE DEF a, b
    <3>3. a = b
      BY <3>1, <3>2 DEF Call
    <3>4. QED
      BY <3>3 DEF a, b
  <2>5. [c EXCEPT !.late = TRUE] \in Call /\ [c EXCEPT !.late = TRUE].late
    BY <2>2 DEF Call
  <2>6. c.late => [c EXCEPT !.late = TRUE] = c
    BY <2>2 DEF Call
  <2>7. QED
    BY <2>3, <2>4, <2>5, <2>6
<1> HIDE DEF awaited
<1>2. flights' \subseteq Call /\ (\A c \in flights' : c.late) /\ flights' \subseteq Late \cup {awaited}
  <2>1. SUFFICES ASSUME NEW d \in flights' PROVE d \in Call /\ d.late /\ d \in Late \cup {awaited}
    OBVIOUS
  <2>2. PICK c \in flights : d = [c EXCEPT !.late = TRUE]
    BY DEF Overdue
  <2>3. QED
    BY <1>1, <2>2 DEF Late
<1>3. IsFiniteSet(Late) /\ Cardinality(Late) <= faults /\ Cardinality(Late) \in Nat /\ faults \in Nat
  <2>1. IsFiniteSet(Late)
    BY FS_Subset DEF KeeperInv, Late
  <2>2. QED
    BY <2>1, FS_CardinalityType, ConstantsFact DEF KeeperInv, Types, CallsAreAccountedFor, Late
<1>4. IsFiniteSet(Late \cup {awaited}) /\ Cardinality(Late \cup {awaited}) <= Cardinality(Late) + 1
      /\ Cardinality(Late \cup {awaited}) \in Nat
  <2>1. /\ IsFiniteSet(Late \cup {awaited})
        /\ Cardinality(Late \cup {awaited}) =
             IF awaited \in Late THEN Cardinality(Late) ELSE Cardinality(Late) + 1
    BY <1>3, FS_AddElement
  <2>2. QED
    BY <1>3, <2>1
<1>5. IsFiniteSet(flights') /\ Cardinality(flights') <= Cardinality(Late \cup {awaited})
      /\ Cardinality(flights') \in Nat
  BY <1>2, <1>4, FS_Subset, FS_CardinalityType
<1>6. Late' = flights'
  BY <1>2 DEF Late
<1>7. Cardinality(Late') <= faults'
  BY <1>3, <1>4, <1>5, <1>6
<1>8. QED
  BY <1>2, <1>5, <1>7 DEF CallsAreAccountedFor, Late

\* A call that was run, refused or dropped is gone.
LEMMA ACallIsGone ==
    ASSUME KeeperInv, NEW c \in flights, flights' = flights \ {c}, faults' \in Nat, faults <= faults',
           phase' = phase, c.late => call' = call
    PROVE  CallsAreAccountedFor' /\ IsFiniteSet(flights') /\ flights' \subseteq Call
<1>1. IsFiniteSet(flights') /\ flights' \subseteq Call
  BY FS_Subset DEF KeeperInv, Types
<1>2. IsFiniteSet(Late) /\ Cardinality(Late) <= faults /\ Cardinality(Late) \in Nat /\ faults \in Nat
  <2>1. IsFiniteSet(Late)
    BY FS_Subset DEF KeeperInv, Late
  <2>2. QED
    BY <2>1, FS_CardinalityType, ConstantsFact DEF KeeperInv, Types, CallsAreAccountedFor, Late
<1>3. Late' \subseteq Late
  BY DEF Late
<1>4. Cardinality(Late') <= Cardinality(Late) /\ Cardinality(Late') \in Nat
  BY <1>2, <1>3, FS_Subset, FS_CardinalityType
<1>5. Cardinality(Late') <= faults'
  BY <1>2, <1>4
<1>6. \A d \in flights' : ~d.late =>
         phase' = "awaiting" /\ call' = [of |-> d.of, kind |-> d.kind, result |-> "sent"]
  <2>1. SUFFICES ASSUME NEW d \in flights', ~d.late
                 PROVE  phase' = "awaiting" /\ call' = [of |-> d.of, kind |-> d.kind, result |-> "sent"]
    OBVIOUS
  <2>2. phase = "awaiting" /\ call = [of |-> d.of, kind |-> d.kind, result |-> "sent"]
    BY <2>1 DEF KeeperInv, CallsAreAccountedFor
  <2>3. c.late
    <3>1. SUFFICES ASSUME ~c.late PROVE c = d
      BY <2>1
    <3>2. call = [of |-> c.of, kind |-> c.kind, result |-> "sent"]
      BY <3>1 DEF KeeperInv, CallsAreAccountedFor
    <3>3. c.of = d.of /\ c.kind = d.kind
      BY <2>2, <3>2
    <3>4. c \in Call /\ d \in Call
      BY DEF KeeperInv, Types
    <3>5. QED
      BY <2>1, <3>1, <3>3, <3>4 DEF Call
  <2>4. QED
    BY <2>2, <2>3
<1>7. QED
  BY <1>1, <1>5, <1>6 DEF CallsAreAccountedFor, Late

------------------------------------------------------------------------------
(* What moves the chain besides the keeper.                                *)

\* The world changes nothing the keeper's invariant is about, but for the clock
\* of what was listed.
LEMMA TheWorldKeepsInv ==
    ASSUME KeeperInv, UNCHANGED <<flights, phase, todo, call>>,
           chain' \in [Positions -> Account], limits' \in LimitsType, fresh' \in BOOLEAN,
           round' \in RoundType, round'.seen = round.seen, round'.at = round.at,
           faults' \in 0..MaxFaults, faults' >= faults
    PROVE  KeeperInv'
<1>1. Types'
  BY DEF KeeperInv, Types
<1>2. Candidates' = Candidates
  BY DEF Candidates
<1>3. ReadingsAreOfDebtors' /\ DueAreSeen'
  BY <1>2 DEF KeeperInv, ReadingsAreOfDebtors, DueAreSeen
<1>4. CallsAreAccountedFor' /\ IsFiniteSet(flights')
  <2>1. faults \in Nat /\ faults' \in Nat /\ faults <= faults'
    BY ConstantsFact DEF KeeperInv, Types
  <2>2. QED
    BY <2>1, NoCallIsSent
<1>5. QED
  BY <1>1, <1>3, <1>4 DEF KeeperInv

LEMMA PositionStepKeepsInv ==
    ASSUME KeeperInv, NEW p \in Positions,
           Prices(p) \/ Cleared(p) \/ OwnerActs(p) \/ MarketFlags(p)
    PROVE  KeeperInv'
<1>1. UNCHANGED <<limits, fresh, flights, phase, round, todo, call, faults>>
  BY DEF Prices, Cleared, OwnerActs, MarketFlags, keeper
<1>2. chain \in [Positions -> Account] /\ chain[p] \in Account /\ Strategy[p].target \in LoanToValues
      /\ 0 \in 0..ProtectInterval /\ 0 \in 0..GrowInterval
  BY ConstantsFact DEF KeeperInv, Types
<1>3. chain' \in [Positions -> Account]
  <2>1. CASE Prices(p)
    BY <1>2, <2>1 DEF Prices, Account
  <2>2. CASE Cleared(p)
    BY <1>2, <2>2 DEF Cleared, Account
  <2>3. CASE OwnerActs(p)
    <3>1. CASE chain' = [chain EXCEPT ![p].state = "Open", ![p].ltv = Strategy[p].target,
                                      ![p].sells = TRUE]
      BY <1>2, <3>1 DEF Account
    <3>2. CASE chain' = [chain EXCEPT ![p].ltv = Strategy[p].target, ![p].sells = TRUE]
      BY <1>2, <3>2 DEF Account
    <3>3. CASE chain' = [chain EXCEPT ![p] = Gone]
      BY <1>2, <3>3 DEF Account, Gone
    <3>4. CASE chain' = [chain EXCEPT ![p].state = "Closing", ![p].sells = FALSE]
      BY <1>2, <3>4 DEF Account
    <3>5. QED
      BY <2>3, <3>1, <3>2, <3>3, <3>4 DEF OwnerActs
  <2>4. CASE MarketFlags(p)
    BY <1>2, <2>4 DEF MarketFlags, Account
  <2>5. QED
    BY <2>1, <2>2, <2>3, <2>4
<1>4. limits \in LimitsType /\ fresh \in BOOLEAN /\ round \in RoundType
      /\ faults \in 0..MaxFaults /\ faults \in Nat
  BY ConstantsFact DEF KeeperInv, Types
<1>5. QED
  BY <1>1, <1>3, <1>4, TheWorldKeepsInv

LEMMA AnotherCallKeepsInv ==
    ASSUME KeeperInv, NEW p \in Positions, NEW kind \in Kinds, AnotherCalls(p, kind)
    PROVE  KeeperInv'
<1>1. UNCHANGED <<limits, fresh, flights, phase, round, todo, call, faults>>
  BY DEF AnotherCalls, keeper
<1>2. chain' \in [Positions -> Account]
  BY LandingKeepsTheType DEF AnotherCalls, KeeperInv
<1>3. limits \in LimitsType /\ fresh \in BOOLEAN /\ round \in RoundType
      /\ faults \in 0..MaxFaults /\ faults \in Nat
  BY ConstantsFact DEF KeeperInv, Types
<1>4. QED
  BY <1>1, <1>2, <1>3, TheWorldKeepsInv

\* The admin and the oracle.
LEMMA SurroundingsKeepInv ==
    ASSUME KeeperInv, AdminActs \/ OracleStops \/ OracleResumes
    PROVE  KeeperInv'
<1>1. UNCHANGED <<chain, flights, phase, round, todo, call>>
  BY DEF AdminActs, OracleStops, OracleResumes, keeper
<1>2. chain \in [Positions -> Account] /\ limits \in LimitsType /\ fresh \in BOOLEAN
      /\ round \in RoundType /\ faults \in 0..MaxFaults /\ MaxFaults \in Nat
  BY ConstantsFact DEF KeeperInv, Types
<1>3. limits' \in LimitsType
  BY <1>2 DEF AdminActs, OracleStops, OracleResumes, keeper, LimitsType
<1>4. fresh' \in BOOLEAN
  BY <1>2 DEF AdminActs, OracleStops, OracleResumes
<1>5. faults' \in 0..MaxFaults /\ faults' >= faults
  BY <1>2 DEF AdminActs, OracleStops, OracleResumes, keeper, Fault
<1>6. QED
  BY <1>1, <1>2, <1>3, <1>4, <1>5, TheWorldKeepsInv

LEMMA TickKeepsInv == ASSUME KeeperInv, Tick PROVE KeeperInv'
<1>1. UNCHANGED <<limits, fresh, flights, phase, todo, call, faults>>
      /\ chain' = [p \in Positions |-> RunsDown(chain[p])]
      /\ (round' = [round EXCEPT !.listed = [p \in Positions |-> RunsDown(round.listed[p])]]
          \/ round' = round)
  BY DEF Tick
<1>2. ProtectInterval \in Nat /\ GrowInterval \in Nat
  BY ConstantsFact
<1>3. \A n \in 0..ProtectInterval : (IF n = 0 THEN 0 ELSE n - 1) \in 0..ProtectInterval
  BY <1>2
<1>4. \A n \in 0..GrowInterval : (IF n = 0 THEN 0 ELSE n - 1) \in 0..GrowInterval
  BY <1>2
<1>5. \A a \in Account : RunsDown(a) \in Account
  BY <1>3, <1>4 DEF RunsDown, Account
<1>6. \A a \in Intervals : RunsDown(a) \in Intervals
  BY <1>3, <1>4 DEF RunsDown, Intervals
<1>7. chain' \in [Positions -> Account]
  BY <1>1, <1>5 DEF KeeperInv, Types
<1>8. round' \in RoundType /\ round'.seen = round.seen /\ round'.at = round.at
  <2>1. round \in RoundType
    BY DEF KeeperInv, Types
  <2>2. [p \in Positions |-> RunsDown(round.listed[p])] \in [Positions -> Intervals]
    BY <1>6, <2>1 DEF RoundType
  <2>3. QED
    BY <1>1, <2>1, <2>2 DEF RoundType
<1>9. limits \in LimitsType /\ fresh \in BOOLEAN /\ faults \in 0..MaxFaults /\ faults \in Nat
  BY ConstantsFact DEF KeeperInv, Types
<1>10. QED
  BY <1>1, <1>7, <1>8, <1>9, TheWorldKeepsInv

LEMMA WorldKeepsInv == ASSUME KeeperInv, World PROVE KeeperInv'
  BY PositionStepKeepsInv, AnotherCallKeepsInv, SurroundingsKeepInv, TickKeepsInv DEF World

------------------------------------------------------------------------------
(* The survey.                                                             *)

LEMMA ReadConfigKeepsInv == ASSUME KeeperInv, ReadConfig PROVE KeeperInv'
<1>1. /\ UNCHANGED <<chain, limits, fresh, flights, todo, call, faults>>
      /\ phase = "config" /\ phase' = "listing" /\ round' = [round EXCEPT !.limits = limits]
  BY DEF ReadConfig, world
<1>2. Types'
  BY <1>1 DEF KeeperInv, Types, RoundType, Phases
<1>3. round'.seen = round.seen
  BY <1>1 DEF KeeperInv, Types, RoundType
<1>4. ReadingsAreOfDebtors' /\ DueAreSeen'
  BY <1>1, <1>3 DEF KeeperInv, ReadingsAreOfDebtors, DueAreSeen
<1>5. CallsAreAccountedFor' /\ IsFiniteSet(flights')
  BY <1>1, ConstantsFact, NoCallIsSent DEF KeeperInv, Types
<1>6. QED
  BY <1>2, <1>4, <1>5 DEF KeeperInv

LEMMA LoadOpenPositionsKeepsInv == ASSUME KeeperInv, LoadOpenPositions PROVE KeeperInv'
<1> DEFINE listed == [p \in Positions |->
                        IF p \in OpenPositions
                        THEN [protectWait |-> chain[p].protectWait, growWait |-> chain[p].growWait]
                        ELSE NotListed]
<1>1. /\ UNCHANGED <<chain, limits, fresh, flights, call, faults>>
      /\ phase = "listing" /\ phase' = "market" /\ todo' = OpenPositions
      /\ round' = [round EXCEPT !.listed = listed]
  BY DEF LoadOpenPositions, world
<1>2. listed \in [Positions -> Intervals]
  <2>1. 0 \in 0..ProtectInterval /\ 0 \in 0..GrowInterval
    BY ConstantsFact
  <2>2. QED
    BY <2>1 DEF KeeperInv, Types, Account, Intervals, NotListed
<1> HIDE DEF listed
<1>3. Types'
  BY <1>1, <1>2 DEF KeeperInv, Types, RoundType, Phases, OpenPositions
<1>4. round'.seen = round.seen
  BY <1>1 DEF KeeperInv, Types, RoundType
<1>5. ReadingsAreOfDebtors' /\ DueAreSeen'
  BY <1>1, <1>4 DEF KeeperInv, ReadingsAreOfDebtors, DueAreSeen
<1>6. CallsAreAccountedFor' /\ IsFiniteSet(flights')
  BY <1>1, ConstantsFact, NoCallIsSent DEF KeeperInv, Types
<1>7. QED
  BY <1>3, <1>5, <1>6 DEF KeeperInv

LEMMA ReadTheMarketKeepsInv ==
    ASSUME KeeperInv, NEW p \in Positions, ReadTheMarket(p)
    PROVE  KeeperInv'
<1> DEFINE reading == [ltv |-> chain[p].ltv, flagged |-> chain[p].flagged,
                       sells |-> FALSE, fresh |-> fresh]
<1>1. /\ UNCHANGED <<chain, limits, fresh, flights, call, faults>>
      /\ phase = "market" /\ phase' \in {"market", "destination"} /\ p \in todo
      /\ phase' = "destination" => /\ chain[p].ltv > 0 /\ todo' = todo
                                   /\ round' = [round EXCEPT !.at = p, !.seen[p] = reading]
      /\ phase' = "market" => round' = round /\ todo' = todo \ {p}
  BY DEF ReadTheMarket, world, LeftToRead
<1>2. reading \in Reading /\ round \in RoundType /\ (chain[p].ltv > 0 => reading.ltv # 0)
  BY DEF KeeperInv, Types, Account, Reading
<1> HIDE DEF reading
<1>3. round' \in RoundType
  <2>1. CASE phase' = "market"
    BY <1>1, <1>2, <2>1
  <2>2. CASE phase' = "destination"
    <3>1. [round.seen EXCEPT ![p] = reading] \in [Positions -> Reading]
      BY <1>2 DEF RoundType
    <3>2. round' = [round EXCEPT !.at = p, !.seen = [round.seen EXCEPT ![p] = reading]]
      BY <1>1, <2>2
    <3>3. QED
      BY <1>2, <3>1, <3>2 DEF RoundType
  <2>3. QED
    BY <1>1, <2>1, <2>2
<1>4. Types'
  BY <1>1, <1>3 DEF KeeperInv, Types, Phases
<1>5. ReadingsAreOfDebtors' /\ DueAreSeen'
  <2>1. CASE phase' = "market"
    BY <1>1, <2>1 DEF KeeperInv, ReadingsAreOfDebtors, DueAreSeen
  <2>2. CASE phase' = "destination"
    <3>1. round'.at = p /\ round'.seen = [round.seen EXCEPT ![p] = reading]
          /\ round.seen \in [Positions -> Reading]
      BY <1>1, <1>2, <2>2 DEF RoundType
    <3>2. QED
      BY <1>1, <1>2, <2>2, <3>1 DEF KeeperInv, ReadingsAreOfDebtors, DueAreSeen
  <2>3. QED
    BY <1>1, <2>1, <2>2
<1>6. CallsAreAccountedFor' /\ IsFiniteSet(flights')
  BY <1>1, ConstantsFact, NoCallIsSent DEF KeeperInv, Types
<1>7. QED
  BY <1>4, <1>5, <1>6 DEF KeeperInv

LEMMA ReadTheDestinationKeepsInv == ASSUME KeeperInv, ReadTheDestination PROVE KeeperInv'
<1> PICK p \in todo : p = round.at
  BY DEF KeeperInv, ReadingsAreOfDebtors, ReadTheDestination
<1> DEFINE reading == [round.seen[p] EXCEPT !.sells = chain[p].sells, !.fresh = @ /\ fresh]
<1>1. /\ UNCHANGED <<chain, limits, fresh, flights, call, faults>>
      /\ phase = "destination" /\ phase' = "market" /\ todo' = todo \ {p}
      /\ round' = [round EXCEPT !.at = "nobody", !.seen[p].sells = chain[p].sells,
                                !.seen[p].fresh = @ /\ fresh]
  BY DEF ReadTheDestination, world
<1>2. /\ p \in Positions /\ round \in RoundType /\ round.seen \in [Positions -> Reading]
      /\ round.seen[p] \in Reading /\ chain[p].sells \in BOOLEAN /\ fresh \in BOOLEAN
      /\ round.seen[p].ltv # 0
  BY <1>1 DEF KeeperInv, Types, Account, RoundType, ReadingsAreOfDebtors
<1>3. reading \in Reading /\ reading.ltv # 0
  BY <1>2 DEF Reading
<1>4. round' = [round EXCEPT !.at = "nobody", !.seen = [round.seen EXCEPT ![p] = reading]]
  BY ZenonT(60), <1>1, <1>2 DEF RoundType, Reading
<1> HIDE DEF reading
<1>5. round' \in RoundType /\ round'.seen = [round.seen EXCEPT ![p] = reading]
  BY <1>2, <1>3, <1>4 DEF RoundType
<1>6. Types'
  BY <1>1, <1>5 DEF KeeperInv, Types, Phases
<1>7. \A q \in Positions : round'.seen[q].ltv = 0 => round'.seen[q] = NotSeen
  <2>1. \A q \in Positions : round'.seen[q] = IF q = p THEN reading ELSE round.seen[q]
    BY <1>2, <1>5
  <2>2. QED
    BY <1>3, <2>1 DEF KeeperInv, ReadingsAreOfDebtors
<1>8. ReadingsAreOfDebtors' /\ DueAreSeen'
  BY <1>1, <1>7 DEF ReadingsAreOfDebtors, DueAreSeen
<1>9. CallsAreAccountedFor' /\ IsFiniteSet(flights')
  BY <1>1, ConstantsFact, NoCallIsSent DEF KeeperInv, Types
<1>10. QED
  BY <1>6, <1>8, <1>9 DEF KeeperInv

\* Where nothing was read there is a reading of its type.
LEMMA NotSeenIsAReading == NotSeen \in Reading /\ NotSeen.ltv = 0 /\ NotListed \in Intervals
<1>1. 0 \in 0..ProtectInterval /\ 0 \in 0..GrowInterval
  BY ConstantsFact
<1>2. QED
  BY <1>1 DEF NotSeen, Reading, NotListed, Intervals

LEMMA CouldNotLookKeepsInv ==
    ASSUME KeeperInv, NEW p \in Positions, CouldNotLook(p)
    PROVE  KeeperInv'
<1>1. /\ UNCHANGED <<chain, limits, fresh, flights, call>>
      /\ phase \in {"market", "destination"} /\ phase' = "market" /\ todo' = todo \ {p}
      /\ round' = [round EXCEPT !.at = "nobody", !.seen[p] = NotSeen]
      /\ faults + 1 <= MaxFaults /\ faults' = faults + 1
  BY DEF CouldNotLook, Surveying, world, LeftToRead, Fault
<1>2. round \in RoundType /\ round.seen \in [Positions -> Reading] /\ faults \in Nat /\ MaxFaults \in Nat
  BY ConstantsFact DEF KeeperInv, Types, RoundType
<1>3. round' \in RoundType /\ round'.seen = [round.seen EXCEPT ![p] = NotSeen]
  BY <1>1, <1>2, NotSeenIsAReading DEF RoundType
<1>4. Types'
  BY <1>1, <1>2, <1>3 DEF KeeperInv, Types, Phases
<1>5. ReadingsAreOfDebtors' /\ DueAreSeen'
  BY <1>1, <1>2, <1>3 DEF KeeperInv, ReadingsAreOfDebtors, DueAreSeen
<1>6. CallsAreAccountedFor' /\ IsFiniteSet(flights')
  BY <1>1, <1>2, NoCallIsSent
<1>7. QED
  BY <1>4, <1>5, <1>6 DEF KeeperInv

LEMMA EndSurveyKeepsInv == ASSUME KeeperInv, EndSurvey PROVE KeeperInv'
<1>1. /\ UNCHANGED <<chain, limits, fresh, flights, call, faults>>
      /\ phase = "market" /\ phase' = "acting" /\ todo' = Candidates
      /\ round' = [round EXCEPT !.watches = Candidates # {}]
  BY DEF EndSurvey, world
<1>2. round' \in RoundType /\ round'.seen = round.seen
  BY <1>1 DEF KeeperInv, Types, RoundType
<1>3. Candidates' = Candidates /\ Candidates \subseteq Positions
  BY <1>2 DEF Candidates
<1>4. Types'
  BY <1>1, <1>2, <1>3 DEF KeeperInv, Types, Phases
<1>5. ReadingsAreOfDebtors' /\ DueAreSeen'
  BY <1>1, <1>2, <1>3 DEF KeeperInv, ReadingsAreOfDebtors, DueAreSeen
<1>6. CallsAreAccountedFor' /\ IsFiniteSet(flights')
  BY <1>1, ConstantsFact, NoCallIsSent DEF KeeperInv, Types
<1>7. QED
  BY <1>4, <1>5, <1>6 DEF KeeperInv

------------------------------------------------------------------------------
(* The decisions and the calls.                                            *)

\* Deciding on a position takes its reading away, and nobody else's.
LEMMA DoneFact ==
    ASSUME KeeperInv, NEW p \in Positions, Done(p)
    PROVE  /\ round' \in RoundType /\ Candidates' = Candidates \ {p}
           /\ \A q \in Positions : round'.seen[q].ltv = 0 => round'.seen[q] = NotSeen
<1>1. round \in RoundType /\ round.seen \in [Positions -> Reading]
      /\ round.listed \in [Positions -> Intervals]
  BY DEF KeeperInv, Types, RoundType
<1>2. round' = [round EXCEPT !.seen = [round.seen EXCEPT ![p] = NotSeen],
                             !.listed = [round.listed EXCEPT ![p] = NotListed]]
  BY DEF Done
<1>3. /\ [round.seen EXCEPT ![p] = NotSeen] \in [Positions -> Reading]
      /\ [round.listed EXCEPT ![p] = NotListed] \in [Positions -> Intervals]
  BY <1>1, NotSeenIsAReading
<1>4. round' \in RoundType /\ round'.seen = [round.seen EXCEPT ![p] = NotSeen]
  BY <1>1, <1>2, <1>3 DEF RoundType
<1>5. Candidates' = Candidates \ {p}
  <2>1. \A q \in Positions : round'.seen[q] = IF q = p THEN NotSeen ELSE round.seen[q]
    BY <1>1, <1>4
  <2>2. \A q \in Positions : round'.seen[q].ltv > 0 <=> (q # p /\ round.seen[q].ltv > 0)
    BY <2>1, NotSeenIsAReading
  <2>3. QED
    BY <2>2 DEF Candidates
<1>6. QED
  BY <1>1, <1>4, <1>5 DEF KeeperInv, ReadingsAreOfDebtors

LEMMA WaitsKeepsInv == ASSUME KeeperInv, NEW p \in Positions, Waits(p) PROVE KeeperInv'
<1>1. /\ UNCHANGED <<chain, limits, fresh, flights, phase, call, faults>>
      /\ phase = "acting" /\ todo' = todo \ {p} /\ Done(p)
  BY DEF Waits, world
<1>2. Types' /\ ReadingsAreOfDebtors' /\ DueAreSeen'
  BY <1>1, DoneFact DEF KeeperInv, Types, ReadingsAreOfDebtors, DueAreSeen
<1>3. CallsAreAccountedFor' /\ IsFiniteSet(flights')
  BY <1>1, ConstantsFact, NoCallIsSent DEF KeeperInv, Types
<1>4. QED
  BY <1>2, <1>3 DEF KeeperInv

LEMMA CannotBuildKeepsInv ==
    ASSUME KeeperInv, NEW p \in Positions, CannotBuild(p)
    PROVE  KeeperInv'
<1>1. /\ UNCHANGED <<chain, limits, fresh, flights, phase, call>>
      /\ phase = "acting" /\ todo' = todo \ {p} /\ Done(p)
      /\ faults' = faults \/ (faults + 1 <= MaxFaults /\ faults' = faults + 1)
  BY DEF CannotBuild, world, DueAfter, Fault
<1>2. faults \in 0..MaxFaults /\ faults \in Nat /\ MaxFaults \in Nat
  BY ConstantsFact DEF KeeperInv, Types
<1>3. faults' \in 0..MaxFaults /\ faults' \in Nat /\ faults <= faults'
  BY <1>1, <1>2
<1>4. Types' /\ ReadingsAreOfDebtors' /\ DueAreSeen'
  BY <1>1, <1>3, DoneFact DEF KeeperInv, Types, ReadingsAreOfDebtors, DueAreSeen
<1>5. CallsAreAccountedFor' /\ IsFiniteSet(flights')
  BY <1>1, <1>3, NoCallIsSent DEF KeeperInv, Types
<1>6. QED
  BY <1>4, <1>5 DEF KeeperInv

\* The call that is sent is the only one in time, for the keeper awaited none.
LEMMA SendsKeepsInv == ASSUME KeeperInv, NEW p \in Positions, Sends(p) PROVE KeeperInv'
<1> PICK kind \in Kinds : kind = decideWhatToDo(p)
  BY DecisionIsAKind DEF Sends, IsAWait, KeeperInv
<1> DEFINE c == [of |-> p, kind |-> kind, late |-> FALSE]
<1>1. /\ UNCHANGED <<chain, limits, fresh, todo, faults>>
      /\ phase = "acting" /\ phase' = "awaiting" /\ Done(p) /\ p \in todo
      /\ flights' = flights \cup {c}
      /\ call' = [of |-> p, kind |-> kind, result |-> "sent"]
  BY DEF Sends, world, AwaitsItsStatus, mostStretchedFirst
<1>2. c \in Call /\ call' \in CallType /\ call'.of = p /\ ~c.late /\ c.of = p /\ c.kind = kind
  BY <1>1 DEF Call, CallType
<1> HIDE DEF c
<1>3. Types'
  BY <1>1, <1>2, DoneFact DEF KeeperInv, Types, Phases
<1>4. ReadingsAreOfDebtors' /\ DueAreSeen'
  BY <1>1, <1>2, DoneFact DEF KeeperInv, ReadingsAreOfDebtors, DueAreSeen
<1>5. \A d \in flights : d.late
  BY <1>1 DEF KeeperInv, CallsAreAccountedFor
<1>6. {d \in flights' : d.late} = {d \in flights : d.late}
  BY <1>1, <1>2
<1>7. CallsAreAccountedFor'
  BY <1>1, <1>2, <1>5, <1>6 DEF KeeperInv, CallsAreAccountedFor
<1>8. IsFiniteSet(flights')
  BY <1>1, FS_AddElement DEF KeeperInv
<1>9. QED
  BY <1>3, <1>4, <1>7, <1>8 DEF KeeperInv

\* A call in time that is run or refused is the one the keeper waits for.
LEMMA ExecutesKeepsInv == ASSUME KeeperInv, NEW c \in flights, Executes(c) PROVE KeeperInv'
<1>1. /\ UNCHANGED <<limits, fresh, phase, round, todo>> /\ flights' = flights \ {c}
      /\ chain' = chain \/ Lands(c.of, c.kind)
      /\ faults' = faults \/ (faults + 1 <= MaxFaults /\ faults' = faults + 1)
      /\ c.late => call' = call
      /\ ~c.late => call' = [call EXCEPT !.result = "landed"] \/ call' = [call EXCEPT !.result = "refused"]
  BY DEF Executes, Fault
<1>2. faults \in 0..MaxFaults /\ faults \in Nat /\ MaxFaults \in Nat /\ c.of \in Positions /\ c.kind \in Kinds
  BY ConstantsFact DEF KeeperInv, Types, Call
<1>3. faults' \in 0..MaxFaults /\ faults' \in Nat /\ faults <= faults'
  BY <1>1, <1>2
<1>4. chain' \in [Positions -> Account]
  BY <1>1, <1>2, LandingKeepsTheType DEF KeeperInv, Types
<1>5. call' \in CallType \cup {NoCall} /\ (call \in CallType => call' \in CallType /\ call'.of = call.of)
  <2>1. CASE c.late
    BY <1>1, <2>1 DEF KeeperInv, Types
  <2>2. CASE ~c.late
    <3>1. call = [of |-> c.of, kind |-> c.kind, result |-> "sent"]
      BY <2>2 DEF KeeperInv, CallsAreAccountedFor
    <3>2. call \in CallType
      BY <1>2, <3>1 DEF CallType
    <3>3. QED
      BY <1>1, <2>2, <3>2 DEF CallType
  <2>3. QED
    BY <2>1, <2>2
<1>6. CallsAreAccountedFor' /\ IsFiniteSet(flights') /\ flights' \subseteq Call
  BY <1>1, <1>3, ACallIsGone
<1>7. Candidates' = Candidates
  BY <1>1 DEF Candidates
<1>8. Types' /\ ReadingsAreOfDebtors' /\ DueAreSeen'
  BY <1>1, <1>3, <1>4, <1>5, <1>6, <1>7 DEF KeeperInv, Types, ReadingsAreOfDebtors, DueAreSeen
<1>9. QED
  BY <1>6, <1>8 DEF KeeperInv

LEMMA ExpiresKeepsInv == ASSUME KeeperInv, NEW c \in flights, Expires(c) PROVE KeeperInv'
<1>1. /\ UNCHANGED <<chain, limits, fresh, phase, round, todo, call, faults>>
      /\ flights' = flights \ {c}
  BY DEF Expires, world
<1>2. CallsAreAccountedFor' /\ IsFiniteSet(flights') /\ flights' \subseteq Call
  <2>1. faults' \in Nat /\ faults <= faults'
    BY <1>1, ConstantsFact DEF KeeperInv, Types
  <2>2. QED
    BY <1>1, <2>1, ACallIsGone
<1>3. Candidates' = Candidates
  BY <1>1 DEF Candidates
<1>4. Types' /\ ReadingsAreOfDebtors' /\ DueAreSeen'
  BY <1>1, <1>2, <1>3 DEF KeeperInv, Types, ReadingsAreOfDebtors, DueAreSeen
<1>5. QED
  BY <1>2, <1>4 DEF KeeperInv

LEMMA RecordsKeepsInv == ASSUME KeeperInv, Records PROVE KeeperInv'
<1>1. /\ UNCHANGED <<chain, limits, fresh, flights, round, faults>>
      /\ phase = "awaiting" /\ phase' = "acting" /\ call.result # "sent"
      /\ call' = NoCall /\ todo' = todo \ {call.of}
  BY DEF Records, world, DueAfter
<1>2. Candidates' = Candidates
  BY <1>1 DEF Candidates
<1>3. Types' /\ ReadingsAreOfDebtors' /\ DueAreSeen'
  BY <1>1, <1>2 DEF KeeperInv, Types, Phases, ReadingsAreOfDebtors, DueAreSeen
<1>4. \A c \in flights : c.late
  BY <1>1 DEF KeeperInv, CallsAreAccountedFor
<1>5. CallsAreAccountedFor' /\ IsFiniteSet(flights')
  BY <1>1, <1>4 DEF KeeperInv, CallsAreAccountedFor
<1>6. QED
  BY <1>3, <1>5 DEF KeeperInv

LEMMA GivesUpOnTheCallKeepsInv == ASSUME KeeperInv, GivesUpOnTheCall PROVE KeeperInv'
<1>1. /\ UNCHANGED <<chain, limits, fresh, round>>
      /\ phase = "awaiting" /\ phase' = "acting" /\ flights' = Overdue
      /\ call' = NoCall /\ todo' = todo \ {call.of}
      /\ faults + 1 <= MaxFaults /\ faults' = faults + 1
  BY DEF GivesUpOnTheCall, world, DueAfter, Fault
<1>2. faults' \in 0..MaxFaults /\ faults' \in Nat /\ faults' >= faults + 1
  BY <1>1, ConstantsFact DEF KeeperInv, Types
<1>3. CallsAreAccountedFor' /\ IsFiniteSet(flights') /\ flights' \subseteq Call
  BY <1>1, <1>2, GivingUpLeavesOne
<1>4. Candidates' = Candidates
  BY <1>1 DEF Candidates
<1>5. Types' /\ ReadingsAreOfDebtors' /\ DueAreSeen'
  BY <1>1, <1>2, <1>3, <1>4 DEF KeeperInv, Types, Phases, ReadingsAreOfDebtors, DueAreSeen
<1>6. QED
  BY <1>3, <1>5 DEF KeeperInv

\* Between rounds there is nobody to decide on.
LEMMA NoRoundFact ==
    /\ NoRound \in RoundType
    /\ \A p \in Positions : NoRound.seen[p] = NotSeen
<1>1. /\ [p \in Positions |-> NotListed] \in [Positions -> Intervals]
      /\ [p \in Positions |-> NotSeen] \in [Positions -> Reading]
  BY NotSeenIsAReading
<1>2. [growPaused |-> FALSE, sunset |-> FALSE] \in LimitsType
  BY DEF LimitsType
<1>3. QED
  BY <1>1, <1>2 DEF NoRound, RoundType

LEMMA EndRoundKeepsInv == ASSUME KeeperInv, EndRound PROVE KeeperInv'
<1>1. /\ UNCHANGED <<chain, limits, fresh, flights, todo, call, faults>>
      /\ phase = "acting" /\ phase' \in {"watching", "resting"} /\ round' = NoRound
  BY DEF EndRound, world
<1>2. Types' /\ ReadingsAreOfDebtors' /\ DueAreSeen'
  BY <1>1, NoRoundFact DEF KeeperInv, Types, Phases, ReadingsAreOfDebtors, DueAreSeen
<1>3. faults' \in Nat /\ faults <= faults'
  BY <1>1, ConstantsFact DEF KeeperInv, Types
<1>4. CallsAreAccountedFor' /\ IsFiniteSet(flights')
  BY <1>1, <1>3, NoCallIsSent
<1>5. QED
  BY <1>2, <1>4 DEF KeeperInv

\* A round that fails gives up on the call it was waiting for, if any.
LEMMA RoundFailsKeepsInv == ASSUME KeeperInv, RoundFails PROVE KeeperInv'
<1>1. /\ UNCHANGED <<chain, limits, fresh>>
      /\ phase' = "resting" /\ flights' = Overdue
      /\ call' = NoCall /\ todo' = {} /\ round' = NoRound
      /\ faults + FaultsThatEndTheRound <= MaxFaults
      /\ faults' = faults + FaultsThatEndTheRound
  BY DEF RoundFails, world, Fault
<1>2. FaultsThatEndTheRound \in {1, 2}
  BY DEF FaultsThatEndTheRound
<1>3. faults' \in 0..MaxFaults /\ faults' \in Nat /\ faults' >= faults + 1
  BY <1>1, <1>2, ConstantsFact DEF KeeperInv, Types
<1>4. CallsAreAccountedFor' /\ IsFiniteSet(flights') /\ flights' \subseteq Call
  BY <1>1, <1>3, GivingUpLeavesOne
<1>5. Types' /\ ReadingsAreOfDebtors' /\ DueAreSeen'
  BY <1>1, <1>3, <1>4, NoRoundFact DEF KeeperInv, Types, Phases, ReadingsAreOfDebtors, DueAreSeen
<1>6. QED
  BY <1>4, <1>5 DEF KeeperInv

LEMMA BetweenRoundsKeepsInv ==
    ASSUME KeeperInv, WakesUp \/ WatchFails \/ Restarts
    PROVE  KeeperInv'
<1>1. /\ UNCHANGED <<chain, limits, fresh, flights, round, todo, call>>
      /\ phase # "awaiting" /\ phase' \in {"config", "stopped"}
      /\ faults' = faults \/ (faults + 1 <= MaxFaults /\ faults' = faults + 1)
  BY DEF WakesUp, WatchFails, Restarts, world, Fault
<1>2. faults' \in 0..MaxFaults /\ faults' \in Nat /\ faults <= faults'
  BY <1>1, ConstantsFact DEF KeeperInv, Types
<1>3. Types' /\ ReadingsAreOfDebtors' /\ DueAreSeen'
  BY <1>1, <1>2 DEF KeeperInv, Types, Phases, ReadingsAreOfDebtors, DueAreSeen
<1>4. CallsAreAccountedFor' /\ IsFiniteSet(flights')
  BY <1>1, <1>2, NoCallIsSent
<1>5. QED
  BY <1>3, <1>4 DEF KeeperInv

------------------------------------------------------------------------------
(* The specification.                                                      *)

LEMMA KeeperInvInit == Init => KeeperInv
<1> SUFFICES ASSUME Init PROVE KeeperInv
  OBVIOUS
<1>1. Gone \in Account /\ 0 \in 0..MaxFaults
  BY ConstantsFact DEF Gone, Account
<1>2. Types
  BY <1>1, NoRoundFact DEF Init, Types, LimitsType, Phases
<1>3. ReadingsAreOfDebtors /\ DueAreSeen
  BY NoRoundFact DEF Init, ReadingsAreOfDebtors, DueAreSeen
<1>4. CallsAreAccountedFor /\ IsFiniteSet(flights)
  <2>1. {c \in flights : c.late} = {} /\ flights = {} /\ faults = 0
    BY DEF Init
  <2>2. QED
    BY <2>1, FS_EmptySet DEF CallsAreAccountedFor
<1>5. QED
  BY <1>2, <1>3, <1>4 DEF KeeperInv

LEMMA KeeperInvNext == KeeperInv /\ [Next]_vars => KeeperInv'
<1> SUFFICES ASSUME KeeperInv, [Next]_vars PROVE KeeperInv'
  OBVIOUS
<1>1. CASE World
  BY <1>1, WorldKeepsInv
<1>2. CASE KeeperGoesOn
  BY <1>2, ReadConfigKeepsInv, LoadOpenPositionsKeepsInv, ReadTheDestinationKeepsInv,
     EndSurveyKeepsInv, ReadTheMarketKeepsInv, WaitsKeepsInv, CannotBuildKeepsInv,
     SendsKeepsInv, RecordsKeepsInv, EndRoundKeepsInv, BetweenRoundsKeepsInv
     DEF KeeperGoesOn
<1>3. CASE Failures
  BY <1>3, CouldNotLookKeepsInv, GivesUpOnTheCallKeepsInv, RoundFailsKeepsInv,
     BetweenRoundsKeepsInv
     DEF Failures
<1>4. CASE Restarts
  BY <1>4, BetweenRoundsKeepsInv
<1>5. CASE \E c \in flights : Executes(c) \/ Expires(c)
  BY <1>5, ExecutesKeepsInv, ExpiresKeepsInv
<1>6. CASE UNCHANGED vars
  BY <1>6 DEF vars, KeeperInv, Types, ReadingsAreOfDebtors, DueAreSeen, Candidates,
              CallsAreAccountedFor
<1>7. QED
  BY <1>1, <1>2, <1>3, <1>4, <1>5, <1>6 DEF Next

LEMMA KeeperInvAlways == Spec => []KeeperInv
  BY KeeperInvInit, KeeperInvNext, PTL DEF Spec

------------------------------------------------------------------------------
(* What is proved of every run of the keeper.                              *)

\* Every variable of the keeper and of the chain it looks at keeps its type.
THEOREM KeeperTypes == Spec => []TypeOK
<1>1. KeeperInv => TypeOK
  <2> SUFFICES ASSUME KeeperInv PROVE TypeOK
    OBVIOUS
  <2>1. round \in RoundType
    BY DEF KeeperInv, Types
  <2>2. /\ round.limits \in LimitsType /\ round.listed \in [Positions -> Intervals]
        /\ round.at \in Positions \cup {"nobody"} /\ round.seen \in [Positions -> Reading]
    BY <2>1 DEF RoundType
  <2>3. QED
    BY <2>2 DEF KeeperInv, Types, TypeOK, Intervals, Phases, CallType
<1>2. QED
  BY <1>1, KeeperInvAlways, PTL

\* loop.ts awaits the status of every call it sends before the next: it never
\* has two of its own in time, it knows the one it has, and the chain may still
\* run no more of the others than things went wrong.
THEOREM CallsStayAccountedFor == Spec => []CallsAreAccountedFor
<1>1. KeeperInv => CallsAreAccountedFor
  BY DEF KeeperInv
<1>2. QED
  BY <1>1, KeeperInvAlways, PTL

\* The actions that leave the deciding without a call: the end of the round, when
\* nobody is due, and its failure.
LEMMA NobodyIsSkipped ==
    ASSUME KeeperInv, [Next]_vars,
           phase = "acting", phase' # "awaiting", phase' # phase, faults' = faults
    PROVE  \A p \in Positions : round.seen[p] = NotSeen
<1>1. EndRound
  <2>1. CASE World
    BY <2>1 DEF World, Prices, Cleared, OwnerActs, MarketFlags, AnotherCalls, AdminActs,
                OracleStops, OracleResumes, Tick, keeper
  <2>2. CASE KeeperGoesOn
    BY <2>2 DEF KeeperGoesOn, ReadConfig, LoadOpenPositions, ReadTheDestination, EndSurvey,
                ReadTheMarket, Waits, CannotBuild, Sends, Records, WakesUp, AwaitsItsStatus
  <2>3. CASE Failures
    <3>1. faults \in Nat
      BY ConstantsFact DEF KeeperInv, Types
    <3>2. FaultsThatEndTheRound \in {1, 2}
      BY DEF FaultsThatEndTheRound
    <3>3. QED
      BY <2>3, <3>1, <3>2 DEF Failures, CouldNotLook, Surveying, GivesUpOnTheCall, RoundFails,
                              WatchFails, Fault
  <2>4. CASE Restarts
    BY <2>4 DEF Restarts
  <2>5. CASE \E c \in flights : Executes(c) \/ Expires(c)
    BY <2>5 DEF Executes, Expires
  <2>6. CASE UNCHANGED vars
    BY <2>6 DEF vars
  <2>7. QED
    BY <2>1, <2>2, <2>3, <2>4, <2>5, <2>6 DEF Next
<1>2. Candidates = {}
  BY <1>1 DEF EndRound, KeeperInv, DueAreSeen
<1>3. \A p \in Positions : round.seen[p].ltv \in Nat
  <2>1. LoanToValues \cup {0} \subseteq Nat
    BY ConstantsFact
  <2>2. QED
    BY <2>1 DEF KeeperInv, Types, RoundType, Reading
<1>4. \A p \in Positions : round.seen[p].ltv = 0
  BY <1>2, <1>3 DEF Candidates
<1>5. QED
  BY <1>4 DEF KeeperInv, ReadingsAreOfDebtors

\* runOneRound goes through all it was given: unless the round itself is cut
\* short, each position with a reading is decided on, whatever the calls before
\* it came to.
THEOREM EverybodyGetsADecision == Spec => EverybodySeenIsDecidedOn
<1>1. KeeperInv /\ [Next]_vars =>
        [phase = "acting" /\ phase' # "awaiting" /\ phase' # phase /\ faults' = faults
           => \A p \in Positions : round.seen[p] = NotSeen]_vars
  BY NobodyIsSkipped
<1>2. QED
  BY <1>1, KeeperInvAlways, PTL DEF Spec, EverybodySeenIsDecidedOn

\* What the keeper read of a position nothing has moved since.
LEMMA WhatWasReadIsSo ==
    ASSUME KeeperInv, phase = "acting", NEW p \in todo, NothingMovedSince(p)
    PROVE  /\ p \in Positions /\ round.seen[p].ltv = chain[p].ltv /\ round.limits = limits
           /\ round.seen[p].flagged = chain[p].flagged /\ round.seen[p].sells = chain[p].sells
           /\ round.seen[p].fresh = fresh /\ chain[p].state = "Open"
           /\ chain[p].ltv \in Nat /\ chain[p].ltv > 0
           /\ round.listed[p].protectWait \in Nat /\ round.listed[p].growWait \in Nat
           /\ round.listed[p].protectWait = 0 => chain[p].protectWait = 0
           /\ round.listed[p].growWait = 0 => chain[p].growWait = 0
<1>1. p \in Candidates /\ p \in Positions
  BY DEF KeeperInv, DueAreSeen, Candidates
<1>2. round.seen[p].ltv > 0
  BY <1>1 DEF Candidates
<1>3. chain[p] \in Account /\ round.listed[p] \in Intervals
  BY <1>1 DEF KeeperInv, Types, RoundType
<1>4. /\ chain[p].protectWait \in Nat /\ chain[p].growWait \in Nat
      /\ round.listed[p].protectWait \in Nat /\ round.listed[p].growWait \in Nat
  BY <1>3, ConstantsFact DEF Account, Intervals
<1>5. chain[p].ltv \in Nat
  <2>1. LoanToValues \cup {0} \subseteq Nat
    BY ConstantsFact
  <2>2. QED
    BY <1>3, <2>1 DEF Account
<1>6. QED
  BY <1>1, <1>2, <1>4, <1>5 DEF NothingMovedSince

LEMMA DecisionIsThePrograms ==
    ASSUME KeeperInv, phase = "acting", NEW p \in todo, NothingMovedSince(p)
    PROVE  IF IsAWait(decideWhatToDo(p))
           THEN /\ ProtectIsAccepted(p) => round.listed[p].protectWait > 0
                /\ GrowIsAccepted(p) => round.listed[p].growWait > 0
                /\ LeaveIsAccepted(p) => \/ chain[p].ltv <= Strategy[p].growBelow
                                        \/ chain[p].ltv >= Strategy[p].protect
           ELSE ProgramAccepts(p, decideWhatToDo(p))
<1> p \in Positions /\ Types
  BY WhatWasReadIsSo DEF KeeperInv
<1>1. /\ Strategy[p].growBelow \in Nat /\ Strategy[p].protect \in Nat
      /\ Strategy[p].growBelow < Strategy[p].protect
  BY ConstantsFact
<1>2. /\ PastTheGuard(p) <=> chain[p].ltv >= Strategy[p].protect
      /\ IsLow(p) <=> chain[p].ltv <= Strategy[p].growBelow
  BY WhatWasReadIsSo DEF PastTheGuard, IsLow
<1>3. PastTheGuard(p) => ~IsLow(p)
  BY <1>1, <1>2, WhatWasReadIsSo
<1>4. ProtectIsAccepted(p) => PastTheGuard(p)
  BY <1>2 DEF ProtectIsAccepted
<1>5. GrowIsAccepted(p) => IsLow(p)
  BY <1>2 DEF GrowIsAccepted
<1>6. CASE PastTheGuard(p)
  <2>1. decideWhatToDo(p) = IF fresh /\ chain[p].sells /\ round.listed[p].protectWait = 0
                            THEN "protect" ELSE "wait"
    BY <1>6, DecisionByCases, WhatWasReadIsSo
  <2>2. CASE fresh /\ chain[p].sells /\ round.listed[p].protectWait = 0
    <3>1. decideWhatToDo(p) = "protect"
      BY <2>1, <2>2
    <3>2. ProtectIsAccepted(p)
      BY <1>2, <1>6, <2>2, WhatWasReadIsSo DEF ProtectIsAccepted
    <3>3. QED
      BY <3>1, <3>2 DEF IsAWait, ProgramAccepts
  <2>3. CASE ~(fresh /\ chain[p].sells /\ round.listed[p].protectWait = 0)
    <3>1. decideWhatToDo(p) = "wait"
      BY <2>1, <2>3
    <3>2. ProtectIsAccepted(p) => fresh /\ chain[p].sells
      BY DEF ProtectIsAccepted
    <3>3. ProtectIsAccepted(p) => round.listed[p].protectWait # 0
      BY <2>3, <3>2
    <3>4. round.listed[p].protectWait \in Nat
      BY WhatWasReadIsSo
    <3>5. ProtectIsAccepted(p) => round.listed[p].protectWait > 0
      BY <3>3, <3>4
    <3>6. QED
      BY <1>2, <1>3, <1>5, <1>6, <3>1, <3>5 DEF IsAWait
  <2>4. QED
    BY <2>2, <2>3
<1>7. CASE ~PastTheGuard(p) /\ IsLow(p) /\ limits.growPaused
  <2>1. decideWhatToDo(p) = "wait"
    BY <1>7, DecisionByCases, WhatWasReadIsSo
  <2>2. ~GrowIsAccepted(p)
    BY <1>7 DEF GrowIsAccepted
  <2>3. QED
    BY <1>2, <1>4, <1>7, <2>1, <2>2 DEF IsAWait
<1>8. CASE ~PastTheGuard(p) /\ IsLow(p) /\ ~limits.growPaused /\ Strategy[p].growEnabled
  <2>1. decideWhatToDo(p) = IF fresh /\ round.listed[p].growWait = 0 THEN "grow" ELSE "wait"
    BY <1>8, DecisionByCases, WhatWasReadIsSo
  <2>2. CASE fresh /\ round.listed[p].growWait = 0
    <3>1. decideWhatToDo(p) = "grow"
      BY <2>1, <2>2
    <3>2. GrowIsAccepted(p)
      BY <1>2, <1>8, <2>2, WhatWasReadIsSo DEF GrowIsAccepted
    <3>3. QED
      BY <3>1, <3>2 DEF IsAWait, ProgramAccepts
  <2>3. CASE ~(fresh /\ round.listed[p].growWait = 0)
    <3>1. decideWhatToDo(p) = "wait"
      BY <2>1, <2>3
    <3>2. GrowIsAccepted(p) => fresh
      BY DEF GrowIsAccepted
    <3>3. GrowIsAccepted(p) => round.listed[p].growWait # 0
      BY <2>3, <3>2
    <3>4. round.listed[p].growWait \in Nat
      BY WhatWasReadIsSo
    <3>5. GrowIsAccepted(p) => round.listed[p].growWait > 0
      BY <3>3, <3>4
    <3>6. QED
      BY <1>2, <1>4, <1>8, <3>1, <3>5 DEF IsAWait
  <2>4. QED
    BY <2>2, <2>3
<1>9. CASE ~PastTheGuard(p) /\ ~(IsLow(p) /\ (limits.growPaused \/ Strategy[p].growEnabled))
  <2>1. IsHandedBack(p, round.seen[p], round.limits) <=> Retiring(p, limits, chain[p].flagged)
    BY WhatWasReadIsSo DEF IsHandedBack, Retiring
  <2>2. decideWhatToDo(p) = IF LeaveIsAccepted(p) THEN "leave" ELSE "wait"
    <3>1. decideWhatToDo(p) =
            IF IsHandedBack(p, round.seen[p], round.limits)
               /\ (round.seen[p].sells => round.seen[p].fresh)
            THEN "leave" ELSE "wait"
      BY <1>9, DecisionByCases, WhatWasReadIsSo
    <3>2. LeaveIsAccepted(p) <=> /\ IsHandedBack(p, round.seen[p], round.limits)
                                 /\ round.seen[p].sells => round.seen[p].fresh
      BY <2>1, WhatWasReadIsSo DEF LeaveIsAccepted
    <3>3. QED
      BY <3>1, <3>2
  <2>3. ~GrowIsAccepted(p)
    BY <1>5, <1>9 DEF GrowIsAccepted
  <2>4. QED
    <3>1. CASE LeaveIsAccepted(p)
      BY <2>2, <3>1 DEF IsAWait, ProgramAccepts
    <3>2. CASE ~LeaveIsAccepted(p)
      BY <1>4, <1>9, <2>2, <2>3, <3>2 DEF IsAWait
    <3>3. QED
      BY <3>1, <3>2
<1>10. QED
  BY <1>6, <1>7, <1>8, <1>9

\* decide.ts copies the guards of protect.rs, grow.rs and leave.rs, and the copy
\* agrees: of a position only the clock moved since it was read, the program
\* accepts the call that is sent, and no wait misses a call it would have
\* accepted, but for an interval and for leaving from beyond a level.
THEOREM DecidesAsTheProgram == Spec => []DecidesAsTheProgramJudges
<1>1. KeeperInv => DecidesAsTheProgramJudges
  BY DecisionIsThePrograms DEF DecidesAsTheProgramJudges
<1>2. QED
  BY <1>1, KeeperInvAlways, PTL
==============================================================================
