--------------------------------- MODULE Keeper ---------------------------------
(***************************************************************************)
(* The keeper of apps/keeper: one process that lists the open positions,   *)
(* reads the market around each, decides what each needs, sends one call   *)
(* after the other and rests.  Between any two of its awaits the chain     *)
(* moves: prices, owners, the admin and other keepers.  The chain keeps    *)
(* from AccruePosition what the keeper's decisions tell apart: the loan to *)
(* value, whether anything is left to sell, the deleverage flag and the    *)
(* time each interval still has to run.                                    *)
(***************************************************************************)
EXTENDS Naturals, FiniteSets

CONSTANTS
    Positions,
    \* The owner's choices, one record per position: [target, protect,
    \* growBelow, growEnabled, exitOnFlag].
    Strategy,
    \* The loan to values prices move between, and the line past which the
    \* market liquidates; zero is a position that owes nothing.
    LoanToValues, LiquidationThreshold,
    \* Positions in a pair the router has no route for.
    Unroutable,
    ProtectInterval, GrowInterval,
    \* What moves the chain in this instance: for each position some of "price",
    \* "clear", "top up", "rescue", "close", "flag" and "others", for the admin
    \* "pause" and "retire".
    MayHappen, AdminMay,
    \* How many things may go wrong: a read, a send, a record, a process.
    MaxFaults

ASSUME KeeperAssumption ==
    /\ IsFiniteSet(Positions) /\ Unroutable \subseteq Positions
    /\ LoanToValues \subseteq Nat \ {0} /\ LiquidationThreshold \in Nat
    /\ ProtectInterval \in Nat /\ GrowInterval \in Nat /\ MaxFaults \in Nat
    /\ \A p \in Positions :
         /\ Strategy[p].target \in LoanToValues
         /\ Strategy[p].growBelow \in Nat /\ Strategy[p].protect \in Nat
         /\ Strategy[p].growBelow < Strategy[p].target
         /\ Strategy[p].target < Strategy[p].protect
         /\ Strategy[p].growEnabled \in BOOLEAN /\ Strategy[p].exitOnFlag \in BOOLEAN

VARIABLES
    chain,    \* per position: state, ltv, sells, flagged, protectWait, growWait
    limits,   \* the Config account: growPaused, sunset
    fresh,    \* whether the oracle's prices are young enough
    flights,  \* calls sent and neither executed nor expired
    phase,    \* where main's loop stands
    round,    \* limits as read, the accounts as listed, what was seen of each
    todo,     \* positions the phase has still to come to
    call,     \* the call the keeper is waiting for
    faults    \* how many things went wrong so far

vars == <<chain, limits, fresh, flights, phase, round, todo, call, faults>>
world == <<chain, limits, fresh>>

Gone == [state |-> "Away", ltv |-> 0, sells |-> FALSE, flagged |-> FALSE,
         protectWait |-> 0, growWait |-> 0]
NoCall == [of |-> "nobody", kind |-> "none", result |-> "none"]
NotListed == [protectWait |-> 0, growWait |-> 0]
NotSeen == [ltv |-> 0, flagged |-> FALSE, sells |-> FALSE, fresh |-> FALSE]
NoRound == [limits |-> [growPaused |-> FALSE, sunset |-> FALSE],
            listed |-> [p \in Positions |-> NotListed], at |-> "nobody",
            seen |-> [p \in Positions |-> NotSeen], watches |-> FALSE]

Account == [state : {"Away", "Open", "Closing"}, ltv : LoanToValues \cup {0},
            sells : BOOLEAN, flagged : BOOLEAN,
            protectWait : 0..ProtectInterval, growWait : 0..GrowInterval]
LimitsType == [growPaused : BOOLEAN, sunset : BOOLEAN]
Kinds == {"protect", "grow", "leave"}

------------------------------------------------------------------------------
(* The program, as strangers meet it (protect.rs, grow.rs, leave.rs).      *)

Retiring(p, l, flagged) == l.sunset \/ (Strategy[p].exitOnFlag /\ flagged)

ProtectIsAccepted(p) ==
    LET c == chain[p]
    IN  /\ c.state = "Open" /\ c.ltv >= Strategy[p].protect
        /\ c.sells /\ fresh
        /\ c.protectWait = 0 \/ c.ltv >= LiquidationThreshold

GrowIsAccepted(p) ==
    LET c == chain[p]
    IN  /\ c.state = "Open" /\ Strategy[p].growEnabled /\ ~limits.growPaused
        /\ c.ltv > 0 /\ c.ltv <= Strategy[p].growBelow
        /\ c.growWait = 0 /\ fresh

LeaveIsAccepted(p) ==
    LET c == chain[p]
    IN  /\ c.state # "Away" /\ Retiring(p, limits, c.flagged)
        /\ c.sells => fresh

\* Protect lands at the target or with nothing left to sell, grow at the
\* target, leave repaid or part way: one that was left before has nothing
\* more to repay with.
AfterProtect(p) ==
    {[chain[p] EXCEPT !.ltv = d.ltv, !.sells = d.sells, !.protectWait = ProtectInterval] :
        d \in {x \in [ltv : LoanToValues, sells : BOOLEAN] :
                 /\ x.ltv <= chain[p].ltv
                 /\ x.ltv = Strategy[p].target \/ (~x.sells /\ x.ltv > Strategy[p].target)}}

AfterGrow(p) ==
    {[chain[p] EXCEPT !.ltv = Strategy[p].target, !.sells = TRUE, !.growWait = GrowInterval]}

AfterLeave(p) ==
    {d \in {Gone} : chain[p].state = "Open" \/ chain[p].ltv = 0}
    \cup {[chain[p] EXCEPT !.state = "Closing", !.ltv = l, !.sells = FALSE] :
             l \in {x \in LoanToValues : x <= chain[p].ltv}}

ProgramAccepts(p, kind) ==
    \/ kind = "protect" /\ ProtectIsAccepted(p)
    \/ kind = "grow" /\ GrowIsAccepted(p)
    \/ kind = "leave" /\ LeaveIsAccepted(p)

Outcomes(p, kind) ==
    CASE kind = "protect" -> AfterProtect(p)
      [] kind = "grow" -> AfterGrow(p)
      [] kind = "leave" -> AfterLeave(p)

Lands(p, kind) ==
    /\ ProgramAccepts(p, kind)
    /\ \E d \in Outcomes(p, kind) : chain' = [chain EXCEPT ![p] = d]

------------------------------------------------------------------------------
(* What moves the chain besides the keeper, external.                      *)

keeper == <<flights, phase, round, todo, call, faults>>

Prices(p) ==
    /\ "price" \in MayHappen[p]
    /\ chain[p].ltv > 0
    /\ \E l \in LoanToValues \ {chain[p].ltv} : chain' = [chain EXCEPT ![p].ltv = l]
    /\ UNCHANGED <<limits, fresh, keeper>>

\* The owner repays everything, or a liquidator does.
Cleared(p) ==
    /\ "clear" \in MayHappen[p]
    /\ chain[p].ltv > 0
    /\ chain' = [chain EXCEPT ![p].ltv = 0]
    /\ UNCHANGED <<limits, fresh, keeper>>

\* The owner opens a position or tops one up, or takes it out, by rescue while
\* it still owes.
OwnerActs(p) ==
    /\ \/ /\ chain[p].state = "Away" /\ ~limits.sunset
          /\ chain' = [chain EXCEPT ![p].state = "Open", ![p].ltv = Strategy[p].target,
                                    ![p].sells = TRUE]
       \/ /\ "top up" \in MayHappen[p]
          /\ chain[p].state = "Open" /\ ~chain[p].sells /\ ~limits.sunset
          /\ chain' = [chain EXCEPT ![p].ltv = Strategy[p].target, ![p].sells = TRUE]
       \/ /\ "close" \in MayHappen[p] /\ chain[p].state # "Away"
          /\ chain' = [chain EXCEPT ![p] = Gone]
       \/ /\ "rescue" \in MayHappen[p] /\ chain[p].state = "Open" /\ chain[p].ltv > 0
          /\ chain' = [chain EXCEPT ![p].state = "Closing", ![p].sells = FALSE]
    /\ UNCHANGED <<limits, fresh, keeper>>

MarketFlags(p) ==
    /\ "flag" \in MayHappen[p] /\ chain[p].state # "Away"
    /\ chain' = [chain EXCEPT ![p].flagged = ~@]
    /\ UNCHANGED <<limits, fresh, keeper>>

AdminActs ==
    /\ \/ "pause" \in AdminMay /\ limits' = [limits EXCEPT !.growPaused = ~@]
       \/ "retire" \in AdminMay /\ ~limits.sunset /\ limits' = [limits EXCEPT !.sunset = TRUE]
    /\ UNCHANGED <<chain, fresh, keeper>>

\* Anyone's keeper may call.
AnotherCalls(p, kind) ==
    /\ "others" \in MayHappen[p]
    /\ Lands(p, kind)
    /\ UNCHANGED <<limits, fresh, keeper>>

\* The clock, for the chain and, until the survey's own reading of it, for
\* what was listed.
Surveying == phase \in {"market", "destination"}
RunsDown(a) == [a EXCEPT !.protectWait = IF @ = 0 THEN 0 ELSE @ - 1,
                         !.growWait = IF @ = 0 THEN 0 ELSE @ - 1]
Tick ==
    /\ chain' = [p \in Positions |-> RunsDown(chain[p])]
    /\ round' = IF Surveying
                THEN [round EXCEPT !.listed = [p \in Positions |-> RunsDown(@[p])]]
                ELSE round
    /\ <<chain, round>>' # <<chain, round>>
    /\ UNCHANGED <<limits, fresh, flights, phase, todo, call, faults>>

Fault(n) == faults + n <= MaxFaults /\ faults' = faults + n

OracleStops ==
    /\ fresh /\ fresh' = FALSE /\ Fault(1)
    /\ UNCHANGED <<chain, limits, flights, phase, round, todo, call>>
OracleResumes ==
    /\ ~fresh /\ fresh' = TRUE
    /\ UNCHANGED <<chain, limits, keeper>>

------------------------------------------------------------------------------
(* A round: the survey (index.ts, survey.ts, positions.ts, market.ts).     *)

ReadConfig ==
    /\ phase = "config"
    /\ round' = [round EXCEPT !.limits = limits]
    /\ phase' = "listing"
    /\ UNCHANGED <<world, flights, todo, call, faults>>

OpenPositions == {p \in Positions : chain[p].state = "Open"}

LoadOpenPositions ==
    /\ phase = "listing"
    /\ round' = [round EXCEPT !.listed = [p \in Positions |->
                     IF p \in OpenPositions
                     THEN [protectWait |-> chain[p].protectWait, growWait |-> chain[p].growWait]
                     ELSE NotListed]]
    /\ todo' = OpenPositions
    /\ phase' = "market"
    /\ UNCHANGED <<world, flights, call, faults>>

\* A position that cannot be looked at is passed over.  Slip: it ends the
\* survey.
NobodyIsLeftToRead(p) == {}
LeftToRead(p) == todo \ {p}

\* An obligation that owes nothing names no reserve to refresh: it is recorded
\* as one the keeper could not look at.
ReadTheMarket(p) ==
    /\ phase = "market" /\ p \in todo
    /\ IF chain[p].ltv > 0
       THEN /\ round' = [round EXCEPT !.at = p,
                         !.seen[p] = [ltv |-> chain[p].ltv, flagged |-> chain[p].flagged,
                                      sells |-> FALSE, fresh |-> fresh]]
            /\ phase' = "destination"
            /\ UNCHANGED todo
       ELSE /\ todo' = LeftToRead(p)
            /\ UNCHANGED <<round, phase>>
    /\ UNCHANGED <<world, flights, call, faults>>

ReadTheDestination ==
    LET p == round.at
    IN  /\ phase = "destination"
        /\ round' = [round EXCEPT !.at = "nobody", !.seen[p].sells = chain[p].sells,
                                  !.seen[p].fresh = @ /\ fresh]
        /\ todo' = todo \ {p}
        /\ phase' = "market"
        /\ UNCHANGED <<world, flights, call, faults>>

\* A refresh that fails, or a yield token that cannot be read, costs the
\* position its turn.
CouldNotLook(p) ==
    /\ Surveying /\ p \in todo /\ round.at \in {p, "nobody"}
    /\ Fault(1)
    /\ round' = [round EXCEPT !.at = "nobody", !.seen[p] = NotSeen]
    /\ todo' = LeftToRead(p)
    /\ phase' = "market"
    /\ UNCHANGED <<world, flights, call>>

Candidates == {p \in Positions : round.seen[p].ltv > 0}

EndSurvey ==
    /\ phase = "market" /\ todo = {}
    /\ todo' = Candidates
    /\ round' = [round EXCEPT !.watches = Candidates # {}]
    /\ phase' = "acting"
    /\ UNCHANGED <<world, flights, call, faults>>

------------------------------------------------------------------------------
(* A round: the decisions and the calls (decide.ts, loop.ts,               *)
(* transaction.ts).                                                        *)

\* A retiring program hands every position back; the market's flag those that
\* asked for it.  Slip: the flag alone.
OnlyTheMarketHandsBack(p, r, l) == Strategy[p].exitOnFlag /\ r.flagged
IsHandedBack(p, r, l) == l.sunset \/ (Strategy[p].exitOnFlag /\ r.flagged)

\* Slip: the interval is not asked for.
ProtectsWhenever(listed) == TRUE
MayProtectAgain(listed) == listed.protectWait = 0

decideWhatToDo(p) ==
    LET r == round.seen[p]
        s == Strategy[p]
        listed == round.listed[p]
        low == r.ltv <= s.growBelow
        l == round.limits
    IN  CASE r.ltv >= s.protect ->
               IF r.fresh /\ r.sells /\ MayProtectAgain(listed) THEN "protect" ELSE "wait"
          [] low /\ l.growPaused -> "wait"
          [] low /\ ~l.growPaused /\ s.growEnabled ->
               IF r.fresh /\ listed.growWait = 0 THEN "grow" ELSE "wait"
          [] OTHER ->
               IF IsHandedBack(p, r, l) /\ (r.sells => r.fresh) THEN "leave" ELSE "wait"

mostStretchedFirst(p) ==
    p \in todo /\ \A q \in todo : round.seen[q].ltv <= round.seen[p].ltv

\* One position after the other: whatever became of this one, the rest are due.
\* Slip: a failure ends the round.
NobodyIsDueAfter(p) == {}
DueAfter(p) == todo \ {p}
Done(p) == round' = [round EXCEPT !.seen[p] = NotSeen, !.listed[p] = NotListed]

IsAWait(decision) == decision = "wait"

\* A wait is recorded and nothing else.
Waits(p) ==
    /\ phase = "acting" /\ mostStretchedFirst(p)
    /\ IsAWait(decideWhatToDo(p))
    /\ todo' = todo \ {p} /\ Done(p)
    /\ UNCHANGED <<world, flights, phase, call, faults>>

NeedsARoute(p, kind) == kind # "leave" \/ round.seen[p].sells

\* One call at a time: the next waits for the status of this one.  Slip: it is
\* sent and left to itself.
LeftToItself == "acting"
AwaitsItsStatus == "awaiting"

Stuck(p) == p \in Unroutable /\ NeedsARoute(p, decideWhatToDo(p))

\* The router has no route, or a read fails: recorded as reverted.
CannotBuild(p) ==
    /\ phase = "acting" /\ mostStretchedFirst(p)
    /\ ~IsAWait(decideWhatToDo(p))
    /\ IF Stuck(p) THEN UNCHANGED faults ELSE Fault(1)
    /\ todo' = DueAfter(p) /\ Done(p)
    /\ UNCHANGED <<world, flights, phase, call>>

Sends(p) ==
    LET kind == decideWhatToDo(p)
        c == [of |-> p, kind |-> kind, late |-> FALSE]
    IN  /\ phase = "acting" /\ mostStretchedFirst(p)
        /\ ~IsAWait(kind)
        /\ ~Stuck(p)
        /\ flights' = flights \cup {c}
        /\ call' = [of |-> p, kind |-> kind, result |-> "sent"]
        /\ phase' = AwaitsItsStatus /\ Done(p)
        /\ UNCHANGED <<world, todo, faults>>

\* The chain runs a call it was sent, in its own time, and refuses it if the
\* program does or, a fault, if the swap misses its minimum.
Executes(c) ==
    /\ c \in flights
    /\ flights' = flights \ {c}
    /\ \/ /\ Lands(c.of, c.kind)
          /\ call' = IF c.late THEN call ELSE [call EXCEPT !.result = "landed"]
          /\ UNCHANGED faults
       \/ /\ IF ProgramAccepts(c.of, c.kind) THEN Fault(1) ELSE UNCHANGED faults
          /\ call' = IF c.late THEN call ELSE [call EXCEPT !.result = "refused"]
          /\ UNCHANGED chain
    /\ UNCHANGED <<limits, fresh, phase, round, todo>>

\* A transaction past its blockhash is never run.
Expires(c) ==
    /\ c \in flights /\ c.late
    /\ flights' = flights \ {c}
    /\ UNCHANGED <<world, phase, round, todo, call, faults>>

Overdue == {[c EXCEPT !.late = TRUE] : c \in flights}

\* The status is read and the run recorded.
Records ==
    /\ phase = "awaiting" /\ call.result \in {"landed", "refused"}
    /\ call' = NoCall
    /\ todo' = IF call.result = "landed" THEN todo \ {call.of} ELSE DueAfter(call.of)
    /\ phase' = "acting"
    /\ UNCHANGED <<world, flights, round, faults>>

\* Reading the status fails or takes too long: recorded as reverted, though
\* the chain may still run the call or have run it.
GivesUpOnTheCall ==
    /\ phase = "awaiting" /\ Fault(1)
    /\ flights' = Overdue
    /\ call' = NoCall
    /\ todo' = DueAfter(call.of)
    /\ phase' = "acting"
    /\ UNCHANGED <<world, round>>

EndRound ==
    /\ phase = "acting" /\ todo = {}
    /\ phase' = IF round.watches THEN "watching" ELSE "resting"
    /\ round' = NoRound
    /\ UNCHANGED <<world, flights, todo, call, faults>>

\* The interval is over or a price crossed a guard level.
WakesUp ==
    /\ phase \in {"resting", "watching"}
    /\ phase' = "config"
    /\ UNCHANGED <<world, flights, round, todo, call, faults>>

\* A read or a record that fails outside the catch of a single position ends
\* the round, with nothing to watch until the next.  A market read that fails is
\* caught, so its record has to fail as well, which one that owes nothing needs
\* anyway.  A call that was not refused is recorded a second time, as reverted,
\* if the first record fails.
FaultsThatEndTheRound ==
    CASE phase = "market" -> IF \E p \in todo : chain[p].ltv = 0 THEN 1 ELSE 2
      [] phase = "acting" ->
           IF \E p \in todo : mostStretchedFirst(p) /\ ~IsAWait(decideWhatToDo(p)) /\ ~Stuck(p)
           THEN 2 ELSE 1
      [] phase = "awaiting" -> IF call.result = "refused" THEN 1 ELSE 2
      [] OTHER -> 1
RoundFails ==
    /\ \/ phase \in {"config", "listing", "destination", "awaiting"}
       \/ phase \in {"market", "acting"} /\ todo # {}
    /\ Fault(FaultsThatEndTheRound)
    /\ phase' = "resting"
    /\ round' = NoRound /\ todo' = {} /\ call' = NoCall
    /\ flights' = Overdue
    /\ UNCHANGED world

\* A price that cannot be read while watching is caught nowhere and ends the
\* process; somebody starts it again.
WatchFails ==
    /\ phase = "watching" /\ Fault(1)
    /\ phase' = "stopped"
    /\ UNCHANGED <<world, flights, round, todo, call>>
Restarts ==
    /\ phase = "stopped"
    /\ phase' = "config"
    /\ UNCHANGED <<world, flights, round, todo, call, faults>>

------------------------------------------------------------------------------
Init ==
    /\ chain = [p \in Positions |-> Gone]
    /\ limits = [growPaused |-> FALSE, sunset |-> FALSE]
    /\ fresh = TRUE
    /\ flights = {} /\ phase = "config" /\ round = NoRound
    /\ todo = {} /\ call = NoCall /\ faults = 0

World ==
    \/ \E p \in Positions : Prices(p) \/ Cleared(p) \/ OwnerActs(p) \/ MarketFlags(p)
    \/ \E p \in Positions, kind \in Kinds : AnotherCalls(p, kind)
    \/ AdminActs \/ OracleStops \/ OracleResumes \/ Tick

\* What the process does while nothing goes wrong.
KeeperGoesOn ==
    \/ ReadConfig \/ LoadOpenPositions \/ ReadTheDestination \/ EndSurvey
    \/ \E p \in Positions : ReadTheMarket(p) \/ Waits(p) \/ CannotBuild(p) \/ Sends(p)
    \/ Records \/ EndRound \/ WakesUp

Failures ==
    \/ \E p \in Positions : CouldNotLook(p)
    \/ GivesUpOnTheCall \/ RoundFails \/ WatchFails

Next ==
    \/ World
    \/ KeeperGoesOn \/ Failures \/ Restarts
    \/ \E c \in flights : Executes(c) \/ Expires(c)

Spec == Init /\ [][Next]_vars

\* The process runs, a call sent in time is run or refused by the chain, the
\* clock and the oracle go on, and a process that ended is started again.
Fairness ==
    /\ WF_vars(KeeperGoesOn)
    /\ WF_vars(\E c \in flights : ~c.late /\ Executes(c))
    /\ WF_vars(Tick)
    /\ WF_vars(OracleResumes)
    /\ WF_vars(Restarts)

FairSpec == Spec /\ Fairness

------------------------------------------------------------------------------
(* Properties.                                                             *)

Reading == [ltv : LoanToValues \cup {0}, flagged : BOOLEAN, sells : BOOLEAN, fresh : BOOLEAN]
Call == [of : Positions, kind : Kinds, late : BOOLEAN]

\* Every variable holds a value of its type.
TypeOK ==
    /\ chain \in [Positions -> Account]
    /\ limits \in LimitsType /\ fresh \in BOOLEAN
    /\ flights \subseteq Call
    /\ phase \in {"config", "listing", "market", "destination", "acting", "awaiting",
                  "resting", "watching", "stopped"}
    /\ round.limits \in LimitsType
    /\ round.listed \in [Positions -> [protectWait : 0..ProtectInterval, growWait : 0..GrowInterval]]
    /\ round.at \in Positions \cup {"nobody"}
    /\ round.seen \in [Positions -> Reading]
    /\ todo \subseteq Positions
    /\ call \in [of : Positions, kind : Kinds, result : {"sent", "landed", "refused"}] \cup {NoCall}
    /\ faults \in 0..MaxFaults

\* The keeper has one call under way at most and knows which; whatever else the
\* chain may still run was given up on, and cost a failure each.
CallsAreAccountedFor ==
    /\ \A c \in flights : ~c.late =>
          phase = "awaiting" /\ call = [of |-> c.of, kind |-> c.kind, result |-> "sent"]
    /\ Cardinality({c \in flights : c.late}) <= faults

\* A round that was not cut short by a failure decided on every position it had
\* got a reading of, whatever became of the calls on the others.
EverybodySeenIsDecidedOn ==
    [][phase = "acting" /\ phase' # "awaiting" /\ phase' # phase /\ faults' = faults
         => \A p \in Positions : round.seen[p] = NotSeen]_vars

\* Only the clock went on since the position was read.
NothingMovedSince(p) ==
    /\ chain[p].state = "Open" /\ round.limits = limits
    /\ round.seen[p] = [ltv |-> chain[p].ltv, flagged |-> chain[p].flagged,
                        sells |-> chain[p].sells, fresh |-> fresh]
    /\ chain[p].protectWait <= round.listed[p].protectWait
    /\ chain[p].growWait <= round.listed[p].growWait

\* The keeper's copy of the program's conditions agrees with the program: where
\* nothing moved the program accepts what the keeper sends, and where the keeper
\* waits there is nothing it accepts, but for an interval that has run out since
\* or is waived, and leaving from beyond a level.
DecidesAsTheProgramJudges ==
    phase = "acting" => \A p \in todo : NothingMovedSince(p) =>
        IF IsAWait(decideWhatToDo(p))
        THEN /\ ProtectIsAccepted(p) => round.listed[p].protectWait > 0
             /\ GrowIsAccepted(p) => round.listed[p].growWait > 0
             /\ LeaveIsAccepted(p) => \/ chain[p].ltv <= Strategy[p].growBelow
                                     \/ chain[p].ltv >= Strategy[p].protect
        ELSE ProgramAccepts(p, decideWhatToDo(p))

NeedsTheGuard(p) ==
    /\ chain[p].state = "Open" /\ chain[p].sells
    /\ chain[p].ltv >= Strategy[p].protect

MayGrow(p) ==
    /\ chain[p].state = "Open" /\ Strategy[p].growEnabled /\ ~limits.growPaused
    /\ chain[p].ltv > 0 /\ chain[p].ltv <= Strategy[p].growBelow

IsBeingLeft(p) ==
    /\ chain[p].state = "Open" /\ Retiring(p, limits, chain[p].flagged)
    /\ chain[p].ltv > Strategy[p].growBelow /\ chain[p].ltv < Strategy[p].protect

\* A position past its guard level with something to sell does not stay there:
\* whatever failed before, whatever the other positions need, the keeper gets
\* round to it once things stop failing.
GuardReachesEveryone ==
    \A p \in Positions \ Unroutable : NeedsTheGuard(p) ~> ~NeedsTheGuard(p)

\* Nor does one with room to grow.
GrowthReachesEveryone ==
    \A p \in Positions \ Unroutable : MayGrow(p) ~> ~MayGrow(p)

\* Nor does one between its levels that the market or the admin asks to leave.
LeaveReachesEveryone ==
    \A p \in Positions \ Unroutable : IsBeingLeft(p) ~> ~IsBeingLeft(p)
==============================================================================
