------------------------------ MODULE RescuePage ------------------------------
(***************************************************************************)
(* The rescue page (apps/rescue) in front of one position.  The page finds *)
(* the position, plans how to hand it back and close it, and has the owner *)
(* sign one transaction after the other.  The position is the one of       *)
(* PositionLifecycle, which AccruePosition implements: whatever others may *)
(* do to it meanwhile is any step of that.  Each await of the page's is a  *)
(* step; a card that is no longer shown goes on with what it began.        *)
(***************************************************************************)
EXTENDS PositionLifecycle, Naturals, Sequences, FiniteSets

CONSTANTS
    \* The networks, the one the position is on, and those with a lookup table.
    Clusters, Home, WithTable,
    \* The nodes an owner may name, the one the page offers for each network,
    \* and the nodes that take transactions of four kilobytes.
    Endpoints, OfferedFor, ClusterOf, Roomy,
    \* The steps that fit in the old size only with the help of a table.
    Large,
    \* Whether the wallet reads version one.
    WalletReadsVersionOne,
    \* Room for cards, and the bounds of an instance: what the owner chooses,
    \* what others do to the position, calls that go wrong.
    Cards, MaxChoices, MaxMoves, MaxFaults

ASSUME RescuePageAssumption ==
    /\ Home \in Clusters /\ WithTable \subseteq Clusters /\ Roomy \subseteq Endpoints
    /\ OfferedFor \in [Clusters -> Endpoints] /\ ClusterOf \in [Endpoints -> Clusters]
    /\ WalletReadsVersionOne \in BOOLEAN
    /\ MaxChoices \in Nat /\ MaxMoves \in Nat /\ MaxFaults \in Nat

VARIABLES
    chosen,    \* the network in the list, and what is in the endpoint field
    endpoint,
    connected, \* whether a wallet answered
    looking,   \* the readings of positions under way: the endpoint each asks
    remembers, \* theEndpointTakesFourKilobytes: "unasked", "yes" or "no"
    card,      \* the cards, shown or replaced, and what each is doing
    strays,    \* steps sent that no card waits for any longer
    bounds     \* choices, moves and faults so far

pageVars == <<chosen, endpoint, connected, looking, remembers, card, strays, bounds>>
rescueVars == <<lifecycle, pageVars>>

States == {"None", "AwaitingSwap", "Open", "Closing", "Closed"}
Kinds == {"rescue", "repay", "close"}
Slots == {"connect", "choice", "nextChoice"}
NoCard == [at |-> "absent", shown |-> FALSE, via |-> OfferedFor[Home], right |-> FALSE,
           owed |-> FALSE, step |-> 0, version |-> 1, tx |-> "none", says |-> "nothing"]
AtRest(says) == [NoCard EXCEPT !.at = "rest", !.shown = TRUE, !.says = says]

Counts(what, most) == bounds[what] < most /\ bounds' = [bounds EXCEPT ![what] = @ + 1]
Wrong == Counts("faults", MaxFaults)

------------------------------------------------------------------------------
(* The position, as each step of a plan finds and leaves it.               *)

Can(kind) ==
    CASE kind = "rescue" -> state # "None"
      [] kind = "repay" -> state \notin {"None", "Closed"} /\ indebted
      [] kind = "close" -> state # "None" /\ ~indebted /\ ~funded

Does(kind) ==
    CASE kind = "rescue" /\ indebted ->
            state' = "Closing" /\ indebted' = TRUE /\ funded' \in {FALSE, funded}
      [] kind = "rescue" /\ ~indebted ->
            state' = "Closed" /\ indebted' = FALSE /\ funded' = FALSE
      [] kind = "repay" -> indebted' = FALSE /\ UNCHANGED <<state, funded>>
      [] kind = "close" -> state' = "None" /\ UNCHANGED <<indebted, funded>>

\* The owner elsewhere, the keepers and the market.
OthersMove ==
    /\ Counts("moves", MaxMoves)
    /\ state' \in States /\ indebted' \in BOOLEAN /\ funded' \in BOOLEAN
    /\ Run \/ HandBack \/ Settle \/ Finish \/ Delete
    /\ UNCHANGED <<chosen, endpoint, connected, looking, remembers, card, strays>>

------------------------------------------------------------------------------
(* Which cards are shown.                                                  *)

\* A list is asked for: what is shown goes, what is under way goes on unseen.
LookFor(slot, at) ==
    /\ looking[slot] = "nothing"
    /\ looking' = [looking EXCEPT ![slot] = at]
    /\ card' = [c \in Cards |-> IF card[c].at = "rest" THEN NoCard
                                ELSE [card[c] EXCEPT !.shown = FALSE]]
    /\ Cardinality({c \in Cards : card'[c].at = "absent"})
         >= Cardinality({s \in Slots : looking'[s] # "nothing"})

\* The button is disabled until its list is there.
Connect ==
    /\ LookFor("connect", endpoint)
    /\ connected' = TRUE
    /\ UNCHANGED <<chosen, endpoint, remembers, strays>>

Choose(cluster) ==
    /\ cluster # chosen
    /\ chosen' = cluster /\ endpoint' = OfferedFor[cluster]
    /\ IF connected THEN \E slot \in {"choice", "nextChoice"} : LookFor(slot, OfferedFor[cluster])
       ELSE UNCHANGED <<looking, card>>
    /\ UNCHANGED <<connected, remembers, strays>>

\* Typed over: nothing is read again.
NameAnEndpoint(other) ==
    /\ other # endpoint /\ endpoint' = other
    /\ UNCHANGED <<chosen, connected, looking, remembers, card, strays>>

OwnerChooses ==
    /\ Counts("choices", MaxChoices)
    /\ \/ Connect
       \/ \E cluster \in Clusters : Choose(cluster)
       \/ \E other \in Endpoints : NameAnEndpoint(other)
    /\ UNCHANGED lifecycle

\* One card for the position if it is there; no card when the reading fails.
\* A reading that was overtaken adds its card all the same.
List(slot) ==
    LET found == state # "None" /\ ClusterOf[looking[slot]] = Home
    IN  /\ looking[slot] # "nothing"
        /\ looking' = [looking EXCEPT ![slot] = "nothing"]
        /\ \/ /\ found /\ UNCHANGED bounds
              /\ \E c \in Cards : /\ card[c].at = "absent"
                                  /\ card' = [card EXCEPT ![c] = AtRest("nothing")]
           \/ ~found /\ UNCHANGED <<card, bounds>>
           \/ Wrong /\ UNCHANGED card
        /\ UNCHANGED <<lifecycle, chosen, endpoint, connected, remembers, strays>>

------------------------------------------------------------------------------
(* What a card does once its button is pressed.                            *)

Moves(c, changed) ==
    /\ card' = [card EXCEPT ![c] = changed]
    /\ UNCHANGED <<chosen, endpoint, connected, looking>>

\* The obligation of another network, or of another lending program, is not
\* found where the plan looks for it.
Press(c) ==
    /\ card[c].shown /\ card[c].at = "rest" /\ connected
    /\ Moves(c, [card[c] EXCEPT !.at = "planning", !.via = endpoint, !.right = (chosen = Home)])
    /\ UNCHANGED <<lifecycle, remembers, strays, bounds>>

\* Slip: nothing is settled unless there is a loan to settle.
PlanUnlessNothingOwed(owed) ==
    IF owed THEN <<"rescue", "repay", "rescue", "close">> ELSE <<"rescue">>
Plan(owed) ==
    IF owed THEN <<"rescue", "repay", "rescue", "close">> ELSE <<"rescue", "rescue", "close">>
Kind(c) == Plan(card[c].owed)[card[c].step]

Over(c, says) == IF card[c].shown THEN AtRest(says) ELSE NoCard

\* Before the first rescue is confirmed nothing is; after it the tokens are back
\* whatever becomes of the loan.
WhatItSays(c) ==
    IF card[c].step <= 1 THEN "failed" ELSE IF card[c].owed THEN "owed" ELSE "returned"
Fails(c) == Moves(c, Over(c, WhatItSays(c)))

MakePlan(c) ==
    /\ card[c].at = "planning"
    /\ \/ /\ ClusterOf[card[c].via] = Home
          /\ Moves(c, [card[c] EXCEPT !.at = "compiling", !.owed = indebted, !.step = 1])
          /\ UNCHANGED bounds
       \/ ClusterOf[card[c].via] # Home /\ Fails(c) /\ UNCHANGED bounds
       \/ Wrong /\ Fails(c)
    /\ UNCHANGED <<lifecycle, remembers, strays>>

\* endpointAcceptsVersionOne: any answer but "too large" is a yes, no answer
\* too, and it is never asked again.
Answers(c) ==
    \/ remembers # "unasked" /\ UNCHANGED <<remembers, bounds>>
    \/ /\ remembers = "unasked" /\ UNCHANGED bounds
       /\ remembers' = IF card[c].via \in Roomy THEN "yes" ELSE "no"
    \/ remembers = "unasked" /\ Wrong /\ remembers' = "yes"

\* The table is the one of the network chosen by now, read from the node the
\* plan was made with.
TableIsThere(c) == chosen \in WithTable /\ chosen = ClusterOf[card[c].via]

\* compileTheFirstThatFits.  The page does not tell it what the wallet reads.
Compile(c) ==
    /\ card[c].at = "compiling"
    /\ \/ /\ Answers(c)
          /\ \/ /\ Kind(c) \notin Large \/ remembers' = "yes"
                /\ Moves(c, [card[c] EXCEPT !.at = "signing", !.version = 1])
             \/ /\ Kind(c) \in Large /\ remembers' = "no" /\ TableIsThere(c)
                /\ Moves(c, [card[c] EXCEPT !.at = "signing", !.version = 0])
             \/ /\ Kind(c) \in Large /\ remembers' = "no" /\ ~TableIsThere(c)
                /\ Fails(c)
       \/ Wrong /\ Fails(c) /\ UNCHANGED remembers
    /\ UNCHANGED <<lifecycle, strays>>

\* What the wallet signs and the node's preflight lets through.
GoesOut(c) ==
    /\ card[c].version = 1 => WalletReadsVersionOne
    /\ (Kind(c) \in Large /\ card[c].version = 1) => card[c].via \in Roomy
    /\ card[c].right
    /\ Can(Kind(c))

Send(c) ==
    /\ card[c].at = "signing"
    /\ \/ /\ GoesOut(c) /\ UNCHANGED bounds
          /\ Moves(c, [card[c] EXCEPT !.at = "waiting", !.tx = "sent"])
       \/ ~GoesOut(c) /\ Fails(c) /\ UNCHANGED bounds
       \/ Wrong /\ Fails(c)
    /\ UNCHANGED <<lifecycle, remembers, strays>>

\* The chain takes what was sent, or finds that it no longer applies, or the
\* blockhash runs out first.
Land(c) ==
    /\ card[c].tx = "sent"
    /\ IF Can(Kind(c)) THEN Does(Kind(c)) ELSE UNCHANGED lifecycle
    /\ Moves(c, [card[c] EXCEPT !.tx = IF Can(Kind(c)) THEN "landed" ELSE "refused"])
    /\ UNCHANGED <<remembers, strays, bounds>>

LandStray(kind) ==
    /\ kind \in strays
    /\ Can(kind) /\ Does(kind)
    /\ strays' \in {strays, strays \ {kind}}
    /\ Counts("moves", MaxMoves)
    /\ UNCHANGED <<chosen, endpoint, connected, looking, remembers, card>>

Expire(c) ==
    /\ card[c].tx = "sent" /\ Wrong
    /\ Moves(c, [card[c] EXCEPT !.tx = "lost"])
    /\ UNCHANGED <<lifecycle, remembers, strays>>

\* Slip: a signature without an error is taken for a transaction that landed.
ConfirmsUnlessRefused(c) == card[c].tx \in {"sent", "landed"}
Confirms(c) == card[c].tx = "landed"

\* waitForIt returns: on to the next step, or all are done.
Confirmed(c) ==
    /\ card[c].at = "waiting" /\ Confirms(c)
    /\ Moves(c, IF card[c].step = Len(Plan(card[c].owed)) THEN Over(c, "done")
                ELSE [card[c] EXCEPT !.at = "compiling", !.step = @ + 1, !.tx = "none",
                                     !.says = IF card[c].step = 1 THEN "returned" ELSE @])
    /\ UNCHANGED <<lifecycle, remembers, strays, bounds>>

\* waitForIt throws: it was refused, the minute is over, or the node did not
\* answer; what is still on its way may land with nobody waiting.
NotConfirmed(c) ==
    /\ card[c].at = "waiting"
    /\ \/ card[c].tx \in {"refused", "lost"} /\ UNCHANGED bounds
       \/ Wrong
    /\ Fails(c)
    /\ strays' = strays \cup (IF card[c].tx = "sent" THEN {Kind(c)} ELSE {})
    /\ UNCHANGED <<lifecycle, remembers>>

------------------------------------------------------------------------------
RescueInit ==
    /\ state \in States \ {"None"}
    /\ indebted \in BOOLEAN /\ funded \in BOOLEAN
    /\ state = "Closed" => ~indebted /\ ~funded
    /\ chosen \in Clusters /\ endpoint = OfferedFor[chosen]
    /\ connected = FALSE
    /\ looking = [slot \in Slots |-> "nothing"]
    /\ remembers = "unasked"
    /\ card = [c \in Cards |-> NoCard]
    /\ strays = {}
    /\ bounds = [choices |-> 0, moves |-> 0, faults |-> 0]

CardSteps(c) ==
    MakePlan(c) \/ Compile(c) \/ Send(c) \/ Confirmed(c) \/ NotConfirmed(c)

\* An owner who wants out: on the network the position is on, and looking again
\* whenever there is no card to press.
NoCardToPress ==
    /\ \A c \in Cards : card[c].at = "absent"
    /\ \A slot \in Slots : looking[slot] = "nothing"
OwnerGoesHome ==
    /\ \/ chosen # Home /\ Choose(Home)
       \/ chosen = Home /\ ClusterOf[endpoint] # Home /\ NameAnEndpoint(OfferedFor[Home])
       \/ chosen = Home /\ ClusterOf[endpoint] = Home /\ NoCardToPress /\ Connect
    /\ UNCHANGED <<lifecycle, bounds>>

RescueNext ==
    \/ OthersMove
    \/ OwnerChooses
    \/ OwnerGoesHome
    \/ \E slot \in Slots : List(slot)
    \/ \E c \in Cards : Press(c) \/ CardSteps(c) \/ Land(c) \/ Expire(c)
    \/ \E kind \in Kinds : LandStray(kind)

RescueSpec == RescueInit /\ [][RescueNext]_rescueVars

\* The page goes on with what it began, the chain takes or drops what it was
\* sent, and an owner who still has a position presses on.
RescueFairness ==
    /\ WF_rescueVars(OwnerGoesHome)
    /\ \A slot \in Slots : WF_rescueVars(List(slot))
    /\ \A c \in Cards : /\ WF_rescueVars(Press(c)) /\ WF_rescueVars(CardSteps(c))
                        /\ WF_rescueVars(Land(c))

FairRescueSpec == RescueSpec /\ RescueFairness

------------------------------------------------------------------------------
(* Properties.                                                             *)

HandedBack == state \in {"Closing", "Closed", "None"}

CardType ==
    [at : {"absent", "rest", "planning", "compiling", "signing", "waiting"},
     shown : BOOLEAN, via : Endpoints, right : BOOLEAN, owed : BOOLEAN,
     step : 0..4, version : {0, 1}, tx : {"none", "sent", "landed", "refused", "lost"},
     says : {"nothing", "failed", "returned", "owed", "done"}]

\* The types of the variables.
RescueTypeOK ==
    /\ state \in States
    /\ indebted \in BOOLEAN /\ funded \in BOOLEAN
    /\ chosen \in Clusters /\ endpoint \in Endpoints /\ connected \in BOOLEAN
    /\ looking \in [Slots -> Endpoints \cup {"nothing"}]
    /\ remembers \in {"unasked", "yes", "no"}
    /\ card \in [Cards -> CardType]
    /\ strays \subseteq Kinds
    /\ bounds \in [choices : 0..MaxChoices, moves : 0..MaxMoves, faults : 0..MaxFaults]

\* What a card says is so: tokens that are said to be back are back for good,
\* and a position said to be closed is gone.  The owner is asked for nothing
\* before the tokens are back, also when another card or somebody else is at
\* the same position.
SaysWhatHappened ==
    \A c \in Cards :
        /\ card[c].says \in {"returned", "owed"} \/ card[c].step > 1 => HandedBack
        /\ card[c].says = "done" => state = "None"

\* An owner who presses on gets the position off the chain, whatever the page,
\* the node and others did before, unless the page remembers of a node what is
\* not so of it.
RemembersWrongly == remembers = "yes" /\ endpoint \notin Roomy
AllComesHome == <>(state = "None") \/ <>[]RemembersWrongly
==============================================================================
