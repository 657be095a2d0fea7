--------------------------- MODULE RescuePageProofs ---------------------------
(***************************************************************************)
(* That what a card of the rescue page says is so, for any number of cards *)
(* and nodes, and whatever a program that keeps PositionLifecycle does to  *)
(* the position.  A handed back position is never taken back, and a card   *)
(* is past its first step only once a rescue of its own has landed.        *)
(***************************************************************************)
EXTENDS RescuePage, TLAPS

Back == {"Closing", "Closed", "None"}
Says == {"nothing", "failed", "returned", "owed", "done"}

\* A card r while the position is in state s: what it says is so, what it waits
\* for is a step of its plan, and what of that landed has left its mark.
Good(r, s) ==
    /\ r \in CardType
    /\ r.says \in {"returned", "owed"} \/ r.step > 1 => s \in Back
    /\ r.says = "done" => s = "None"
    /\ r.at \in {"compiling", "signing", "waiting"} => r.step \in 1..Len(Plan(r.owed))
    /\ r.tx # "none" => r.at = "waiting"
    /\ r.tx = "landed" =>
          s \in Back /\ (r.step = Len(Plan(r.owed)) => s = "None")

SaysInv ==
    /\ RescueTypeOK
    /\ \A c \in Cards : Good(card[c], state)

\* The position may move on, but what was handed back stays so.
Onward ==
    /\ state' \in States /\ indebted' \in BOOLEAN /\ funded' \in BOOLEAN
    /\ state \in Back => state' \in Back
    /\ state = "None" => state' = "None"

------------------------------------------------------------------------------
\* The plans: three steps or four, the first a rescue and the last the close.
LEMMA ThePlans ==
    ASSUME NEW owed \in BOOLEAN
    PROVE  /\ Len(Plan(owed)) \in {3, 4}
           /\ Plan(owed)[1] = "rescue" /\ Plan(owed)[Len(Plan(owed))] = "close"
           /\ \A n \in 1..Len(Plan(owed)) : Plan(owed)[n] \in Kinds
  <1>1. CASE owed = TRUE
    BY <1>1 DEF Plan, Kinds
  <1>2. CASE owed = FALSE
    BY <1>2 DEF Plan, Kinds
  <1> QED BY <1>1, <1>2

\* A card that is not there, and one that came to rest.
LEMMA TheCards ==
    /\ \A s \in States : Good(NoCard, s)
    /\ \A says \in Says, s \in States :
          /\ says \in {"returned", "owed"} => s \in Back
          /\ says = "done" => s = "None"
          => Good(AtRest(says), s)
  <1>1. OfferedFor[Home] \in Endpoints
    BY RescuePageAssumption
  <1>2. NoCard \in CardType /\ NoCard.at = "absent" /\ NoCard.step = 0
        /\ NoCard.tx = "none" /\ NoCard.says = "nothing"
    BY <1>1 DEF NoCard, CardType
  <1>3. ASSUME NEW says \in Says
        PROVE  /\ AtRest(says) \in CardType /\ AtRest(says).at = "rest"
               /\ AtRest(says).step = 0 /\ AtRest(says).tx = "none"
               /\ AtRest(says).says = says
    BY <1>2, <1>3 DEF AtRest, CardType, Says
  <1>4. ASSUME NEW s \in States PROVE Good(NoCard, s)
    BY <1>2 DEF Good
  <1>5. ASSUME NEW says \in Says, NEW s \in States,
               says \in {"returned", "owed"} => s \in Back, says = "done" => s = "None"
        PROVE  Good(AtRest(says), s)
    BY <1>3, <1>5 DEF Good
  <1> QED BY <1>4, <1>5

\* What is good of a card stays good while the position moves on.
LEMMA StaysGood ==
    ASSUME NEW r, Good(r, state), Onward
    PROVE  Good(r, state')
  BY DEF Good, Onward

\* A step that lands moves the position on: a rescue hands it back, a close
\* takes it away.
LEMMA WhatLands ==
    ASSUME RescueTypeOK, NEW kind \in Kinds, Can(kind), Does(kind)
    PROVE  /\ Onward
           /\ kind = "rescue" => state' \in Back
           /\ kind = "close" => state' = "None"
  <1>1. CASE kind = "rescue"
    BY <1>1 DEF Does, Can, RescueTypeOK, States, Onward, Back
  <1>2. CASE kind = "repay"
    BY <1>2 DEF Does, Can, RescueTypeOK, States, Onward, Back
  <1>3. CASE kind = "close"
    BY <1>3 DEF Does, Can, RescueTypeOK, States, Onward, Back
  <1> QED BY <1>1, <1>2, <1>3 DEF Kinds

\* So do the others: what PositionLifecycle allows once the position began.
LEMMA OthersMoveOn ==
    ASSUME RescueTypeOK, OthersMove
    PROVE  Onward
  BY DEF OthersMove, Run, HandBack, Settle, Finish, Delete, RescueTypeOK, States, Onward, Back

\* The counters stay within their bounds.
LEMMA Counted ==
    ASSUME RescueTypeOK,
           Counts("choices", MaxChoices) \/ Counts("moves", MaxMoves) \/ Wrong
    PROVE  bounds' \in [choices : 0..MaxChoices, moves : 0..MaxMoves, faults : 0..MaxFaults]
  <1> USE RescuePageAssumption DEF RescueTypeOK, Counts
  <1>1. CASE Counts("choices", MaxChoices)
    BY <1>1
  <1>2. CASE Counts("moves", MaxMoves)
    BY <1>2
  <1>3. CASE Wrong
    BY <1>3 DEF Wrong
  <1> QED BY <1>1, <1>2, <1>3

\* A step that changes no more than one card, to a good one.
LEMMA OneCardMoves ==
    ASSUME SaysInv, Onward, NEW c \in Cards, NEW changed,
           Moves(c, changed), Good(changed, state'),
           remembers' \in {"unasked", "yes", "no"}, strays' \subseteq Kinds,
           bounds' \in [choices : 0..MaxChoices, moves : 0..MaxMoves, faults : 0..MaxFaults]
    PROVE  SaysInv'
  <1>1. card' \in [Cards -> CardType]
    BY DEF SaysInv, RescueTypeOK, Moves, Good
  <1>2. RescueTypeOK'
    BY <1>1 DEF SaysInv, RescueTypeOK, Moves, Onward
  <1>3. ASSUME NEW d \in Cards PROVE Good(card'[d], state')
    <2>1. Good(card[d], state') BY StaysGood DEF SaysInv
    <2>2. card'[d] = IF d = c THEN changed ELSE card[d]
      BY DEF Moves, SaysInv, RescueTypeOK
    <2> QED BY <2>1, <2>2
  <1> QED BY <1>2, <1>3 DEF SaysInv

\* What a failure says is so.
LEMMA FailuresAreSo ==
    ASSUME SaysInv, UNCHANGED lifecycle, NEW c \in Cards
    PROVE  Good(Over(c, WhatItSays(c)), state')
  <1>1. WhatItSays(c) \in Says /\ (WhatItSays(c) \in {"returned", "owed"} => card[c].step > 1)
        /\ WhatItSays(c) # "done"
    BY DEF SaysInv, RescueTypeOK, CardType, WhatItSays, Says
  <1>2. WhatItSays(c) \in {"returned", "owed"} => state \in Back
    BY <1>1 DEF SaysInv, Good
  <1>3. state' = state /\ state \in States
    BY DEF lifecycle, SaysInv, RescueTypeOK
  <1> QED BY <1>1, <1>2, <1>3, TheCards DEF Over

\* A card goes on to the next thing: wherever it is, it is in its plan.
LEMMA GoesOn ==
    ASSUME SaysInv, NEW c \in Cards, NEW at \in {"compiling", "signing", "waiting"},
           NEW tx \in {"none", "sent", "landed", "refused", "lost"},
           NEW version \in {0, 1}, tx # "none" => at = "waiting",
           tx = "landed" => /\ state' \in Back
                            /\ card[c].step = Len(Plan(card[c].owed)) => state' = "None",
           card[c].at \in {"compiling", "signing", "waiting"}, Onward
    PROVE  Good([card[c] EXCEPT !.at = at, !.tx = tx, !.version = version], state')
  <1> DEFINE new == [card[c] EXCEPT !.at = at, !.tx = tx, !.version = version]
  <1>1. Good(card[c], state')
    BY StaysGood DEF SaysInv
  <1>2. new \in CardType /\ new.at = at /\ new.tx = tx /\ new.says = card[c].says
        /\ new.step = card[c].step /\ new.owed = card[c].owed
    BY <1>1 DEF Good, CardType
  <1> HIDE DEF new
  <1>3. Good(new, state')
    BY <1>1, <1>2 DEF Good
  <1> QED BY <1>3 DEF new

------------------------------------------------------------------------------
\* The page begins in a state that is good.
LEMMA SaysInv_Init == RescueInit => SaysInv
  <1> SUFFICES ASSUME RescueInit PROVE SaysInv
    OBVIOUS
  <1>1. state \in States
    BY DEF RescueInit, States
  <1>2. NoCard \in CardType
    BY <1>1, TheCards DEF Good
  <1>3. RescueTypeOK
    <2>1. indebted \in BOOLEAN /\ funded \in BOOLEAN /\ connected \in BOOLEAN
      BY DEF RescueInit
    <2>2. chosen \in Clusters /\ endpoint \in Endpoints
      BY RescuePageAssumption DEF RescueInit
    <2>3. looking \in [Slots -> Endpoints \cup {"nothing"}] /\ card \in [Cards -> CardType]
      BY <1>2 DEF RescueInit
    <2>4. bounds \in [choices : 0..MaxChoices, moves : 0..MaxMoves, faults : 0..MaxFaults]
      BY RescuePageAssumption DEF RescueInit
    <2>5. remembers \in {"unasked", "yes", "no"} /\ strays \subseteq Kinds
      BY DEF RescueInit
    <2> QED BY <1>1, <2>1, <2>2, <2>3, <2>4, <2>5 DEF RescueTypeOK
  <1>4. \A c \in Cards : Good(card[c], state)
    BY <1>1, TheCards DEF RescueInit
  <1> QED BY <1>3, <1>4 DEF SaysInv

\* A new list: the cards at rest go, the others go on.
LEMMA ListsKeepIt ==
    ASSUME SaysInv, UNCHANGED lifecycle, NEW slot \in Slots, NEW at \in Endpoints,
           LookFor(slot, at)
    PROVE  /\ card' \in [Cards -> CardType]
           /\ \A c \in Cards : Good(card'[c], state')
           /\ looking' \in [Slots -> Endpoints \cup {"nothing"}]
  <1>1. state' = state /\ state \in States
    BY DEF lifecycle, SaysInv, RescueTypeOK
  <1>2. ASSUME NEW c \in Cards PROVE Good(card'[c], state')
    <2>1. CASE card[c].at = "rest"
      <3>1. card'[c] = NoCard BY <2>1 DEF LookFor
      <3> QED BY <3>1, <1>1, TheCards
    <2>2. CASE card[c].at # "rest"
      <3>1. card'[c] = [card[c] EXCEPT !.shown = FALSE] BY <2>2 DEF LookFor
      <3>2. Good(card[c], state) BY DEF SaysInv
      <3>3. card'[c] \in CardType /\ card'[c].says = card[c].says
            /\ card'[c].step = card[c].step /\ card'[c].at = card[c].at
            /\ card'[c].tx = card[c].tx /\ card'[c].owed = card[c].owed
        BY <3>1, <3>2 DEF Good, CardType
      <3> QED BY <3>2, <3>3, <1>1 DEF Good
    <2> QED BY <2>1, <2>2
  <1>3. card' \in [Cards -> CardType]
    <2>1. card' = [c \in Cards |-> card'[c]] BY DEF LookFor
    <2>2. \A c \in Cards : card'[c] \in CardType BY <1>2 DEF Good
    <2> QED BY <2>1, <2>2
  <1> QED BY <1>2, <1>3 DEF LookFor, SaysInv, RescueTypeOK

\* What the owner chooses changes which cards are shown.
LEMMA ChoicesKeepIt ==
    ASSUME SaysInv, UNCHANGED lifecycle,
           \/ Connect
           \/ \E cluster \in Clusters : Choose(cluster)
           \/ \E other \in Endpoints : NameAnEndpoint(other),
           bounds' \in [choices : 0..MaxChoices, moves : 0..MaxMoves, faults : 0..MaxFaults]
    PROVE  SaysInv'
  <1> USE RescuePageAssumption
  <1>1. state' = state /\ indebted' = indebted /\ funded' = funded /\ RescueTypeOK
        /\ \A c \in Cards : Good(card[c], state)
    BY DEF lifecycle, SaysInv
  <1>2. CASE Connect
    <2>1. LookFor("connect", endpoint) /\ "connect" \in Slots /\ endpoint \in Endpoints
      BY <1>1, <1>2 DEF Connect, Slots, RescueTypeOK
    <2>2. /\ card' \in [Cards -> CardType] /\ \A c \in Cards : Good(card'[c], state')
          /\ looking' \in [Slots -> Endpoints \cup {"nothing"}]
      BY <2>1, ListsKeepIt
    <2> QED BY <1>1, <1>2, <2>2 DEF Connect, SaysInv, RescueTypeOK
  <1>3. ASSUME NEW cluster \in Clusters, Choose(cluster) PROVE SaysInv'
    <2>1. OfferedFor[cluster] \in Endpoints
      OBVIOUS
    <2>2. /\ card' \in [Cards -> CardType] /\ \A c \in Cards : Good(card'[c], state')
          /\ looking' \in [Slots -> Endpoints \cup {"nothing"}]
      <3>1. CASE connected
        <4>1. PICK slot \in Slots : LookFor(slot, OfferedFor[cluster])
          BY <1>3, <3>1 DEF Choose, Slots
        <4> QED BY <4>1, <2>1, ListsKeepIt
      <3>2. CASE ~connected
        BY <1>1, <1>3, <3>2 DEF Choose, RescueTypeOK
      <3> QED BY <3>1, <3>2
    <2> QED BY <1>1, <1>3, <2>1, <2>2 DEF Choose, SaysInv, RescueTypeOK
  <1>4. ASSUME NEW other \in Endpoints, NameAnEndpoint(other) PROVE SaysInv'
    BY <1>1, <1>4 DEF NameAnEndpoint, SaysInv, RescueTypeOK
  <1> QED BY <1>2, <1>3, <1>4

\* What a card does once its button was pressed, by itself or on the chain.
LEMMA CardsKeepIt ==
    ASSUME SaysInv, NEW c \in Cards,
           Press(c) \/ CardSteps(c) \/ Land(c) \/ Expire(c)
    PROVE  SaysInv'
  <1> DEFINE Calls == [choices : 0..MaxChoices, moves : 0..MaxMoves, faults : 0..MaxFaults]
  <1>1. /\ RescueTypeOK /\ Good(card[c], state) /\ card[c] \in CardType
        /\ remembers \in {"unasked", "yes", "no"} /\ strays \subseteq Kinds /\ bounds \in Calls
    BY DEF SaysInv, RescueTypeOK
  <1>2. UNCHANGED lifecycle => Onward
    BY <1>1 DEF lifecycle, Onward, RescueTypeOK
  <1>3. bounds' = bounds \/ Wrong => bounds' \in Calls
    BY <1>1, Counted
  <1>4. ASSUME UNCHANGED lifecycle, Fails(c), bounds' = bounds \/ Wrong,
               remembers' \in {"unasked", "yes", "no"}, strays' \subseteq Kinds
        PROVE  SaysInv'
    BY <1>2, <1>3, <1>4, FailuresAreSo, OneCardMoves DEF Fails
  <1>5. card[c].step \in 1..Len(Plan(card[c].owed)) => Kind(c) \in Kinds
    BY <1>1, ThePlans DEF Kind, CardType
  <1>6. CASE Press(c)
    <2> DEFINE new == [card[c] EXCEPT !.at = "planning", !.via = endpoint, !.right = (chosen = Home)]
    <2>1. Good(new, state')
      <3>1. state' = state /\ card[c].at = "rest" /\ endpoint \in Endpoints
        BY <1>1, <1>6 DEF Press, lifecycle, RescueTypeOK
      <3>2. new \in CardType /\ new.at = "planning" /\ new.says = card[c].says
            /\ new.step = card[c].step /\ new.tx = card[c].tx /\ new.owed = card[c].owed
        BY <1>1, <3>1 DEF CardType
      <3> HIDE DEF new
      <3> QED BY <1>1, <3>1, <3>2 DEF Good
    <2>2. Moves(c, new) /\ Onward /\ remembers' = remembers /\ strays' = strays /\ bounds' = bounds
      BY <1>2, <1>6 DEF Press
    <2> HIDE DEF new
    <2> QED BY <1>1, <2>1, <2>2, OneCardMoves
  <1>7. CASE MakePlan(c)
    <2> DEFINE new == [card[c] EXCEPT !.at = "compiling", !.owed = indebted, !.step = 1]
    <2>1. /\ card[c].at = "planning" /\ UNCHANGED lifecycle
          /\ remembers' = remembers /\ strays' = strays
      BY <1>7 DEF MakePlan
    <2>2. CASE Moves(c, new) /\ UNCHANGED bounds
      <3>0. indebted \in BOOLEAN
        BY <1>1 DEF RescueTypeOK
      <3>1. new \in CardType /\ new.at = "compiling" /\ new.says = card[c].says
            /\ new.step = 1 /\ new.tx = card[c].tx /\ new.owed = indebted
        <4>1. PICK first \in 0..4 : first = 1
          OBVIOUS
        <4>2. PICK owed \in BOOLEAN : owed = indebted
          BY <3>0
        <4>3. new = [card[c] EXCEPT !.at = "compiling", !.owed = owed, !.step = first]
          BY <4>1, <4>2
        <4> HIDE DEF new
        <4>4. new \in CardType /\ new.at = "compiling" /\ new.says = card[c].says
              /\ new.step = first /\ new.tx = card[c].tx /\ new.owed = owed
          BY <1>1, <4>3 DEF CardType
        <4> QED BY <4>1, <4>2, <4>4
      <3> HIDE DEF new
      <3>2. 1 \in 1..Len(Plan(indebted))
        BY <1>1, ThePlans DEF RescueTypeOK
      <3>3. state' = state
        BY <2>1 DEF lifecycle
      <3>4. Good(new, state')
        BY <1>1, <2>1, <3>1, <3>2, <3>3 DEF Good
      <3> QED BY <1>1, <1>2, <2>1, <2>2, <3>4, OneCardMoves
    <2>3. CASE Fails(c) /\ (UNCHANGED bounds \/ Wrong)
      BY <1>1, <1>4, <2>1, <2>3
    <2> QED BY <1>7, <2>2, <2>3 DEF MakePlan
  <1>8. CASE Compile(c)
    <2>1. /\ card[c].at = "compiling" /\ UNCHANGED lifecycle /\ strays' = strays
          /\ remembers' \in {"unasked", "yes", "no"} /\ (bounds' = bounds \/ Wrong)
      BY <1>1, <1>8 DEF Compile, Answers
    <2>2. ASSUME NEW version \in {0, 1},
                 Moves(c, [card[c] EXCEPT !.at = "signing", !.version = version])
          PROVE  SaysInv'
      <3>1. card[c].tx = "none"
        BY <1>1, <2>1 DEF Good, CardType
      <3>2. [card[c] EXCEPT !.at = "signing", !.version = version]
              = [card[c] EXCEPT !.at = "signing", !.tx = "none", !.version = version]
        BY <1>1, <3>1 DEF CardType
      <3>3. Good([card[c] EXCEPT !.at = "signing", !.tx = "none", !.version = version], state')
        BY <1>2, <2>1, GoesOn
      <3> QED BY <1>1, <1>2, <1>3, <2>1, <2>2, <3>2, <3>3, OneCardMoves
    <2>3. CASE Fails(c)
      BY <1>1, <1>4, <2>1, <2>3
    <2> QED BY <1>8, <2>2, <2>3 DEF Compile
  <1>9. CASE Send(c)
    <2>1. /\ card[c].at = "signing" /\ UNCHANGED lifecycle
          /\ remembers' = remembers /\ strays' = strays
      BY <1>9 DEF Send
    <2>2. CASE Moves(c, [card[c] EXCEPT !.at = "waiting", !.tx = "sent"]) /\ UNCHANGED bounds
      <3>1. [card[c] EXCEPT !.at = "waiting", !.tx = "sent"]
              = [card[c] EXCEPT !.at = "waiting", !.tx = "sent", !.version = card[c].version]
        BY <1>1 DEF CardType
      <3>2. card[c].version \in {0, 1}
        BY <1>1 DEF CardType
      <3>3. Good([card[c] EXCEPT !.at = "waiting", !.tx = "sent", !.version = card[c].version], state')
        BY <1>2, <2>1, <3>2, GoesOn
      <3> QED BY <1>1, <1>2, <2>1, <2>2, <3>1, <3>3, OneCardMoves
    <2>3. CASE Fails(c) /\ (UNCHANGED bounds \/ Wrong)
      BY <1>1, <1>4, <2>1, <2>3
    <2> QED BY <1>9, <2>2, <2>3 DEF Send
  <1>10. CASE Land(c)
    <2>1. /\ card[c].tx = "sent" /\ card[c].at = "waiting"
          /\ card[c].step \in 1..Len(Plan(card[c].owed)) /\ Kind(c) \in Kinds
          /\ remembers' = remembers /\ strays' = strays /\ bounds' = bounds
      BY <1>1, <1>5, <1>10 DEF Land, Good
    <2>2. CASE Can(Kind(c))
      <3>1. Onward /\ (Kind(c) = "rescue" => state' \in Back) /\ (Kind(c) = "close" => state' = "None")
        BY <1>1, <1>10, <2>1, <2>2, WhatLands DEF Land
      <3>2. Kind(c) = Plan(card[c].owed)[card[c].step] /\ card[c].owed \in BOOLEAN
        BY <1>1 DEF Kind, CardType
      <3>3. card[c].step = Len(Plan(card[c].owed)) => state' = "None"
        BY <3>1, <3>2, ThePlans
      <3>4. state' \in Back
        <4>1. CASE card[c].step = 1
          BY <3>1, <3>2, <4>1, ThePlans
        <4>2. CASE card[c].step > 1
          BY <1>1, <3>1, <4>2 DEF Good, Onward
        <4> QED BY <1>1, <2>1, <4>1, <4>2 DEF CardType
      <3>5. Moves(c, [card[c] EXCEPT !.tx = "landed"])
        BY <1>10, <2>2 DEF Land
      <3>6. [card[c] EXCEPT !.tx = "landed"]
              = [card[c] EXCEPT !.at = "waiting", !.tx = "landed", !.version = card[c].version]
        BY <1>1, <2>1 DEF CardType
      <3>7. card[c].version \in {0, 1}
        BY <1>1 DEF CardType
      <3>8. Good([card[c] EXCEPT !.at = "waiting", !.tx = "landed", !.version = card[c].version], state')
        BY <2>1, <3>1, <3>3, <3>4, <3>7, GoesOn
      <3> QED BY <1>1, <2>1, <3>1, <3>5, <3>6, <3>8, OneCardMoves
    <2>3. CASE ~Can(Kind(c))
      <3>1. UNCHANGED lifecycle /\ Moves(c, [card[c] EXCEPT !.tx = "refused"])
        BY <1>10, <2>3 DEF Land
      <3>2. [card[c] EXCEPT !.tx = "refused"]
              = [card[c] EXCEPT !.at = "waiting", !.tx = "refused", !.version = card[c].version]
        BY <1>1, <2>1 DEF CardType
      <3>3. card[c].version \in {0, 1}
        BY <1>1 DEF CardType
      <3>4. Good([card[c] EXCEPT !.at = "waiting", !.tx = "refused", !.version = card[c].version], state')
        BY <1>2, <2>1, <3>1, <3>3, GoesOn
      <3> QED BY <1>1, <1>2, <2>1, <3>1, <3>2, <3>4, OneCardMoves
    <2> QED BY <2>2, <2>3
  <1>11. CASE Expire(c)
    <2>1. /\ card[c].tx = "sent" /\ UNCHANGED lifecycle /\ Wrong
          /\ Moves(c, [card[c] EXCEPT !.tx = "lost"])
          /\ remembers' = remembers /\ strays' = strays
      BY <1>11 DEF Expire
    <2>2. card[c].at = "waiting" /\ card[c].version \in {0, 1}
      BY <1>1, <2>1 DEF Good, CardType
    <2>3. [card[c] EXCEPT !.tx = "lost"]
            = [card[c] EXCEPT !.at = "waiting", !.tx = "lost", !.version = card[c].version]
      BY <1>1, <2>2 DEF CardType
    <2>4. Good([card[c] EXCEPT !.at = "waiting", !.tx = "lost", !.version = card[c].version], state')
      BY <1>2, <2>1, <2>2, GoesOn
    <2> QED BY <1>1, <1>2, <1>3, <2>1, <2>3, <2>4, OneCardMoves
  <1>12. CASE Confirmed(c)
    <2>1. /\ card[c].at = "waiting" /\ card[c].tx = "landed" /\ UNCHANGED lifecycle
          /\ remembers' = remembers /\ strays' = strays /\ bounds' = bounds
      BY <1>12 DEF Confirmed, Confirms
    <2>2. /\ state' = state /\ state \in States /\ state \in Back
          /\ card[c].step \in 1..Len(Plan(card[c].owed))
          /\ card[c].step = Len(Plan(card[c].owed)) => state = "None"
      BY <1>1, <2>1 DEF lifecycle, Good, RescueTypeOK
    <2>3. CASE card[c].step = Len(Plan(card[c].owed))
      <3>1. Good(Over(c, "done"), state')
        BY <2>2, <2>3, TheCards DEF Over, Says
      <3>2. Moves(c, Over(c, "done"))
        BY <1>12, <2>3 DEF Confirmed
      <3> QED BY <1>1, <1>2, <2>1, <3>1, <3>2, OneCardMoves
    <2>4. CASE card[c].step # Len(Plan(card[c].owed))
      <3> DEFINE says == IF card[c].step = 1 THEN "returned" ELSE card[c].says
                 new == [card[c] EXCEPT !.at = "compiling", !.step = @ + 1, !.tx = "none", !.says = says]
      <3>1. card[c].owed \in BOOLEAN /\ Len(Plan(card[c].owed)) \in {3, 4}
        BY <1>1, ThePlans DEF CardType
      <3>2. card[c].step \in 1..3 /\ card[c].step + 1 \in 1..Len(Plan(card[c].owed))
        <4> DEFINE len == Len(Plan(card[c].owed))
        <4>1. len \in {3, 4} /\ card[c].step \in 1..len /\ card[c].step # len
          BY <2>2, <2>4, <3>1
        <4> HIDE DEF len
        <4>2. card[c].step \in 1..3 /\ card[c].step + 1 \in 1..len
          BY <4>1
        <4> QED BY <4>2 DEF len
      <3>3. new \in CardType /\ new.at = "compiling" /\ new.tx = "none"
            /\ new.says = says /\ new.step = card[c].step + 1 /\ new.owed = card[c].owed
        <4>1. says \in Says
          BY <1>1 DEF CardType, Says
        <4>2. PICK next \in 0..4 : next = card[c].step + 1
          BY <3>2
        <4> HIDE DEF says
        <4>3. new = [card[c] EXCEPT !.at = "compiling", !.step = next, !.tx = "none", !.says = says]
          BY <1>1, <4>2 DEF CardType
        <4> HIDE DEF new
        <4>4. new \in CardType /\ new.at = "compiling" /\ new.tx = "none"
              /\ new.says = says /\ new.step = next /\ new.owed = card[c].owed
          BY <1>1, <4>1, <4>3 DEF CardType, Says
        <4> QED BY <4>2, <4>4
      <3>4. Moves(c, new)
        BY <1>12, <2>4 DEF Confirmed
      <3> HIDE DEF new
      <3>5. Good(new, state')
        BY <1>1, <2>2, <3>2, <3>3 DEF Good
      <3> QED BY <1>1, <1>2, <2>1, <3>4, <3>5, OneCardMoves
    <2> QED BY <2>3, <2>4
  <1>13. CASE NotConfirmed(c)
    <2>1. /\ card[c].at = "waiting" /\ UNCHANGED lifecycle /\ Fails(c)
          /\ remembers' = remembers /\ (bounds' = bounds \/ Wrong)
      BY <1>13 DEF NotConfirmed
    <2>2. strays' \subseteq Kinds
      BY <1>1, <1>5, <1>13 DEF NotConfirmed, Good
    <2> QED BY <1>1, <1>4, <2>1, <2>2
  <1> QED BY <1>6, <1>7, <1>8, <1>9, <1>10, <1>11, <1>12, <1>13 DEF CardSteps

\* Every step keeps it.
LEMMA SaysInv_Next == SaysInv /\ [RescueNext]_rescueVars => SaysInv'
  <1> SUFFICES ASSUME SaysInv, [RescueNext]_rescueVars PROVE SaysInv'
    OBVIOUS
  <1> DEFINE Calls == [choices : 0..MaxChoices, moves : 0..MaxMoves, faults : 0..MaxFaults]
  <1>1. RescueTypeOK /\ (\A c \in Cards : Good(card[c], state)) /\ bounds \in Calls
    BY DEF SaysInv, RescueTypeOK
  \* The position moves on, and no card does.
  <1>2. ASSUME Onward, strays' \subseteq Kinds, bounds' \in Calls,
               UNCHANGED <<chosen, endpoint, connected, looking, remembers, card>>
        PROVE  SaysInv'
    <2>1. \A c \in Cards : Good(card'[c], state')
      BY <1>1, <1>2, StaysGood
    <2> QED BY <1>1, <1>2, <2>1 DEF SaysInv, RescueTypeOK, Onward
  <1>3. CASE OthersMove
    BY <1>1, <1>2, <1>3, OthersMoveOn, Counted DEF OthersMove, RescueTypeOK
  <1>4. CASE OwnerChooses
    BY <1>1, <1>4, Counted, ChoicesKeepIt DEF OwnerChooses
  <1>5. CASE OwnerGoesHome
    <2>1. OfferedFor[Home] \in Endpoints /\ Home \in Clusters
      BY RescuePageAssumption
    <2> QED BY <1>1, <1>5, <2>1, ChoicesKeepIt DEF OwnerGoesHome
  <1>6. ASSUME NEW slot \in Slots, List(slot) PROVE SaysInv'
    <2>1. state' = state /\ indebted' = indebted /\ funded' = funded /\ state \in States
      BY <1>1, <1>6 DEF List, lifecycle, RescueTypeOK
    <2>2. Good(AtRest("nothing"), state)
      BY <2>1, TheCards DEF Says
    <2>3. card' \in [Cards -> CardType] /\ \A c \in Cards : Good(card'[c], state')
      <3>1. CASE UNCHANGED card
        BY <1>1, <2>1, <3>1 DEF RescueTypeOK
      <3>2. ASSUME NEW d \in Cards, card' = [card EXCEPT ![d] = AtRest("nothing")]
            PROVE  card' \in [Cards -> CardType] /\ \A c \in Cards : Good(card'[c], state')
        <4>1. AtRest("nothing") \in CardType
          BY <2>2 DEF Good
        <4> QED BY <1>1, <2>1, <2>2, <3>2, <4>1 DEF RescueTypeOK
      <3> QED BY <1>6, <3>1, <3>2 DEF List
    <2>4. bounds' \in Calls
      BY <1>1, <1>6, Counted DEF List
    <2>5. looking' \in [Slots -> Endpoints \cup {"nothing"}]
      BY <1>1, <1>6 DEF List, RescueTypeOK
    <2> QED BY <1>1, <1>6, <2>1, <2>3, <2>4, <2>5 DEF List, SaysInv, RescueTypeOK
  <1>7. ASSUME NEW c \in Cards, Press(c) \/ CardSteps(c) \/ Land(c) \/ Expire(c) PROVE SaysInv'
    BY <1>7, CardsKeepIt
  <1>8. ASSUME NEW kind \in Kinds, LandStray(kind) PROVE SaysInv'
    <2>1. Onward
      BY <1>1, <1>8, WhatLands DEF LandStray
    <2>2. strays' \subseteq Kinds /\ bounds' \in Calls
      BY <1>1, <1>8, Counted DEF LandStray, RescueTypeOK
    <2> QED BY <1>2, <1>8, <2>1, <2>2 DEF LandStray
  <1>9. CASE UNCHANGED rescueVars
    BY <1>1, <1>9 DEF rescueVars, pageVars, lifecycle, SaysInv, RescueTypeOK
  <1> QED BY <1>3, <1>4, <1>5, <1>6, <1>7, <1>8, <1>9 DEF RescueNext

------------------------------------------------------------------------------
\* So it always is.
LEMMA SaysInvHolds == RescueSpec => []SaysInv
  BY SaysInv_Init, SaysInv_Next, PTL DEF RescueSpec

\* The page's cards and what was sent stay what the page can be in.
THEOREM PageTypes == RescueSpec => []RescueTypeOK
  <1>1. SaysInv => RescueTypeOK
    BY DEF SaysInv
  <1> QED BY SaysInvHolds, <1>1, PTL

\* What a card says of the tokens and of the position is so, with any number of
\* cards, networks, nodes and failures.
THEOREM CardsSayWhatHappened == RescueSpec => []SaysWhatHappened
  <1>1. SaysInv => SaysWhatHappened
    BY DEF SaysInv, Good, SaysWhatHappened, HandedBack, Back
  <1> QED BY SaysInvHolds, <1>1, PTL
==============================================================================
