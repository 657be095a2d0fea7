--------------------------- MODULE RpcLimiterProofs --------------------------
(***************************************************************************)
(* That RpcLimiter keeps the rate and the order, for any number of calls,  *)
(* any window and any rate.  What is remembered is a suffix of what was    *)
(* sent; the argument is that whatever is forgotten is a window old.       *)
(***************************************************************************)
EXTENDS RpcLimiter, SequenceTheorems, FiniteSetTheorems, TLAPS

\* The starts are in the order of their times, none of them in the future.
StartsInOrder ==
    /\ \A i, j \in DOMAIN sent : i <= j => sent[i].at <= sent[j].at
    /\ \A i \in DOMAIN sent : sent[i].at <= now

\* Whatever is no longer remembered is a window old, and no more is remembered
\* than may go in a window.
ForgottenIsOld ==
    /\ \A i \in DOMAIN sent : i < first => now - sent[i].at >= Window
    /\ Len(sent) + 1 - first <= PerWindow

RateInv == LimiterTypeOK /\ StartsInOrder /\ ForgottenIsOld /\ NeverAboveTheRate

\* The callers that wait are in the order they came, all of them before now and
\* none of them before those that went; who has a place has asked.
QueueInOrder ==
    /\ \A m, n \in DOMAIN queue : m <= n => since[queue[m]] <= since[queue[n]]
    /\ \A c \in Calls : since[c] <= now
    /\ \A n \in DOMAIN queue : call[queue[n]] # "idle"
    /\ \A i \in DOMAIN sent : call[sent[i].call] # "idle"

OrderInv == LimiterTypeOK /\ QueueInOrder /\ InTheOrderTheyCame

------------------------------------------------------------------------------
\* The types hold at the start.
LEMMA TypeOK_Init == LimiterInit => LimiterTypeOK
  BY RpcLimiterAssumption DEF LimiterInit, LimiterTypeOK

\* Every step keeps the types: a turn that is taken, given up or asked for.
LEMMA TypeOK_Next == LimiterTypeOK /\ [LimiterNext]_limiterVars => LimiterTypeOK'
  <1> SUFFICES ASSUME LimiterTypeOK, [LimiterNext]_limiterVars PROVE LimiterTypeOK'
    OBVIOUS
  <1> USE RpcLimiterAssumption
  <1>1. CASE TakeATurn
    <2> PICK k \in first..(Len(sent) + 1) :
          /\ Forgets(k) /\ first' = k
          /\ \/ /\ HasRoom(k)
                /\ sent' = Append(sent, [call |-> Head(queue), at |-> now])
                /\ queue' = Tail(queue)
                /\ call' = [call EXCEPT ![Head(queue)] = IF @ = "waiting" THEN "running" ELSE @]
                /\ wake' = 0
             \/ /\ ~HasRoom(k)
                /\ wake' = WakeAfter(k)
                /\ UNCHANGED <<call, queue, sent>>
      BY <1>1 DEF TakeATurn
    <2>1. Head(queue) \in Calls /\ Tail(queue) \in Seq(Calls)
      BY <1>1 DEF TakeATurn, HeadIsAwake, LimiterTypeOK
    <2>2. CASE HasRoom(k) /\ sent' = Append(sent, [call |-> Head(queue), at |-> now])
                 /\ queue' = Tail(queue) /\ wake' = 0
                 /\ call' = [call EXCEPT ![Head(queue)] = IF @ = "waiting" THEN "running" ELSE @]
      <3>1. [call |-> Head(queue), at |-> now] \in [call : Calls, at : Nat]
        BY <2>1 DEF LimiterTypeOK
      <3>2. sent' \in Seq([call : Calls, at : Nat]) /\ Len(sent') = Len(sent) + 1
        BY <2>2, <3>1 DEF LimiterTypeOK
      <3> QED BY <1>1, <2>1, <2>2, <3>2 DEF TakeATurn, LimiterTypeOK
    <2>3. CASE ~HasRoom(k) /\ wake' = WakeAfter(k) /\ UNCHANGED <<call, queue, sent>>
      <3>1. k \in 1..Len(sent)
        BY <2>3 DEF HasRoom, LimiterTypeOK
      <3>2. sent[k] \in [call : Calls, at : Nat]
        BY <3>1, ElementOfSeq DEF LimiterTypeOK
      <3>3. sent[k].at \in Nat
        BY <3>2
      <3>4. wake' \in Nat
        BY <2>3, <3>3 DEF WakeAfter
      <3> QED BY <1>1, <2>3, <3>4 DEF TakeATurn, LimiterTypeOK
    <2> QED BY <2>2, <2>3
  <1>2. CASE Tick
    BY <1>2 DEF Tick, LimiterTypeOK
  <1>3. ASSUME NEW c \in Calls, Ask(c) PROVE LimiterTypeOK'
    BY <1>3 DEF Ask, AtTheEnd, LimiterTypeOK
  <1>4. ASSUME NEW c \in Calls, Reply(c) PROVE LimiterTypeOK'
    BY <1>4 DEF Reply, LimiterTypeOK
  <1>5. ASSUME NEW c \in Calls, GiveUp(c) PROVE LimiterTypeOK'
    BY <1>5 DEF GiveUp, LimiterTypeOK
  <1>6. CASE UNCHANGED limiterVars
    BY <1>6 DEF limiterVars, LimiterTypeOK
  <1> QED BY <1>1, <1>2, <1>3, <1>4, <1>5, <1>6 DEF LimiterNext

\* The limiter's state keeps its types: what is remembered is always a suffix of
\* what was sent (takeATurn of limiter.ts).
THEOREM TypesHold == LimiterSpec => []LimiterTypeOK
  BY TypeOK_Init, TypeOK_Next, PTL DEF LimiterSpec

------------------------------------------------------------------------------
\* What a turn does to the history: at most one start more, at this moment.
LEMMA TurnAppends ==
  ASSUME LimiterTypeOK, LimiterTypeOK', TakeATurn, sent' # sent
  PROVE  /\ queue # <<>> /\ Head(queue) = queue[1] /\ queue[1] \in Calls
         /\ queue' = Tail(queue) /\ now' = now /\ since' = since
         /\ \A i \in 1..Len(sent) : sent[i].at \in Nat /\ sent[i].call \in Calls
         /\ Len(sent) \in Nat /\ Len(sent') = Len(sent) + 1
         /\ DOMAIN sent = 1..Len(sent) /\ DOMAIN sent' = 1..(Len(sent) + 1)
         /\ \A i \in 1..Len(sent) : sent'[i] = sent[i]
         /\ sent'[Len(sent) + 1].at = now /\ sent'[Len(sent) + 1].call = queue[1]
         /\ first' \in first..(Len(sent) + 1)
         /\ Forgets(first') /\ HasRoom(first')
  <1>1. /\ sent' = Append(sent, [call |-> Head(queue), at |-> now])
        /\ queue' = Tail(queue) /\ Forgets(first') /\ HasRoom(first')
        /\ first' \in first..(Len(sent) + 1)
        /\ queue # <<>> /\ now' = now /\ since' = since
    BY DEF TakeATurn, HeadIsAwake
  <1>2. queue \in Seq(Calls) /\ sent \in Seq([call : Calls, at : Nat]) /\ now \in Nat
    BY DEF LimiterTypeOK
  <1>3. Head(queue) = queue[1] /\ queue[1] \in Calls
    BY <1>1, <1>2
  <1>4. ASSUME NEW i \in 1..Len(sent)
        PROVE  sent[i].at \in Nat /\ sent[i].call \in Calls /\ sent'[i] = sent[i]
    <2>1. sent[i] \in [call : Calls, at : Nat]
      BY <1>2, ElementOfSeq
    <2> QED BY <2>1, <1>1, <1>2
  <1>5. [call |-> Head(queue), at |-> now] \in [call : Calls, at : Nat]
    BY <1>2, <1>3
  <1>6. /\ Len(sent) \in Nat /\ Len(sent') = Len(sent) + 1
        /\ DOMAIN sent = 1..Len(sent) /\ DOMAIN sent' = 1..(Len(sent) + 1)
        /\ sent'[Len(sent) + 1] = [call |-> Head(queue), at |-> now]
    BY <1>1, <1>2, <1>5
  <1>7. sent'[Len(sent) + 1].at = now /\ sent'[Len(sent) + 1].call = queue[1]
    BY <1>3, <1>6
  <1> QED BY ONLY <1>1, <1>3, <1>4, <1>6, <1>7

\* A turn that goes to nobody forgets, and no more.
LEMMA TurnForgets ==
  ASSUME LimiterTypeOK, TakeATurn, sent' = sent
  PROVE  /\ queue' = queue /\ now' = now /\ since' = since /\ call' = call
         /\ first' \in first..(Len(sent) + 1) /\ Forgets(first')
  <1>1. sent # Append(sent, [call |-> Head(queue), at |-> now])
    BY DEF LimiterTypeOK
  <1> QED BY <1>1 DEF TakeATurn

\* Whatever a turn forgets is a window old.
LEMMA ForgetsTheOld ==
  ASSUME ForgottenIsOld, NEW k \in first..(Len(sent) + 1), Forgets(k),
         Len(sent) \in Nat, first \in 1..(Len(sent) + 1), DOMAIN sent = 1..Len(sent)
  PROVE  \A i \in 1..Len(sent) : i < k => now - sent[i].at >= Window
  <1> TAKE i \in 1..Len(sent)
  <1> HAVE i < k
  <1>1. CASE i < first
    BY <1>1 DEF ForgottenIsOld
  <1>2. CASE ~(i < first)
    <2>1. i \in first..(k - 1)
      BY <1>2
    <2>2. IsOld(i)
      BY <2>1 DEF Forgets
    <2> QED BY <2>2 DEF IsOld
  <1> QED BY <1>1, <1>2

\* Nothing has started yet.
LEMMA RateInv_Init == LimiterInit => RateInv
  BY TypeOK_Init, RpcLimiterAssumption
  DEF LimiterInit, RateInv, StartsInOrder, ForgottenIsOld, NeverAboveTheRate

\* Every step keeps the rate: only a turn adds a start, after forgetting the old.
LEMMA RateInv_Next == RateInv /\ [LimiterNext]_limiterVars => RateInv'
  <1> SUFFICES ASSUME RateInv, [LimiterNext]_limiterVars PROVE RateInv'
    OBVIOUS
  <1> USE RpcLimiterAssumption
  <1>1. LimiterTypeOK /\ LimiterTypeOK' /\ StartsInOrder /\ ForgottenIsOld /\ NeverAboveTheRate
    BY TypeOK_Next DEF RateInv
  <1>2. /\ now \in Nat /\ Len(sent) \in Nat /\ first \in 1..(Len(sent) + 1)
        /\ DOMAIN sent = 1..Len(sent)
        /\ \A i \in 1..Len(sent) : sent[i].at \in Nat
    <2>1. sent \in Seq([call : Calls, at : Nat])
      BY <1>1 DEF LimiterTypeOK
    <2>2. ASSUME NEW i \in 1..Len(sent) PROVE sent[i].at \in Nat
      <3>1. sent[i] \in [call : Calls, at : Nat]
        BY <2>1, ElementOfSeq
      <3> QED BY <3>1
    <2> QED BY <1>1, <2>1, <2>2 DEF LimiterTypeOK
  <1>3. CASE TakeATurn /\ sent' # sent
    <2>1. /\ now' = now /\ Len(sent') = Len(sent) + 1 /\ DOMAIN sent' = 1..(Len(sent) + 1)
          /\ \A i \in 1..Len(sent) : sent'[i] = sent[i]
          /\ sent'[Len(sent) + 1].at = now
          /\ first' \in first..(Len(sent) + 1) /\ Forgets(first') /\ HasRoom(first')
      BY <1>1, <1>3, TurnAppends
    <2>2. \A i \in 1..Len(sent) : i < first' => now - sent[i].at >= Window
      BY <1>1, <1>2, <2>1, ForgetsTheOld
    <2>3. StartsInOrder'
      <3>1. \A i \in 1..Len(sent) : sent'[i].at = sent[i].at /\ sent[i].at <= now
        BY <1>1, <1>2, <2>1 DEF StartsInOrder
      <3>2. ASSUME NEW i \in DOMAIN sent', NEW j \in DOMAIN sent', i <= j
            PROVE  sent'[i].at <= sent'[j].at
        <4>1. CASE j = Len(sent) + 1
          BY <1>2, <2>1, <3>1, <3>2, <4>1
        <4>2. CASE j # Len(sent) + 1
          <5>1. i \in DOMAIN sent /\ j \in DOMAIN sent
            BY <1>2, <2>1, <3>2, <4>2
          <5>2. sent[i].at <= sent[j].at
            BY <1>1, <3>2, <5>1 DEF StartsInOrder
          <5> QED BY <1>2, <3>1, <5>1, <5>2
        <4> QED BY <4>1, <4>2
      <3>3. ASSUME NEW i \in DOMAIN sent' PROVE sent'[i].at <= now'
        BY <1>2, <2>1, <3>1, <3>3
      <3> QED BY <3>2, <3>3 DEF StartsInOrder
    <2>4. ForgottenIsOld'
      BY <1>2, <2>1, <2>2 DEF ForgottenIsOld, HasRoom
    <2>5. ASSUME NEW i \in DOMAIN sent', NEW j \in DOMAIN sent', j = i + PerWindow
          PROVE  sent'[j].at - sent'[i].at >= Window
      <3>1. CASE j = Len(sent) + 1
        <4>1. i \in 1..Len(sent) /\ i < first'
          BY <1>2, <2>1, <2>5, <3>1 DEF HasRoom
        <4> QED BY <2>1, <2>2, <3>1, <4>1
      <3>2. CASE j # Len(sent) + 1
        <4>1. i \in 1..Len(sent) /\ j \in 1..Len(sent)
          BY <1>2, <2>1, <2>5, <3>2
        <4> QED BY <1>1, <1>2, <2>1, <2>5, <4>1 DEF NeverAboveTheRate
      <3> QED BY <3>1, <3>2
    <2>6. NeverAboveTheRate'
      BY <2>5 DEF NeverAboveTheRate
    <2> QED BY <1>1, <2>3, <2>4, <2>6 DEF RateInv
  <1>4. CASE TakeATurn /\ sent' = sent
    <2>1. now' = now /\ first' \in first..(Len(sent) + 1) /\ Forgets(first')
      BY <1>1, <1>4, TurnForgets
    <2>2. \A i \in 1..Len(sent) : i < first' => now - sent[i].at >= Window
      BY <1>1, <1>2, <2>1, ForgetsTheOld
    <2>3. ForgottenIsOld'
      BY <1>1, <1>2, <1>4, <2>1, <2>2 DEF ForgottenIsOld
    <2> QED BY <1>1, <1>4, <2>1, <2>3 DEF RateInv, StartsInOrder, NeverAboveTheRate
  <1>5. CASE Tick
    <2>1. now' = now + 1 /\ sent' = sent /\ first' = first
      BY <1>5 DEF Tick
    <2> QED BY SMTT(30), <1>1, <1>2, <2>1 DEF RateInv, StartsInOrder, ForgottenIsOld, NeverAboveTheRate
  <1>6. ASSUME \/ \E c \in Calls : Ask(c) \/ Reply(c) \/ GiveUp(c)
               \/ UNCHANGED limiterVars
        PROVE  RateInv'
    <2>1. now' = now /\ sent' = sent /\ first' = first
      BY <1>6 DEF Ask, Reply, GiveUp, limiterVars
    <2> QED BY <1>1, <2>1 DEF RateInv, StartsInOrder, ForgottenIsOld, NeverAboveTheRate
  <1> QED BY <1>3, <1>4, <1>5, <1>6 DEF LimiterNext

\* The provider never sees more than PerWindow calls start within a window,
\* wherever the window is laid (takeATurn of limiter.ts).
THEOREM RateIsKept == LimiterSpec => []NeverAboveTheRate
  <1>1. RateInv => NeverAboveTheRate
    BY DEF RateInv
  <1> QED BY <1>1, RateInv_Init, RateInv_Next, PTL DEF LimiterSpec
------------------------------------------------------------------------------
\* Nobody waits yet.
LEMMA OrderInv_Init == LimiterInit => OrderInv
  BY TypeOK_Init DEF LimiterInit, OrderInv, QueueInOrder, InTheOrderTheyCame

\* Whoever is given the turn came before everyone who still waits.
LEMMA OrderInv_Turn ==
  ASSUME OrderInv, LimiterTypeOK', TakeATurn
  PROVE  OrderInv'
  <1>1. LimiterTypeOK /\ QueueInOrder /\ InTheOrderTheyCame
    BY DEF OrderInv
  <1>2. now \in Nat /\ queue \in Seq(Calls) /\ since \in [Calls -> Nat]
        /\ call \in [Calls -> {"idle", "waiting", "running", "answered", "gaveUp"}]
    BY <1>1 DEF LimiterTypeOK
  <1>3. CASE sent' = sent
    <2>1. queue' = queue /\ now' = now /\ since' = since /\ call' = call
      BY <1>1, <1>3, TurnForgets
    <2> QED BY <1>1, <1>3, <2>1 DEF OrderInv, QueueInOrder, InTheOrderTheyCame
  <1>4. CASE sent' # sent
    <2>1. /\ queue # <<>> /\ Head(queue) = queue[1] /\ queue[1] \in Calls
          /\ queue' = Tail(queue) /\ now' = now /\ since' = since
          /\ \A i \in 1..Len(sent) : sent[i].at \in Nat /\ sent[i].call \in Calls
          /\ Len(sent) \in Nat /\ Len(sent') = Len(sent) + 1
          /\ DOMAIN sent = 1..Len(sent) /\ DOMAIN sent' = 1..(Len(sent) + 1)
          /\ \A i \in 1..Len(sent) : sent'[i] = sent[i]
          /\ sent'[Len(sent) + 1].call = queue[1]
      BY <1>1, <1>4, TurnAppends
    <2>2. /\ DOMAIN queue = 1..Len(queue) /\ DOMAIN queue' = 1..(Len(queue) - 1)
          /\ Len(queue) \in Nat /\ 1 \in DOMAIN queue
          /\ \A n \in DOMAIN queue' : n + 1 \in DOMAIN queue /\ queue'[n] = queue[n + 1]
          /\ \A n \in DOMAIN queue : queue[n] \in Calls /\ since[queue[n]] \in Nat
      BY <1>2, <2>1
    <2>3. ASSUME NEW c \in Calls, call[c] # "idle" PROVE call'[c] # "idle"
      BY <1>2, <1>4, <2>3 DEF TakeATurn
    <2>4. QueueInOrder'
      <3>1. \A m, n \in DOMAIN queue' : m <= n => since'[queue'[m]] <= since'[queue'[n]]
        <4> TAKE m, n \in DOMAIN queue'
        <4> HAVE m <= n
        <4>1. m + 1 <= n + 1
          BY <2>2
        <4> QED BY <1>1, <2>1, <2>2, <4>1 DEF QueueInOrder
      <3>2. \A c \in Calls : since'[c] <= now'
        BY <1>1, <2>1 DEF QueueInOrder
      <3>3. \A n \in DOMAIN queue' : call'[queue'[n]] # "idle"
        BY <1>1, <2>2, <2>3 DEF QueueInOrder
      <3>4. ASSUME NEW i \in DOMAIN sent' PROVE call'[sent'[i].call] # "idle"
        <4>1. CASE i \in 1..Len(sent)
          BY <1>1, <2>1, <2>3, <4>1 DEF QueueInOrder
        <4>2. CASE i = Len(sent) + 1
          BY <1>1, <2>1, <2>2, <2>3, <4>2 DEF QueueInOrder
        <4> QED BY <2>1, <4>1, <4>2
      <3> QED BY <3>1, <3>2, <3>3, <3>4 DEF QueueInOrder
    <2>5. InTheOrderTheyCame'
      <3>1. ASSUME NEW i \in DOMAIN sent', NEW j \in DOMAIN sent', i < j
            PROVE  since'[sent'[i].call] <= since'[sent'[j].call]
        <4>1. i \in 1..Len(sent)
          BY <2>1, <3>1
        <4>2. CASE j = Len(sent) + 1
          BY <1>1, <2>1, <2>2, <4>1, <4>2 DEF InTheOrderTheyCame
        <4>3. CASE j \in 1..Len(sent)
          BY <1>1, <2>1, <3>1, <4>1, <4>3 DEF InTheOrderTheyCame
        <4> QED BY <2>1, <4>2, <4>3
      <3>2. ASSUME NEW i \in DOMAIN sent', NEW n \in DOMAIN queue'
            PROVE  since'[sent'[i].call] <= since'[queue'[n]]
        <4>1. CASE i = Len(sent) + 1
          <5>1. 1 <= n + 1 /\ n + 1 \in DOMAIN queue /\ queue'[n] = queue[n + 1]
            BY <2>2
          <5> QED BY <1>1, <2>1, <2>2, <4>1, <5>1 DEF QueueInOrder
        <4>2. CASE i \in 1..Len(sent)
          BY <1>1, <2>1, <2>2, <4>2 DEF InTheOrderTheyCame
        <4> QED BY <2>1, <4>1, <4>2
      <3> QED BY <3>1, <3>2 DEF InTheOrderTheyCame
    <2> QED BY <2>4, <2>5 DEF OrderInv
  <1> QED BY <1>3, <1>4

\* Whoever asks goes to the end, at this moment.
LEMMA OrderInv_Ask ==
  ASSUME OrderInv, LimiterTypeOK', NEW c \in Calls, Ask(c)
  PROVE  OrderInv'
  <1>1. LimiterTypeOK /\ QueueInOrder /\ InTheOrderTheyCame
    BY DEF OrderInv
  <1>2. /\ now \in Nat /\ queue \in Seq(Calls) /\ since \in [Calls -> Nat]
        /\ call \in [Calls -> {"idle", "waiting", "running", "answered", "gaveUp"}]
        /\ sent \in Seq([call : Calls, at : Nat])
    BY <1>1 DEF LimiterTypeOK
  <1>3. /\ call[c] = "idle" /\ call' = [call EXCEPT ![c] = "waiting"]
        /\ since' = [since EXCEPT ![c] = now] /\ queue' = Append(queue, c)
        /\ now' = now /\ sent' = sent
    BY DEF Ask, AtTheEnd
  <1>4. ASSUME NEW i \in DOMAIN sent
        PROVE  sent[i].call \in Calls /\ sent[i].call # c
    <2>1. i \in 1..Len(sent)
      BY <1>2
    <2>2. sent[i] \in [call : Calls, at : Nat]
      BY <1>2, <2>1, ElementOfSeq
    <2> QED BY <1>1, <1>3, <2>2 DEF QueueInOrder
  <1>5. /\ DOMAIN queue = 1..Len(queue) /\ DOMAIN queue' = 1..(Len(queue) + 1)
        /\ Len(queue) \in Nat /\ queue'[Len(queue) + 1] = c
        /\ \A n \in DOMAIN queue : queue'[n] = queue[n] /\ queue[n] \in Calls
    BY <1>2, <1>3
  <1>6. \A n \in DOMAIN queue : queue[n] # c
    BY <1>1, <1>3 DEF QueueInOrder
  <1>7. QueueInOrder'
    <2>1. ASSUME NEW m \in DOMAIN queue', NEW n \in DOMAIN queue', m <= n
          PROVE  since'[queue'[m]] <= since'[queue'[n]]
      <3>1. CASE n = Len(queue) + 1
        BY <1>1, <1>2, <1>3, <1>5, <2>1, <3>1 DEF QueueInOrder
      <3>2. CASE n # Len(queue) + 1
        <4>1. m \in DOMAIN queue /\ n \in DOMAIN queue
          BY <1>5, <2>1, <3>2
        <4> QED BY <1>1, <1>2, <1>3, <1>5, <1>6, <2>1, <4>1 DEF QueueInOrder
      <3> QED BY <3>1, <3>2
    <2>2. \A d \in Calls : since'[d] <= now'
      BY <1>1, <1>2, <1>3 DEF QueueInOrder
    <2>3. \A n \in DOMAIN queue' : call'[queue'[n]] # "idle"
      BY <1>1, <1>2, <1>3, <1>5 DEF QueueInOrder
    <2>4. \A i \in DOMAIN sent' : call'[sent'[i].call] # "idle"
      BY <1>1, <1>2, <1>3, <1>4 DEF QueueInOrder
    <2> QED BY <2>1, <2>2, <2>3, <2>4 DEF QueueInOrder
  <1>8. InTheOrderTheyCame'
    <2>1. \A i, j \in DOMAIN sent' : i < j => since'[sent'[i].call] <= since'[sent'[j].call]
      BY <1>1, <1>2, <1>3, <1>4 DEF InTheOrderTheyCame
    <2>2. ASSUME NEW i \in DOMAIN sent', NEW n \in DOMAIN queue'
          PROVE  since'[sent'[i].call] <= since'[queue'[n]]
      <3>1. CASE n = Len(queue) + 1
        BY <1>1, <1>2, <1>3, <1>4, <1>5, <3>1 DEF QueueInOrder
      <3>2. CASE n # Len(queue) + 1
        <4>1. n \in DOMAIN queue /\ queue'[n] = queue[n] /\ queue[n] \in Calls /\ queue[n] # c
          BY <1>5, <1>6, <3>2
        <4>2. since'[queue[n]] = since[queue[n]] /\ since'[sent[i].call] = since[sent[i].call]
          BY <1>2, <1>3, <1>4, <4>1
        <4>3. since[sent[i].call] <= since[queue[n]]
          BY <1>1, <1>3, <4>1 DEF InTheOrderTheyCame
        <4> QED BY <1>3, <4>1, <4>2, <4>3
      <3> QED BY <3>1, <3>2
    <2> QED BY <2>1, <2>2 DEF InTheOrderTheyCame
  <1> QED BY <1>7, <1>8 DEF OrderInv

\* Every step keeps the order.
LEMMA OrderInv_Next == OrderInv /\ [LimiterNext]_limiterVars => OrderInv'
  <1> SUFFICES ASSUME OrderInv, [LimiterNext]_limiterVars PROVE OrderInv'
    OBVIOUS
  <1>1. LimiterTypeOK /\ LimiterTypeOK'
    BY TypeOK_Next DEF OrderInv
  <1>2. CASE TakeATurn
    BY <1>1, <1>2, OrderInv_Turn
  <1>3. ASSUME NEW c \in Calls, Ask(c) PROVE OrderInv'
    BY <1>1, <1>3, OrderInv_Ask
  <1>4. CASE Tick
    <2>1. /\ now' = now + 1 /\ now \in Nat /\ since \in [Calls -> Nat]
          /\ call' = call /\ since' = since /\ queue' = queue /\ sent' = sent
      BY <1>1, <1>4 DEF Tick, LimiterTypeOK
    <2> QED BY <1>1, <2>1 DEF OrderInv, QueueInOrder, InTheOrderTheyCame
  <1>5. ASSUME NEW c \in Calls, Reply(c) \/ GiveUp(c) PROVE OrderInv'
    <2>1. /\ now' = now /\ since' = since /\ queue' = queue /\ sent' = sent
          /\ call[c] # "idle" /\ \A d \in Calls : call'[d] = "idle" => call[d] = "idle"
      BY <1>1, <1>5 DEF Reply, GiveUp, Overdue, LimiterTypeOK
    <2>2. \A n \in DOMAIN queue : queue[n] \in Calls
      BY <1>1 DEF LimiterTypeOK
    <2>3. ASSUME NEW i \in DOMAIN sent PROVE sent[i].call \in Calls
      <3>1. sent \in Seq([call : Calls, at : Nat])
        BY <1>1 DEF LimiterTypeOK
      <3>2. i \in 1..Len(sent)
        BY <3>1
      <3>3. sent[i] \in [call : Calls, at : Nat]
        BY <3>1, <3>2, ElementOfSeq
      <3> QED BY <3>3
    <2> QED BY <1>1, <2>1, <2>2, <2>3 DEF OrderInv, QueueInOrder, InTheOrderTheyCame
  <1>6. CASE UNCHANGED limiterVars
    BY <1>1, <1>6 DEF limiterVars, OrderInv, QueueInOrder, InTheOrderTheyCame
  <1> QED BY <1>2, <1>3, <1>4, <1>5, <1>6 DEF LimiterNext

\* Callers go through in the order they came (waitForATurn of limiter.ts).
THEOREM OrderIsKept == LimiterSpec => []InTheOrderTheyCame
  <1>1. OrderInv => InTheOrderTheyCame
    BY DEF OrderInv
  <1> QED BY <1>1, OrderInv_Init, OrderInv_Next, PTL DEF LimiterSpec

------------------------------------------------------------------------------
(* Nobody is kept waiting.                                                 *)

\* The starts before the j-th that are not before a.
AheadIn(s, j, a) == {i \in 1..(j - 1) : s[i].at >= a}

\* The head sleeps until the start a window's worth of starts back is a window old.
SleepsForTheOldest ==
    wake > now => /\ Len(sent) >= PerWindow
                  /\ wake = sent[Len(sent) + 1 - PerWindow].at + Window

\* Only the rate holds anyone up: while someone waits who came before now, the last
\* window's worth of starts is not older than a window.
HeldUpByTheRate ==
    \A n \in DOMAIN queue : since[queue[n]] < now =>
        /\ Len(sent) >= PerWindow
        /\ sent[Len(sent) + 1 - PerWindow].at + Window >= now

\* NobodyIsKeptWaiting, counted from any moment between the call and its start.
TurnComesInTime ==
    \A j \in DOMAIN sent, a \in Nat :
        since[sent[j].call] <= a /\ a <= sent[j].at =>
            sent[j].at - a < Window * (Cardinality(AheadIn(sent, j, a)) \div PerWindow + 1)

WaitInv == RateInv /\ OrderInv /\ SleepsForTheOldest /\ HeldUpByTheRate /\ TurnComesInTime

\* One window's worth more is one more in the quotient.
LEMMA OneWindowMore ==
  ASSUME NEW n \in Nat, NEW d \in Nat \ {0}
  PROVE  n \div d \in Nat /\ (n + d) \div d = n \div d + 1
  OBVIOUS

\* From a start that is not before a, every start up to the j-th is ahead of it.
LEMMA AheadGrows ==
  ASSUME NEW s, NEW j \in Nat, NEW i \in 1..j, NEW a \in Nat,
         \A m \in 1..j : s[m].at \in Nat,
         \A m, n \in 1..j : m <= n => s[m].at <= s[n].at,
         s[i].at >= a
  PROVE  /\ Cardinality(AheadIn(s, i, a)) \in Nat
         /\ Cardinality(AheadIn(s, j, a)) = Cardinality(AheadIn(s, i, a)) + (j - i)
  <1>1. AheadIn(s, j, a) = AheadIn(s, i, a) \cup (i..(j - 1))
    <2>1. ASSUME NEW m \in i..(j - 1) PROVE m \in 1..(j - 1) /\ s[m].at >= a
      <3>1. m \in 1..j /\ i \in 1..j /\ i <= m
        OBVIOUS
      <3>2. s[i].at <= s[m].at /\ s[i].at \in Nat /\ s[m].at \in Nat
        BY <3>1
      <3> QED BY <3>1, <3>2
    <2>2. ASSUME NEW m \in 1..(i - 1) PROVE m \in 1..(j - 1)
      OBVIOUS
    <2>3. ASSUME NEW m \in 1..(j - 1), m \notin i..(j - 1) PROVE m \in 1..(i - 1)
      BY <2>3
    <2> QED BY <2>1, <2>2, <2>3 DEF AheadIn
  <1>2. AheadIn(s, i, a) \cap (i..(j - 1)) = {}
    BY DEF AheadIn
  <1>3. IsFiniteSet(AheadIn(s, i, a)) /\ Cardinality(AheadIn(s, i, a)) \in Nat
    <2>1. IsFiniteSet(1..(i - 1))
      BY FS_Interval
    <2>2. AheadIn(s, i, a) \in SUBSET (1..(i - 1))
      BY DEF AheadIn
    <2> QED BY <2>1, <2>2, FS_Subset, FS_CardinalityType
  <1>4. IsFiniteSet(i..(j - 1)) /\ Cardinality(i..(j - 1)) = j - i
    <2>1. i \in Int /\ j - 1 \in Int
      OBVIOUS
    <2>2. IsFiniteSet(i..(j - 1))
          /\ Cardinality(i..(j - 1)) = IF i > j - 1 THEN 0 ELSE (j - 1) - i + 1
      BY <2>1, FS_Interval
    <2> QED BY <2>2
  <1> DEFINE S == AheadIn(s, i, a)
             T == i..(j - 1)
  <1>5. Cardinality(S \cup T) = Cardinality(S) + Cardinality(T) - Cardinality(S \cap T)
    <2> HIDE DEF S, T
    <2> QED BY <1>3, <1>4, FS_Union DEF S, T
  <1>6. Cardinality(S \cap T) = 0
    BY <1>2, FS_EmptySet
  <1> QED BY <1>1, <1>3, <1>4, <1>5, <1>6

\* What every state of WaitInv has: the starts and their times, and who waits.
LEMMA WaitFacts ==
  ASSUME LimiterTypeOK
  PROVE  /\ now \in Nat /\ wake \in Nat /\ Len(sent) \in Nat /\ first \in 1..(Len(sent) + 1)
         /\ DOMAIN sent = 1..Len(sent)
         /\ \A i \in 1..Len(sent) : sent[i].at \in Nat /\ sent[i].call \in Calls
         /\ queue \in Seq(Calls) /\ since \in [Calls -> Nat]
         /\ \A n \in DOMAIN queue : queue[n] \in Calls
         /\ \A c \in Calls : since[c] \in Nat
  <1>1. sent \in Seq([call : Calls, at : Nat]) /\ queue \in Seq(Calls) /\ since \in [Calls -> Nat]
    BY DEF LimiterTypeOK
  <1>2. ASSUME NEW i \in 1..Len(sent) PROVE sent[i].at \in Nat /\ sent[i].call \in Calls
    <2>1. sent[i] \in [call : Calls, at : Nat]
      BY <1>1, ElementOfSeq
    <2> QED BY <2>1
  <1> QED BY <1>1, <1>2 DEF LimiterTypeOK

\* A start that does not come at once comes when the one a window's worth of starts
\* before it is exactly a window old, and so in time if that one did.
LEMMA NextTurnComesInTime ==
  ASSUME NEW s, NEW L \in Nat, NEW a \in Nat, NEW asked \in Nat,
         \A m \in 1..(L + 1) : s[m].at \in Nat,
         \A m, n \in 1..(L + 1) : m <= n => s[m].at <= s[n].at,
         asked <= a, a <= s[L + 1].at,
         asked < s[L + 1].at =>
             /\ L >= PerWindow
             /\ s[L + 1 - PerWindow].at + Window = s[L + 1].at,
         ASSUME L >= PerWindow, a <= s[L + 1 - PerWindow].at
         PROVE  s[L + 1 - PerWindow].at - a
                  < Window * (Cardinality(AheadIn(s, L + 1 - PerWindow, a)) \div PerWindow + 1)
  PROVE  s[L + 1].at - a
           < Window * (Cardinality(AheadIn(s, L + 1, a)) \div PerWindow + 1)
  <1> DEFINE ahead == Cardinality(AheadIn(s, L + 1, a))
             t == s[L + 1].at
  <1>1. PerWindow \in Nat \ {0} /\ Window \in Nat \ {0}
    BY RpcLimiterAssumption
  <1>2. ahead \in Nat /\ t \in Nat
    <2>1. /\ L + 1 \in Nat /\ L + 1 \in 1..(L + 1)
      OBVIOUS
    <2>2. IsFiniteSet(1..L)
      BY FS_Interval
    <2>3. AheadIn(s, L + 1, a) \in SUBSET (1..L)
      BY DEF AheadIn
    <2> QED BY <2>1, <2>2, <2>3, FS_Subset, FS_CardinalityType
  <1>3. CASE t - a < Window
    <2> HIDE DEF ahead, t
    <2>1. ahead \div PerWindow \in Nat
      BY <1>1, <1>2, OneWindowMore
    <2> DEFINE q == ahead \div PerWindow
    <2> HIDE DEF q
    <2>2. q \in Nat
      BY <2>1 DEF q
    <2>3. Window * (q + 1) = Window * q + Window /\ Window * q \in Nat
      BY <1>1, <2>2
    <2>4. t - a < Window * (q + 1)
      BY <1>1, <1>2, <1>3, <2>3
    <2> QED BY <2>4 DEF q, ahead, t
  <1>4. CASE ~(t - a < Window)
    <2> DEFINE i == L + 1 - PerWindow
               before == Cardinality(AheadIn(s, i, a))
    <2>1. asked < t
      BY <1>1, <1>2, <1>4
    <2>2. L >= PerWindow /\ s[i].at + Window = t /\ i \in 1..(L + 1) /\ i \in 1..L
      BY <1>1, <2>1
    <2>3. s[i].at \in Nat /\ a <= s[i].at
      BY <1>1, <1>2, <1>4, <2>2
    <2>4. before \in Nat /\ ahead = before + PerWindow
      <3>1. /\ L + 1 \in Nat /\ L + 1 - i = PerWindow
        BY <1>1
      <3>2. s[i].at >= a
        BY <2>3
      <3> HIDE DEF i
      <3>3. /\ Cardinality(AheadIn(s, i, a)) \in Nat
            /\ Cardinality(AheadIn(s, L + 1, a)) = Cardinality(AheadIn(s, i, a)) + (L + 1 - i)
        BY <2>2, <3>1, <3>2, AheadGrows
      <3> QED BY <3>1, <3>3
    <2>5. s[i].at - a < Window * (before \div PerWindow + 1)
      BY <2>2, <2>3
    <2> HIDE DEF i, before, ahead, t
    <2> DEFINE q == before \div PerWindow
    <2>6. q \in Nat /\ ahead \div PerWindow = q + 1
      BY <1>1, <2>4, OneWindowMore
    <2>7. s[i].at - a < Window * (q + 1)
      BY <2>5
    <2> HIDE DEF q
    <2>8. Window * (q + 1 + 1) = Window * (q + 1) + Window /\ Window * (q + 1) \in Nat
      BY <1>1, <2>6
    <2>9. t - a < Window * (q + 1 + 1)
      BY <1>1, <1>2, <2>2, <2>3, <2>7, <2>8
    <2> QED BY <2>6, <2>9 DEF ahead, t
  <1> QED BY <1>3, <1>4

\* A start keeps the wait of everyone before it, and comes in time itself.
LEMMA WaitInv_Start ==
  ASSUME WaitInv, RateInv', TakeATurn, sent' # sent
  PROVE  SleepsForTheOldest' /\ HeldUpByTheRate' /\ TurnComesInTime'
  <1> DEFINE L == Len(sent)
             back == L + 1 - PerWindow
  <1>1. /\ LimiterTypeOK /\ LimiterTypeOK' /\ StartsInOrder /\ StartsInOrder'
        /\ NeverAboveTheRate' /\ QueueInOrder /\ InTheOrderTheyCame
        /\ HeldUpByTheRate /\ TurnComesInTime
        /\ PerWindow \in Nat \ {0} /\ Window \in Nat \ {0}
    BY RpcLimiterAssumption DEF WaitInv, RateInv, OrderInv
  <1>2. /\ now \in Nat /\ L \in Nat /\ DOMAIN sent = 1..L
        /\ \A i \in 1..L : sent[i].at \in Nat /\ sent[i].call \in Calls
        /\ \A c \in Calls : since[c] \in Nat
    BY <1>1, WaitFacts
  <1>3. /\ queue # <<>> /\ queue[1] \in Calls /\ queue' = Tail(queue)
        /\ now' = now /\ since' = since
        /\ DOMAIN sent' = 1..(L + 1)
        /\ \A i \in 1..L : sent'[i] = sent[i]
        /\ sent'[L + 1].at = now /\ sent'[L + 1].call = queue[1]
        /\ Len(sent') = L + 1
    BY <1>1, TurnAppends
  <1>4. wake' = 0
    BY <1>1 DEF TakeATurn, LimiterTypeOK
  <1>5. /\ \A i \in 1..(L + 1) : sent'[i].at \in Nat
        /\ \A i, j \in 1..(L + 1) : i <= j => sent'[i].at <= sent'[j].at
    BY <1>1, <1>2, <1>3 DEF StartsInOrder
  <1>6. ASSUME NEW n \in DOMAIN queue'
        PROVE  n + 1 \in DOMAIN queue /\ queue'[n] = queue[n + 1]
    <2>1. queue \in Seq(Calls)
      BY <1>1 DEF LimiterTypeOK
    <2> QED BY <1>3, <1>6, <2>1
  <1>7. 1 \in DOMAIN queue
    <2>1. queue \in Seq(Calls)
      BY <1>1 DEF LimiterTypeOK
    <2> QED BY <1>3, <2>1
  <1>8. SleepsForTheOldest'
    BY <1>2, <1>3, <1>4 DEF SleepsForTheOldest
  <1>9. HeldUpByTheRate'
    <2> SUFFICES ASSUME NEW n \in DOMAIN queue', since'[queue'[n]] < now'
                 PROVE  /\ Len(sent') >= PerWindow
                        /\ sent'[Len(sent') + 1 - PerWindow].at + Window >= now'
      BY DEF HeldUpByTheRate
    <2>1. since[queue[n + 1]] < now
      BY <1>3, <1>6
    <2>2. L >= PerWindow /\ sent[back].at + Window >= now
      BY <1>1, <1>6, <2>1 DEF HeldUpByTheRate
    <2>3. back \in 1..L /\ back \in 1..(L + 1) /\ back + 1 \in 1..(L + 1) /\ back <= back + 1
      BY <1>1, <1>2, <2>2
    <2>4. sent'[back].at = sent[back].at /\ sent'[back].at <= sent'[back + 1].at
      BY <1>3, <1>5, <2>3
    <2>5. sent'[back + 1].at \in Nat /\ sent[back].at \in Nat
      BY <1>2, <1>5, <2>3
    <2>6. Len(sent') + 1 - PerWindow = back + 1
      BY <1>1, <1>2, <1>3
    <2> DEFINE x == sent[back].at
               y == sent'[back + 1].at
    <2>7. x \in Nat /\ y \in Nat /\ x <= y /\ x + Window >= now
      BY <2>2, <2>4, <2>5
    <2>8. Len(sent') >= PerWindow /\ sent'[Len(sent') + 1 - PerWindow].at = y
      BY <1>1, <1>2, <1>3, <2>2, <2>6
    <2> HIDE DEF x, y, back, L
    <2>9. y + Window >= now
      BY <1>1, <1>2, <2>7
    <2> QED BY <1>3, <2>8, <2>9
  <1>10. ASSUME NEW j \in 1..(L + 1), NEW a \in Nat,
                since'[sent'[j].call] <= a, a <= sent'[j].at
         PROVE  sent'[j].at - a < Window * (Cardinality(AheadIn(sent', j, a)) \div PerWindow + 1)
    <2>1. ASSUME NEW i \in 1..L PROVE AheadIn(sent', i, a) = AheadIn(sent, i, a)
      <3>1. \A m \in 1..(i - 1) : sent'[m] = sent[m]
        BY <1>2, <1>3
      <3> QED BY <3>1 DEF AheadIn
    <2>2. ASSUME NEW i \in 1..L, since[sent[i].call] <= a, a <= sent[i].at
          PROVE  sent'[i].at - a < Window * (Cardinality(AheadIn(sent', i, a)) \div PerWindow + 1)
      <3>1. sent[i].at - a < Window * (Cardinality(AheadIn(sent, i, a)) \div PerWindow + 1)
        BY <1>1, <1>2, <2>2 DEF TurnComesInTime
      <3> QED BY <1>3, <2>1, <3>1
    <2>3. CASE j \in 1..L
      BY <1>3, <1>10, <2>2, <2>3
    <2>4. CASE j = L + 1
      <3> DEFINE asked == since[queue[1]]
      <3>1. asked \in Nat /\ asked <= a /\ a <= sent'[L + 1].at
        BY <1>2, <1>3, <1>10, <2>4
      <3>2. ASSUME asked < sent'[L + 1].at
            PROVE  L >= PerWindow /\ sent'[back].at + Window = sent'[L + 1].at
        <4>1. L >= PerWindow /\ sent[back].at + Window >= now
          BY <1>1, <1>3, <1>7, <3>2 DEF HeldUpByTheRate
        <4>2. back \in 1..L /\ back \in 1..(L + 1) /\ L + 1 \in 1..(L + 1) /\ L + 1 = back + PerWindow
          BY <1>1, <1>2, <4>1
        <4>3. sent'[L + 1].at - sent'[back].at >= Window
          BY <1>1, <1>3, <4>2 DEF NeverAboveTheRate
        <4>4. sent'[back].at = sent[back].at /\ sent[back].at \in Nat
          BY <1>2, <1>3, <4>2
        <4> DEFINE x == sent[back].at
        <4>5. x \in Nat /\ sent'[back].at = x /\ x + Window >= now /\ now - x >= Window
          BY <1>3, <4>1, <4>3, <4>4
        <4> HIDE DEF x, back
        <4>6. x + Window = now
          BY <1>1, <1>2, <4>5
        <4> QED BY <1>3, <4>1, <4>5, <4>6
      <3>3. ASSUME L >= PerWindow, a <= sent'[back].at
            PROVE  sent'[back].at - a
                     < Window * (Cardinality(AheadIn(sent', back, a)) \div PerWindow + 1)
        <4>1. back \in 1..L
          BY <1>1, <1>2, <3>3
        <4>2. since[sent[back].call] <= since[queue[1]]
          BY <1>1, <1>2, <1>7, <4>1 DEF InTheOrderTheyCame
        <4>3. since[sent[back].call] \in Nat
          BY <1>2, <4>1
        <4>4. since[sent[back].call] <= a
          BY <3>1, <4>2, <4>3
        <4>5. a <= sent[back].at
          BY <1>3, <3>3, <4>1
        <4> QED BY <2>2, <4>1, <4>4, <4>5
      <3> HIDE DEF asked
      <3>4. sent'[L + 1].at - a
              < Window * (Cardinality(AheadIn(sent', L + 1, a)) \div PerWindow + 1)
        BY <1>2, <1>5, <3>1, <3>2, <3>3, NextTurnComesInTime
      <3> QED BY <2>4, <3>4
    <2> QED BY <1>2, <2>3, <2>4
  <1>11. TurnComesInTime'
    BY <1>3, <1>10 DEF TurnComesInTime
  <1> QED BY <1>8, <1>9, <1>11

\* A head that is sent to sleep sleeps for the oldest that is remembered, and as many
\* are remembered as may go in a window.
LEMMA WaitInv_Sleep ==
  ASSUME WaitInv, RateInv', TakeATurn, sent' = sent
  PROVE  SleepsForTheOldest' /\ HeldUpByTheRate' /\ TurnComesInTime'
  <1>1. /\ LimiterTypeOK /\ ForgottenIsOld' /\ HeldUpByTheRate /\ TurnComesInTime
        /\ PerWindow \in Nat \ {0}
    BY RpcLimiterAssumption DEF WaitInv, RateInv
  <1>2. Len(sent) \in Nat /\ now \in Nat /\ first \in 1..(Len(sent) + 1)
    BY <1>1, WaitFacts
  <1>3. queue' = queue /\ now' = now /\ since' = since /\ first' \in first..(Len(sent) + 1)
    BY <1>1, TurnForgets
  <1>4. wake' = WakeAfter(first') /\ ~HasRoom(first')
    <2>1. sent # Append(sent, [call |-> Head(queue), at |-> now])
      BY <1>1 DEF LimiterTypeOK
    <2> QED BY <2>1 DEF TakeATurn
  <1>5. first' = Len(sent) + 1 - PerWindow /\ Len(sent) >= PerWindow
    <2>1. Len(sent) + 1 - first' <= PerWindow
      BY DEF ForgottenIsOld, RateInv
    <2> QED BY <1>1, <1>2, <1>3, <1>4, <2>1 DEF HasRoom
  <1>6. SleepsForTheOldest'
    BY <1>4, <1>5 DEF SleepsForTheOldest, WakeAfter
  <1> QED BY <1>1, <1>3, <1>6 DEF HeldUpByTheRate, TurnComesInTime

\* The clock moves on only while the head sleeps.
LEMMA WaitInv_Tick ==
  ASSUME WaitInv, Tick
  PROVE  SleepsForTheOldest' /\ HeldUpByTheRate' /\ TurnComesInTime'
  <1>1. /\ LimiterTypeOK /\ SleepsForTheOldest /\ TurnComesInTime /\ QueueInOrder
        /\ Window \in Nat /\ PerWindow \in Nat \ {0}
    BY RpcLimiterAssumption DEF WaitInv, RateInv, OrderInv
  <1>2. now \in Nat /\ wake \in Nat /\ queue \in Seq(Calls)
    BY <1>1, WaitFacts
  <1>3. /\ now' = now + 1 /\ sent' = sent /\ queue' = queue /\ since' = since /\ wake' = wake
        /\ queue # <<>> => ~(wake <= now)
    BY DEF Tick, HeadIsAwake
  <1>4. SleepsForTheOldest'
    BY <1>1, <1>2, <1>3 DEF SleepsForTheOldest
  <1>5. ASSUME NEW n \in DOMAIN queue
        PROVE  /\ Len(sent) >= PerWindow
               /\ sent[Len(sent) + 1 - PerWindow].at + Window >= now + 1
    <2>1. queue # <<>>
      BY <1>2, <1>5
    <2>2. wake > now
      BY <1>2, <1>3, <2>1
    <2> QED BY <1>1, <1>2, <2>2 DEF SleepsForTheOldest
  <1>6. HeldUpByTheRate'
    BY <1>3, <1>5 DEF HeldUpByTheRate
  <1> QED BY <1>1, <1>3, <1>4, <1>6 DEF TurnComesInTime

\* Whoever asks comes at this moment, and nobody else's call is moved.
LEMMA WaitInv_Ask ==
  ASSUME WaitInv, NEW c \in Calls, Ask(c)
  PROVE  SleepsForTheOldest' /\ HeldUpByTheRate' /\ TurnComesInTime'
  <1>1. /\ LimiterTypeOK /\ SleepsForTheOldest /\ HeldUpByTheRate /\ TurnComesInTime
        /\ QueueInOrder
    BY DEF WaitInv, RateInv, OrderInv
  <1>2. /\ now \in Nat /\ queue \in Seq(Calls) /\ since \in [Calls -> Nat]
        /\ DOMAIN sent = 1..Len(sent)
        /\ \A i \in 1..Len(sent) : sent[i].call \in Calls
        /\ \A n \in DOMAIN queue : queue[n] \in Calls
    BY <1>1, WaitFacts
  <1>3. /\ call[c] = "idle" /\ since' = [since EXCEPT ![c] = now] /\ queue' = Append(queue, c)
        /\ now' = now /\ sent' = sent /\ wake' = wake
    BY DEF Ask, AtTheEnd
  <1>4. /\ \A i \in DOMAIN sent : since'[sent[i].call] = since[sent[i].call]
        /\ \A n \in DOMAIN queue : since'[queue[n]] = since[queue[n]]
    BY <1>1, <1>2, <1>3 DEF QueueInOrder
  <1>5. SleepsForTheOldest'
    BY <1>1, <1>3 DEF SleepsForTheOldest
  <1>6. ASSUME NEW n \in DOMAIN queue', since'[queue'[n]] < now'
        PROVE  n \in DOMAIN queue /\ queue'[n] = queue[n]
    <2>1. /\ DOMAIN queue = 1..Len(queue) /\ DOMAIN queue' = 1..(Len(queue) + 1)
          /\ Len(queue) \in Nat /\ queue'[Len(queue) + 1] = c
          /\ \A m \in DOMAIN queue : queue'[m] = queue[m]
      BY <1>2, <1>3
    <2>2. n # Len(queue) + 1
      BY <1>2, <1>3, <1>6, <2>1
    <2> QED BY <2>1, <2>2
  <1>7. HeldUpByTheRate'
    BY <1>1, <1>3, <1>4, <1>6 DEF HeldUpByTheRate
  <1>8. TurnComesInTime'
    BY <1>1, <1>3, <1>4 DEF TurnComesInTime
  <1> QED BY <1>5, <1>7, <1>8

\* Nothing has started and nobody sleeps.
LEMMA WaitInv_Init == LimiterInit => WaitInv
  BY RateInv_Init, OrderInv_Init
  DEF LimiterInit, WaitInv, SleepsForTheOldest, HeldUpByTheRate, TurnComesInTime

\* Every step keeps the wait.
LEMMA WaitInv_Next == WaitInv /\ [LimiterNext]_limiterVars => WaitInv'
  <1> SUFFICES ASSUME WaitInv, [LimiterNext]_limiterVars PROVE WaitInv'
    OBVIOUS
  <1>1. RateInv' /\ OrderInv'
    BY RateInv_Next, OrderInv_Next DEF WaitInv
  <1>2. CASE TakeATurn
    BY <1>1, <1>2, WaitInv_Start, WaitInv_Sleep DEF WaitInv
  <1>3. CASE Tick
    BY <1>1, <1>3, WaitInv_Tick DEF WaitInv
  <1>4. ASSUME NEW c \in Calls, Ask(c) PROVE WaitInv'
    BY <1>1, <1>4, WaitInv_Ask DEF WaitInv
  <1>5. ASSUME \/ \E c \in Calls : Reply(c) \/ GiveUp(c)
               \/ UNCHANGED limiterVars
        PROVE  WaitInv'
    <2>1. /\ now' = now /\ sent' = sent /\ queue' = queue /\ since' = since /\ wake' = wake
      BY <1>5 DEF Reply, GiveUp, limiterVars
    <2> QED BY <1>1, <2>1 DEF WaitInv, SleepsForTheOldest, HeldUpByTheRate, TurnComesInTime
  <1> QED BY <1>2, <1>3, <1>4, <1>5 DEF LimiterNext

\* Nobody waits longer than a window for every PerWindow callers that went while it
\* waited (takeATurn of limiter.ts): what is slept for is the oldest remembered, so a
\* place is taken the moment the rate has room for it.
THEOREM NobodyWaitsTooLong == LimiterSpec => []NobodyIsKeptWaiting
  <1>1. ASSUME WaitInv PROVE NobodyIsKeptWaiting
    <2>1. LimiterTypeOK /\ TurnComesInTime
      BY <1>1 DEF WaitInv, RateInv
    <2>2. ASSUME NEW j \in DOMAIN sent
          PROVE  LET asked == since[sent[j].call]
                     ahead == Cardinality({i \in 1..(j - 1) : sent[i].at >= asked})
                 IN  sent[j].at - asked < Window * (ahead \div PerWindow + 1)
      <3> DEFINE asked == since[sent[j].call]
                 ahead == Cardinality(AheadIn(sent, j, asked))
                 q == ahead \div PerWindow
      <3>1. /\ PerWindow \in Nat \ {0} /\ Window \in Nat \ {0} /\ j \in Nat
            /\ asked \in Nat /\ sent[j].at \in Nat
        BY <2>1, WaitFacts, RpcLimiterAssumption
      <3>2. q \in Nat
        <4>1. IsFiniteSet(1..(j - 1))
          <5>1. 1 \in Int /\ j - 1 \in Int
            BY <3>1
          <5> HIDE DEF asked, ahead, q
          <5> QED BY <5>1, FS_Interval
        <4>2. AheadIn(sent, j, asked) \in SUBSET (1..(j - 1))
          BY DEF AheadIn
        <4>3. ahead \in Nat
          BY <4>1, <4>2, FS_Subset, FS_CardinalityType
        <4> QED BY <3>1, <4>3, OneWindowMore
      <3>3. CASE asked <= sent[j].at
        BY <2>1, <3>1, <3>3 DEF TurnComesInTime, AheadIn
      <3>4. CASE ~(asked <= sent[j].at)
        <4> DEFINE at == sent[j].at
        <4>1. at \in Nat /\ at < asked
          BY <3>1, <3>4
        <4> HIDE DEF asked, at, q
        <4>2. Window * (q + 1) \in Nat
          BY <3>1, <3>2
        <4>3. at - asked < Window * (q + 1)
          BY <3>1, <4>1, <4>2
        <4> QED BY <4>3 DEF at, asked, q, AheadIn
      <3> QED BY <3>3, <3>4
    <2> QED BY <2>2 DEF NobodyIsKeptWaiting
  <1> QED BY <1>1, WaitInv_Init, WaitInv_Next, PTL DEF LimiterSpec
==============================================================================
