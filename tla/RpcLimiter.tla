------------------------------ MODULE RpcLimiter ------------------------------
(***************************************************************************)
(* The queue every call to the chain goes through.  One client serves the  *)
(* whole process: its limiter lets callers through in the order they came, *)
(* no more than PerWindow in a window, and a call that takes longer than   *)
(* its deadline, the wait in the queue included, is given up on by the one *)
(* who made it and by nobody else: its turn comes all the same, and then   *)
(* it is sent.                                                             *)
(***************************************************************************)
EXTENDS Integers, Sequences, FiniteSets

CONSTANTS
    \* The calls that are made, each once.
    Calls,
    \* requestsPerSecond, the window it counts over and the deadline of a call.
    PerWindow, Window, Deadline,
    \* Bound of an instance: the clock; calls are made while it has room for
    \* their deadline.
    MaxTime

ASSUME RpcLimiterAssumption ==
    /\ PerWindow \in Nat \ {0} /\ Window \in Nat \ {0} /\ Deadline \in Nat /\ MaxTime \in Nat

VARIABLES
    now,      \* Date.now(), which is taken never to go back
    call,     \* per call: idle, waiting, running, answered or gaveUp
    since,    \* when it was made
    queue,    \* the calls that have not had their turn, in the order they came
    sent,     \* the calls that have, with their times
    first,    \* startedAt is sent[first], sent[first + 1], ... : what is remembered
    wake      \* the head of the queue sleeps until then

limiterVars == <<now, call, since, queue, sent, first, wake>>

------------------------------------------------------------------------------
\* Slip: the latest comer goes first.
AtTheFront(c) == <<c>> \o queue
AtTheEnd(c) == Append(queue, c)

\* limitedBy: a place in the queue at once, and a deadline beside it.
Ask(c) ==
    /\ call[c] = "idle" /\ now + Deadline <= MaxTime
    /\ call' = [call EXCEPT ![c] = "waiting"]
    /\ since' = [since EXCEPT ![c] = now]
    /\ queue' = AtTheEnd(c)
    /\ UNCHANGED <<now, sent, first, wake>>

IsOld(i) == now - sent[i].at >= Window

\* The loop that shifts the oldest while it is a window old, and stops at the
\* first that is not.
Forgets(k) ==
    /\ k \in first..(Len(sent) + 1)
    /\ \A i \in first..(k - 1) : IsOld(i)
    /\ k <= Len(sent) => ~IsOld(k)

\* Slip: one too many remembered.
HasAlmostRoom(k) == Len(sent) + 1 - k <= PerWindow
HasRoom(k) == Len(sent) + 1 - k < PerWindow

\* Slip: a whole window from the latest, not from the oldest remembered.
WakeAfterTheLatest(k) == sent[Len(sent)].at + Window
WakeAfter(k) == sent[k].at + Window

HeadIsAwake == queue # <<>> /\ wake <= now

\* takeATurn for the head of the queue: through, or asleep until the oldest that
\* is remembered is a window old.
TakeATurn ==
    /\ HeadIsAwake
    /\ \E k \in first..(Len(sent) + 1) :
         /\ Forgets(k) /\ first' = k
         /\ \/ /\ HasRoom(k)
               /\ sent' = Append(sent, [call |-> Head(queue), at |-> now])
               /\ queue' = Tail(queue)
               /\ call' = [call EXCEPT ![Head(queue)] = IF @ = "waiting" THEN "running" ELSE @]
               /\ wake' = 0
            \/ /\ ~HasRoom(k)
               /\ wake' = WakeAfter(k)
               /\ UNCHANGED <<call, queue, sent>>
    /\ UNCHANGED <<now, since>>

\* The transport answers, or throws.
Reply(c) ==
    /\ call[c] = "running"
    /\ call' = [call EXCEPT ![c] = "answered"]
    /\ UNCHANGED <<now, since, queue, sent, first, wake>>

\* Slip: the deadline covers the queue alone.
OverdueInTheQueue(c) == call[c] = "waiting" /\ now >= since[c] + Deadline
Overdue(c) == call[c] \in {"waiting", "running"} /\ now >= since[c] + Deadline

\* TheCallTookTooLong.
GiveUp(c) ==
    /\ Overdue(c)
    /\ call' = [call EXCEPT ![c] = "gaveUp"]
    /\ UNCHANGED <<now, since, queue, sent, first, wake>>

\* The timers fire when they are due, and what they wake runs before the clock
\* moves on: a tick is long beside the event loop.
Tick ==
    /\ ~HeadIsAwake /\ \A c \in Calls : ~Overdue(c)
    /\ now < MaxTime /\ now' = now + 1
    /\ UNCHANGED <<call, since, queue, sent, first, wake>>

------------------------------------------------------------------------------
LimiterInit ==
    /\ now = 0 /\ queue = <<>> /\ sent = <<>> /\ first = 1 /\ wake = 0
    /\ call = [c \in Calls |-> "idle"] /\ since = [c \in Calls |-> 0]

LimiterNext == TakeATurn \/ Tick \/ \E c \in Calls : Ask(c) \/ Reply(c) \/ GiveUp(c)

LimiterSpec == LimiterInit /\ [][LimiterNext]_limiterVars

\* The timers fire, the event loop comes round.  Nothing says the transport ever
\* answers.
LimiterFairness ==
    /\ WF_limiterVars(Tick) /\ WF_limiterVars(TakeATurn)
    /\ \A c \in Calls : WF_limiterVars(GiveUp(c))

------------------------------------------------------------------------------
(* Properties.                                                             *)

\* The types of the variables.
LimiterTypeOK ==
    /\ now \in Nat /\ call \in [Calls -> {"idle", "waiting", "running", "answered", "gaveUp"}]
    /\ since \in [Calls -> Nat] /\ queue \in Seq(Calls)
    /\ sent \in Seq([call : Calls, at : Nat])
    /\ first \in 1..(Len(sent) + 1) /\ wake \in Nat

\* The provider never sees more than PerWindow calls start within a window,
\* wherever the window is laid, though only the calls remembered are counted.
NeverAboveTheRate ==
    \A i, j \in DOMAIN sent : j = i + PerWindow => sent[j].at - sent[i].at >= Window

\* Callers go through in the order they came.
InTheOrderTheyCame ==
    /\ \A i, j \in DOMAIN sent : i < j => since[sent[i].call] <= since[sent[j].call]
    /\ \A i \in DOMAIN sent, n \in DOMAIN queue : since[sent[i].call] <= since[queue[n]]

\* Nobody waits longer than a window for every PerWindow callers that went while
\* it waited.
NobodyIsKeptWaiting ==
    \A j \in DOMAIN sent :
        LET asked == since[sent[j].call]
            ahead == Cardinality({i \in 1..(j - 1) : sent[i].at >= asked})
        IN  sent[j].at - asked < Window * (ahead \div PerWindow + 1)

\* Who made a call is answered, or told that it took too long, whether or not
\* the transport ever answers; and every call has its turn, given up on by then
\* or not, so nothing is left in the way of later ones.
EveryCallEnds ==
    \A c \in Calls :
        (call[c] = "waiting") ~> (/\ call[c] \in {"answered", "gaveUp"}
                                  /\ \E i \in DOMAIN sent : sent[i].call = c)
==============================================================================
