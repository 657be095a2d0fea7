---------------------------- MODULE PositionRecords ----------------------------
(***************************************************************************)
(* What the web server's rows and the owner's page say of a position, and  *)
(* what the chain holds.  A build leaves a row that says 'building' and    *)
(* the messages the wallet may sign; a submit sends them one after the     *)
(* other and moves the row; one cron abandons the rows whose blockhash is  *)
(* past, another closes those whose account reads Closed.  Each await of   *)
(* theirs is a step, and any answer or write may be lost on the way.       *)
(***************************************************************************)
EXTENDS Naturals, Sequences, FiniteSetsExt

CONSTANTS
    \* The POSTs that may be under way at once.
    MaxRequests,
    \* The transactions of an open and of a close, each a sequence of steps.
    OpenPaths, ClosePaths,
    \* For how many blocks a blockhash is good.
    Life,
    \* How often the page asks before it gives up.
    Attempts,
    \* Bounds of an instance: block height, builds, calls that go wrong, and what
    \* others than this page may make of the account.
    MaxHeight, MaxBuilds, MaxFaults, OthersMake

\* The transactions a build may hold.
Steps == {"openAndBuy", "create", "open", "buy", "unwindAndClose", "unwind", "close"}

ASSUME PositionRecordsAssumption ==
    /\ MaxRequests \in Nat /\ Life \in Nat /\ Attempts \in Nat \ {0}
    /\ MaxHeight \in Nat /\ MaxBuilds \in Nat /\ MaxFaults \in Nat
    /\ OpenPaths \cup ClosePaths \subseteq Seq(Steps) \ {<<>>}
    /\ OthersMake \subseteq {"none", "held", "closed"}

VARIABLES
    height,    \* the block height
    position,  \* the account at the owner's address for this pair
    builds,    \* transaction_builds: what each build made, and what is stored of it
    tx,        \* tx[b][n]: where the n-th transaction of build b has come
    rows,      \* rows[b]: the status of the positions row an open build left
    request,   \* the POSTs to positions/submit
    page,      \* the sheet the owner looks at
    cron,      \* abandon-builds: the builds past the height it read, left to visit
    watch,     \* position-snapshot: the rows left to visit, and one found Closed
    faults,    \* calls that went wrong so far
    wasClosed  \* history: the builds since whose making the account was Closed

vars == <<height, position, builds, tx, rows, request, page, cron, watch, faults, wasClosed>>
chainVars == <<height, position, tx, wasClosed>>
cronVars == <<cron, watch>>

Bs == DOMAIN builds
Free == [at |-> "free", build |-> 0, next |-> 1]
Looking == [at |-> "idle", todo |-> {}, found |-> 0]

Wrong == faults < MaxFaults /\ faults' = faults + 1

------------------------------------------------------------------------------
(* The chain.                                                              *)

\* What each step needs the account to be, and what it makes of it.
Needs == [openAndBuy |-> "none", create |-> "none", open |-> "none", buy |-> "waiting",
          unwindAndClose |-> "held", unwind |-> "held", close |-> "closed"]
Makes == [openAndBuy |-> "held", create |-> "none", open |-> "waiting", buy |-> "held",
          unwindAndClose |-> "none", unwind |-> "closed", close |-> "none"]

InTime(b, n) == height <= builds[b].lastGood[n]

\* Preflight on the confirmed state; a transaction that has landed is refused,
\* one still on its way is taken again.
Takes(b, n) ==
    /\ InTime(b, n) /\ tx[b][n] \in {"unsent", "sent"}
    /\ position = Needs[builds[b].path[n]]

Tick ==
    /\ height < MaxHeight /\ height' = height + 1
    /\ UNCHANGED <<position, tx, wasClosed, builds, rows, request, page, cronVars, faults>>

\* The account becomes this.
Becomes(state) ==
    /\ position' = state
    /\ wasClosed' = IF state = "closed" THEN Bs ELSE wasClosed

\* In a block, if one takes it in time: it does what it should, or fails there.
Land(b, n) ==
    LET step == builds[b].path[n]
        does == position = Needs[step]
    IN  /\ tx[b][n] = "sent" /\ InTime(b, n)
        /\ tx' = [tx EXCEPT ![b][n] = IF does THEN "landed" ELSE "refused"]
        /\ IF does THEN Becomes(Makes[step]) ELSE UNCHANGED <<position, wasClosed>>
        /\ UNCHANGED <<height, builds, rows, request, page, cronVars, faults>>

\* External: what leaves no build behind it.  Anyone's leave and the owner's
\* rescue hand the position back, or stop half way in Closing while it owes,
\* and the rescue page closes the account that is handed back.
After == [none |-> {}, waiting |-> {"held", "closed"}, held |-> {"closed"}, closed |-> {"none"}]

OthersAct ==
    /\ \E made \in After[position] \cap OthersMake : Becomes(made)
    /\ UNCHANGED <<height, tx, builds, rows, request, page, cronVars, faults>>

------------------------------------------------------------------------------
(* The builds.                                                             *)

\* Each transaction takes the latest blockhash as it is assembled, so a later
\* one may live longer (here by one block, which allows all that less would);
\* the build keeps the height of the first.
NewBuild(path, opens, stored, row) ==
    /\ Len(builds) < MaxBuilds /\ height + Life < MaxHeight
    /\ builds' = Append(builds,
         [opens |-> opens, path |-> path, stored |-> stored, signed |-> FALSE,
          lastGood |-> [n \in DOMAIN path |-> height + Life + (IF n = 1 THEN 0 ELSE 1)]])
    /\ tx' = Append(tx, [n \in DOMAIN path |-> "unsent"])
    /\ rows' = Append(rows, row)

Show(at, b) == [page EXCEPT !.at = at, !.build = b, !.next = 1, !.says = "nothing"]

\* Either insert may fail, and the build is offered all the same.
BuildOpen ==
    /\ page.at \in {"idle", "failed", "done"} /\ position = "none"
    /\ \E path \in OpenPaths :
         \/ NewBuild(path, TRUE, TRUE, "building") /\ UNCHANGED faults
         \/ NewBuild(path, TRUE, TRUE, "none") /\ Wrong
         \/ NewBuild(path, TRUE, FALSE, "building") /\ Wrong
    /\ page' = Show("signing", Len(builds) + 1)
    /\ UNCHANGED <<height, position, wasClosed, request, cronVars>>

\* Forty seconds pass: the page is told so, and the build goes on to leave its row.
BuildOpenTooLate ==
    /\ page.at \in {"idle", "failed", "done"} /\ position = "none" /\ Wrong
    /\ \E path \in OpenPaths : NewBuild(path, TRUE, FALSE, "building")
    /\ page' = [Show("failed", 0) EXCEPT !.says = "nothing was sent"]
    /\ UNCHANGED <<height, position, wasClosed, request, cronVars>>

BuildClose ==
    /\ page.at \in {"idle", "failed", "done"} /\ position = "held"
    /\ \E path \in ClosePaths :
         \/ NewBuild(path, FALSE, TRUE, "none") /\ UNCHANGED faults
         \/ NewBuild(path, FALSE, FALSE, "none") /\ Wrong
    /\ page' = Show("signing", Len(builds) + 1)
    /\ UNCHANGED <<height, position, wasClosed, request, cronVars>>

------------------------------------------------------------------------------
(* The page: ReviewSheet for an open, useSubmit for a close.               *)

Fail(code) == [page EXCEPT !.at = "failed", !.says = code, !.request = {}, !.next = 1, !.left = 0]

\* What comes after signAndSubmit: the review sheet says the position is open,
\* useSubmit asks for the status of the first signature.
Submitted ==
    IF builds[page.build].opens THEN [page EXCEPT !.at = "done", !.says = "open", !.request = {}, !.next = 1]
    ELSE [page EXCEPT !.at = "polling", !.left = Attempts, !.request = {}, !.next = 1]

\* The wallet says no, or fails, at the first or at one after it.
SayNo ==
    /\ page.at = "signing" /\ page.next <= Len(builds[page.build].path)
    /\ page' = Fail("nothing was sent")
    /\ UNCHANGED <<chainVars, builds, rows, request, cronVars, faults>>

\* The same build, signed once more: the review sheet keeps it after a failure.
SignAgain ==
    /\ page.at = "failed" /\ page.build # 0 /\ builds[page.build].opens
    /\ page' = Show("signing", page.build)
    /\ UNCHANGED <<chainVars, builds, rows, request, cronVars, faults>>

Post(b, at) ==
    LET r == Min({i \in DOMAIN request : request[i].at = "free"})
    IN  /\ \E i \in DOMAIN request : request[i].at = "free"
        /\ request' = [request EXCEPT ![r] = [at |-> at, build |-> b, next |-> 1]]
        /\ page' = [page EXCEPT !.at = "waiting", !.request = {r}]

\* Signed, all of them, and posted.  Without a build id the body does not parse;
\* a height past the first blockhash refuses, and so does an old quote; a height
\* that cannot be read does not.  (What the chain is when the sends come is the
\* sends' affair, so all this is one step.)
PostTheSigned ==
    LET b == page.build
    IN  /\ page.at = "signing" /\ ~page.sends
        /\ \/ builds[b].stored /\ InTime(b, 1) /\ Post(b, "sending") /\ UNCHANGED faults
           \/ builds[b].stored /\ ~InTime(b, 1) /\ Post(b, "sending") /\ Wrong
           \/ page' = Fail("refused") /\ UNCHANGED <<request, faults>>
        /\ UNCHANGED <<chainVars, builds, rows, cronVars>>

\* A wallet that only signs and sends: it sends them itself, one after the other.
WalletSends ==
    LET b == page.build
    IN  /\ page.at = "signing" /\ page.sends /\ page.next <= Len(builds[b].path)
        /\ tx' = [tx EXCEPT ![b][page.next] = IF @ = "unsent" THEN "sent" ELSE @]
        /\ page' = [page EXCEPT !.next = @ + 1]
        /\ UNCHANGED <<height, position, wasClosed, builds, rows, request, cronVars, faults>>

\* It posts the signatures and does not look at the answer, a refusal (no
\* session, too many calls, no such build) included.
PostTheSignatures ==
    LET b == page.build
    IN  /\ page.at = "signing" /\ page.sends /\ page.next > Len(builds[b].path)
        /\ \/ /\ builds[b].stored
              /\ Post(b, "recording")
           \/ page' = Submitted /\ UNCHANGED request
        /\ UNCHANGED <<chainVars, builds, rows, cronVars, faults>>

\* The fetch throws, on the way there or back; the request knows nothing of it.
LoseTheAnswer ==
    /\ page.at = "waiting" /\ Wrong
    /\ page' = Fail("nothing was sent")
    /\ UNCHANGED <<chainVars, builds, rows, request, cronVars>>

AttemptsLeft(b) == page.left - 1

\* One look at the status of the first signature: refused as not the wallet's
\* when the signatures were not kept, pending, landed or failed.
Poll ==
    LET b == page.build
    IN  /\ page.at = "polling"
        /\ page' =
             IF builds[b].signed /\ tx[b][1] = "landed" THEN [page EXCEPT !.at = "done", !.says = "done", !.left = 0]
             ELSE IF builds[b].signed /\ tx[b][1] = "refused" THEN Fail("nothing was sent")
             ELSE IF AttemptsLeft(b) = 0 THEN Fail("nothing was sent")
             ELSE [page EXCEPT !.left = AttemptsLeft(b)]
        /\ UNCHANGED <<chainVars, builds, rows, request, cronVars, faults>>

------------------------------------------------------------------------------
(* POST positions/submit.                                                  *)

\* To the page, if it still waits for this one.
Answer(r, told) == page' = IF r \in page.request THEN told ELSE page

Row(b, status) ==
    rows' = IF builds[b].opens /\ rows[b] # "none" THEN [rows EXCEPT ![b] = status] ELSE rows

\* Slip: recorded after the first.
RecordAtOnce(b, n) == "recording"
AfterSending(b, n) == IF n = Len(builds[b].path) THEN "recording" ELSE "sending"

SendTheNext(r) ==
    LET b == request[r].build
        n == request[r].next
    IN  /\ request[r].at = "sending" /\ Takes(b, n)
        /\ tx' = [tx EXCEPT ![b][n] = "sent"]
        /\ request' = [request EXCEPT ![r].next = n + 1,
                                      ![r].at = AfterSending(b, n)]
        /\ UNCHANGED <<height, position, wasClosed, builds, rows, page, cronVars, faults>>

\* Refused in preflight, or an answer lost, the transaction sent or not.
SendThrows(r) ==
    LET b == request[r].build
        n == request[r].next
    IN  /\ request[r].at = "sending"
        /\ \/ /\ ~Takes(b, n) /\ UNCHANGED <<tx, faults>>
              /\ request' = [request EXCEPT ![r].at =
                                IF InTime(b, n) THEN "nothing was sent" ELSE "refused"]
           \/ /\ Takes(b, n) /\ Wrong /\ (UNCHANGED tx \/ tx' = [tx EXCEPT ![b][n] = "sent"])
              /\ request' = [request EXCEPT ![r].at = "nothing was sent"]
        /\ UNCHANGED <<height, position, wasClosed, builds, rows, page, cronVars>>

\* Slip: open only if the first has landed by then.
OpenIfLanded(b) == IF tx[b][1] = "landed" THEN "open" ELSE "failed"
StatusOnceSent(b) == "open"

\* recordTheSignatures, then markItOpen: either update may fail, and neither says so.
RecordIt(r) ==
    LET b == request[r].build
    IN  /\ request[r].at = "recording"
        /\ \/ builds' = [builds EXCEPT ![b].signed = TRUE] /\ Row(b, StatusOnceSent(b)) /\ UNCHANGED faults
           \/ Wrong /\ builds' = [builds EXCEPT ![b].signed = TRUE] /\ UNCHANGED rows
           \/ Wrong /\ Row(b, StatusOnceSent(b)) /\ UNCHANGED builds
        /\ request' = [request EXCEPT ![r] = Free]
        /\ Answer(r, Submitted)
        /\ UNCHANGED <<chainVars, cronVars>>

WhyItFailed == {"nothing was sent", "refused"}

\* markItFailed, which may fail as quietly.
MarkItFailed(r) ==
    /\ request[r].at \in WhyItFailed
    /\ \/ Row(request[r].build, "failed") /\ UNCHANGED faults
       \/ Wrong /\ UNCHANGED rows
    /\ request' = [request EXCEPT ![r] = Free]
    /\ Answer(r, Fail(request[r].at))
    /\ UNCHANGED <<chainVars, builds, cronVars>>

\* The process goes in the middle of it, with the signatures kept or not; the
\* page's fetch throws.
Die(r) ==
    /\ request[r].at # "free" /\ Wrong
    /\ \/ UNCHANGED builds
       \/ /\ request[r].at = "recording"
          /\ builds' = [builds EXCEPT ![request[r].build].signed = TRUE]
    /\ request' = [request EXCEPT ![r] = Free]
    /\ Answer(r, Fail("nothing was sent"))
    /\ UNCHANGED <<chainVars, rows, cronVars>>

------------------------------------------------------------------------------
(* The crons.                                                              *)

\* abandon-builds reads the height, then the open builds that have a row, and
\* passes over those the height is not past without waiting for anything.  (A
\* build made between the two reads is one of them.)
Kept == {b \in Bs : builds[b].opens /\ builds[b].stored /\ rows[b] # "none"}
\* Slip: the height that is still good taken for past.
PastOrLast == {b \in Kept : builds[b].lastGood[1] <= height}
Past == {b \in Kept : builds[b].lastGood[1] < height}

ReadTheHeight ==
    /\ cron = {} /\ Past # {}
    /\ cron' = Past
    /\ UNCHANGED <<chainVars, builds, rows, request, page, watch, faults>>

\* Slips: the status not asked for, the walk ended by a row that has moved on.
WhateverItIs(b) == TRUE
StillBuilding(b) == rows[b] = "building"
LeftWhileBuilding(b) == IF StillBuilding(b) THEN cron \ {b} ELSE {}
LeftAfter(b) == cron \ {b}

AbandonOne(b) ==
    /\ b \in cron
    /\ rows' = IF StillBuilding(b) THEN [rows EXCEPT ![b] = "abandoned"] ELSE rows
    /\ cron' = LeftAfter(b)
    /\ UNCHANGED <<chainVars, builds, request, page, watch, faults>>

\* A read or an update throws, and the rest is left for the next time.
StopAbandoning ==
    /\ cron # {} /\ Wrong
    /\ cron' = {}
    /\ UNCHANGED <<chainVars, builds, rows, request, page, watch>>

\* Slip: only those whose signatures were kept.
OpenRowsWithSignatures == {b \in Bs : rows[b] = "open" /\ builds[b].signed}
OpenRows == {b \in Bs : rows[b] = "open"}

\* position-snapshot reads the rows that are open.
ReadTheOpenRows ==
    /\ watch.at = "idle" /\ OpenRows # {}
    /\ watch' = [at |-> "reading", todo |-> OpenRows, found |-> 0]
    /\ UNCHANGED <<chainVars, builds, rows, request, page, cron, faults>>

\* Slip: an account that is not there taken for one that is closed.
ClosedOrGone == position \in {"closed", "none"}
ReadsClosed == position = "closed"

\* An account that is not there, or cannot be fetched, is passed over; what is
\* read or written after it was fetched ends the run if it throws.
ReadOnePosition(b) ==
    /\ watch.at = "reading" /\ watch.found = 0 /\ b \in watch.todo
    /\ \/ watch' = [watch EXCEPT !.todo = @ \ {b}, !.found = IF ReadsClosed THEN b ELSE 0]
          /\ UNCHANGED faults
       \/ watch' = [watch EXCEPT !.todo = @ \ {b}] /\ Wrong
       \/ position # "none" /\ watch' = Looking /\ Wrong
    /\ UNCHANGED <<chainVars, builds, rows, request, page, cron>>

\* Whatever the row has become since; an insert or update that throws ends the
\* run.
CloseTheRow ==
    /\ watch.found # 0
    /\ \/ /\ rows' = [rows EXCEPT ![watch.found] = "closed"]
          /\ watch' = [watch EXCEPT !.found = 0]
          /\ UNCHANGED faults
       \/ watch' = Looking /\ UNCHANGED rows /\ Wrong
    /\ UNCHANGED <<chainVars, builds, request, page, cron>>

StopWatching ==
    /\ watch.at = "reading" /\ watch.todo = {} /\ watch.found = 0
    /\ watch' = Looking
    /\ UNCHANGED <<chainVars, builds, rows, request, page, cron, faults>>

------------------------------------------------------------------------------
Init ==
    /\ height = 0 /\ position = "none"
    /\ builds = <<>> /\ tx = <<>> /\ rows = <<>>
    /\ request = [r \in 1..MaxRequests |-> Free]
    /\ \E sends \in BOOLEAN :
         page = [at |-> "idle", build |-> 0, next |-> 1, request |-> {}, left |-> 0,
                 says |-> "nothing", sends |-> sends]
    /\ cron = {} /\ watch = Looking /\ faults = 0 /\ wasClosed = {}

\* What the server does of a request until it answers.
Serve(r) ==
    SendTheNext(r) \/ SendThrows(r) \/ RecordIt(r) \/ MarkItFailed(r)

Abandon == ReadTheHeight \/ \E b \in Bs : AbandonOne(b)

Watch == ReadTheOpenRows \/ (\E b \in Bs : ReadOnePosition(b)) \/ CloseTheRow \/ StopWatching

Browse ==
    \/ BuildOpen \/ BuildOpenTooLate \/ BuildClose
    \/ SayNo \/ SignAgain \/ PostTheSigned \/ WalletSends \/ PostTheSignatures

Next ==
    \/ Tick \/ \E b \in Bs : \E n \in DOMAIN builds[b].path : Land(b, n)
    \/ OthersAct
    \/ Browse \/ LoseTheAnswer \/ Poll
    \/ \E r \in DOMAIN request : Serve(r) \/ Die(r)
    \/ Abandon \/ StopAbandoning \/ Watch

Spec == Init /\ [][Next]_vars

\* Blocks go by, the crons come round and the server answers.  Nothing says that
\* the owner or the page goes on, or that a transaction sent ever lands.
FairSpec ==
    /\ Spec /\ WF_vars(Tick) /\ WF_vars(Abandon) /\ WF_vars(Watch)
    /\ \A r \in 1..MaxRequests : WF_vars(Serve(r))
------------------------------------------------------------------------------
(* Properties.                                                             *)

Statuses == {"none", "building", "open", "failed", "abandoned", "closed"}

TypeOK ==
    /\ height \in 0..MaxHeight /\ faults \in 0..MaxFaults
    /\ position \in {"none", "waiting", "held", "closed"}
    /\ DOMAIN rows = Bs /\ DOMAIN tx = Bs
    /\ \A b \in Bs :
         /\ rows[b] \in Statuses
         /\ \A n \in DOMAIN tx[b] : tx[b][n] \in {"unsent", "sent", "landed", "refused"}
    /\ \A r \in DOMAIN request :
         /\ request[r].at \in {"free", "sending", "recording"} \cup WhyItFailed
         /\ request[r].build \in Bs \cup {0}
    /\ page.at \in {"idle", "signing", "waiting", "polling", "done", "failed"}
    /\ page.left \in 0..Attempts /\ page.build \in Bs \cup {0} /\ page.request \subseteq DOMAIN request
    /\ cron \subseteq Bs /\ watch.todo \subseteq Bs /\ wasClosed \subseteq Bs

\* The cron never gives up a build that may still begin: once a row is abandoned
\* and its build's first transaction has not landed, that one never does, and so
\* no position comes of it, however the cron's height, its list and a submit
\* under way fall together.
AbandonedNeverBegins ==
    [][\A b \in Bs : (rows[b] = "abandoned" /\ tx[b][1] # "landed")
                        => (rows'[b] = "abandoned" => tx'[b][1] # "landed")]_vars

\* A row says open, or closed, only of a build whose every transaction went out,
\* the wallet's own sends and a second submit of the same build included.
OpenRowsWentOut ==
    \A b \in Bs : rows[b] \in {"open", "closed"} => \A n \in DOMAIN tx[b] : tx[b][n] # "unsent"

\* A row says closed only of a position whose account was Closed at some moment
\* since its build was made, whether an unwind, a leave or a rescue closed it: an
\* account that is not there yet or cannot be read is never taken for one, and no
\* row pays for what an earlier position at its address came to.
ClosedRowsWereHandedBack ==
    \A b \in Bs : rows[b] = "closed" => b \in wasClosed

\* Unless a call went wrong, a row says failed only of a build that was not sent
\* whole.
FailedRowsLackATransaction ==
    faults = 0 =>
        \A b \in Bs : rows[b] = "failed" =>
            \/ \E n \in DOMAIN tx[b] : tx[b][n] = "unsent"
            \/ \E r \in DOMAIN request : request[r].at = "recording" /\ request[r].build = b

\* Unless a call went wrong, a sheet that says the position is open has a row
\* that says so, whichever of the crons ran since.  Where the wallet sent the
\* transactions itself this holds of signatures that were kept: the page does not
\* look at the answer that refuses them, and goes on to say open.
OpenedIsRecorded ==
    (/\ faults = 0 /\ page.at = "done" /\ page.says = "open"
     /\ page.sends => builds[page.build].signed)
      => rows[page.build] \in {"open", "closed"}

\* A build that was kept leaves 'building' in the end, signed or not, as long as
\* it has a row.
BuildingEnds ==
    \A b \in 1..MaxBuilds :
        (b \in Bs /\ builds[b].stored /\ rows[b] = "building") ~> (b \in Bs /\ rows[b] # "building")

\* While an account stays Closed, rows do not go on calling it open.
ClosedAccountsCloseTheirRows ==
    (position = "closed" /\ \E b \in Bs : rows[b] = "open")
        ~> (position # "closed" \/ \A b \in Bs : rows[b] # "open")

\* When the sheet says that nothing was sent, nothing of that build was.
NothingWasSent ==
    (page.at = "failed" /\ page.build # 0
       /\ page.says = "nothing was sent")
      => \A n \in DOMAIN tx[page.build] : tx[page.build][n] = "unsent"
==============================================================================
