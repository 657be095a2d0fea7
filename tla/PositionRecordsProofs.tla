------------------------- MODULE PositionRecordsProofs -------------------------
(***************************************************************************)
(* That the rows of PositionRecords say what happened to their positions,  *)
(* for any number of builds, requests and blocks.  The argument follows a  *)
(* build from the page through a request to its row: whatever is said of   *)
(* it further on was true of its transactions when it was said, and no     *)
(* transaction is ever taken back.                                         *)
(***************************************************************************)
EXTENDS PositionRecords, SequenceTheorems, WellFoundedInduction, TLAPS

TxStates == {"unsent", "sent", "landed", "refused"}
Rs == 1..MaxRequests
Places == Nat \ {0}

Build == [opens : BOOLEAN, path : Seq(Steps) \ {<<>>}, stored : BOOLEAN, signed : BOOLEAN,
          lastGood : Seq(Nat)]
Request == [at : {"free", "sending", "recording", "nothing was sent", "refused"},
            build : Nat, next : Nat]
Sheet == [at : {"idle", "signing", "waiting", "polling", "done", "failed"},
          build : Nat, next : Places, request : SUBSET Rs, left : 0..Attempts,
          says : {"nothing", "nothing was sent", "refused", "open", "done"}, sends : BOOLEAN]
Walk == [at : {"idle", "reading"}, todo : SUBSET Nat, found : Nat]

\* The types, and that a build, its transactions and its row go together.
Shapes ==
    /\ height \in 0..MaxHeight /\ faults \in 0..MaxFaults
    /\ position \in {"none", "waiting", "held", "closed"} /\ wasClosed \subseteq Bs
    /\ builds \in Seq(Build) /\ tx \in Seq(Seq(TxStates)) /\ rows \in Seq(Statuses)
    /\ Len(tx) = Len(builds) /\ Len(rows) = Len(builds)
    /\ \A b \in Bs : Len(tx[b]) = Len(builds[b].path) /\ Len(builds[b].lastGood) = Len(builds[b].path)
    /\ request \in [Rs -> Request] /\ page \in Sheet /\ watch \in Walk
    /\ cron \subseteq Bs /\ watch.todo \subseteq Bs /\ watch.found \in Bs \cup {0}
    /\ page.build \in Bs \cup {0}
    /\ page.at \in {"signing", "waiting", "polling"} => page.build # 0
    /\ page.at = "polling" => page.left # 0
    /\ page.request # {} => page.at = "waiting"
    /\ \A r \in Rs :
         /\ request[r].build \in Bs \cup {0}
         /\ request[r].at # "free" => request[r].build # 0
         /\ request[r].at = "sending" => request[r].next \in 1..Len(builds[request[r].build].path)

WentOut(b) == \A n \in DOMAIN tx[b] : tx[b][n] # "unsent"
WentOutTo(b, n) == \A k \in DOMAIN tx[b] : k < n => tx[b][k] # "unsent"

\* Whoever counts a build's transactions, the page, a request, its row or the
\* cron that reads the rows, those counted went out.
SentInOrder ==
    /\ page.at = "signing" => WentOutTo(page.build, page.next)
    /\ \A r \in Rs : request[r].at = "sending" => WentOutTo(request[r].build, request[r].next)
    /\ \A r \in Rs : request[r].at = "recording" => WentOut(request[r].build)
    /\ \A b \in Bs : (rows[b] \in {"open", "closed"} \/ b \in watch.todo \/ b = watch.found)
                        => WentOut(b)

\* Only builds to open have rows that move.
OpensHaveRows ==
    \A b \in Bs : (rows[b] # "none" \/ b \in watch.todo \/ b = watch.found) => builds[b].opens

\* What the cron has to visit and what it gave up on is past its blockhash.
GivenUpIsPast ==
    \A b \in Bs : (b \in cron \/ rows[b] = "abandoned") => builds[b].lastGood[1] < height

\* What is called closed was handed back: the account was Closed since its build.
ClosedIsHandedBack ==
    /\ position = "closed" => wasClosed = Bs
    /\ watch.found # 0 => watch.found \in wasClosed
    /\ \A b \in Bs : rows[b] = "closed" => b \in wasClosed

\* A wallet that sends by itself never has a build sent for it, so none fails.
SentHereOrThere ==
    /\ page.sends => /\ \A r \in Rs : request[r].at \in {"free", "recording"}
                     /\ \A b \in Bs : rows[b] # "failed"
    /\ page.at = "polling" => ~builds[page.build].opens

\* The last is to be sent: nothing was recorded.
LastUnsent(b) == tx[b][Len(tx[b])] = "unsent"

\* As long as no call went wrong: every build was kept and has its row, which says
\* open once its signatures are kept; one request at most is under way and the page
\* waits for it, and what is still to be signed, being sent or said to have failed
\* has its last transaction unsent.
UnlessAnyWentWrong ==
    faults = 0 =>
        /\ \A b \in Bs : builds[b].stored /\ (builds[b].opens => rows[b] # "none")
        /\ \A b \in Bs : (builds[b].opens /\ builds[b].signed) => rows[b] \in {"open", "closed"}
        /\ \A r \in Rs : request[r].at # "free" =>
             /\ page.at = "waiting" /\ page.request = {r} /\ request[r].build = page.build
             /\ request[r].at # "recording" => LastUnsent(page.build)
        /\ (~page.sends /\ page.build # 0
              /\ (page.at = "signing" \/ (page.at = "failed" /\ builds[page.build].opens)))
             => LastUnsent(page.build)
        /\ \A b \in Bs : rows[b] = "failed" =>
             LastUnsent(b) \/ \E r \in Rs : request[r].at = "recording" /\ request[r].build = b
        /\ (page.at = "done" /\ page.says = "open")
             => /\ page.build # 0 /\ builds[page.build].opens
                /\ page.sends \/ builds[page.build].signed

RecordsInv ==
    /\ Shapes /\ SentInOrder /\ OpensHaveRows /\ GivenUpIsPast /\ ClosedIsHandedBack
    /\ SentHereOrThere /\ UnlessAnyWentWrong

\* The bounds are natural numbers, and the page asks at least once.
LEMMA Bounds ==
    /\ MaxRequests \in Nat /\ Life \in Nat /\ Attempts \in Nat /\ Attempts # 0
    /\ MaxHeight \in Nat /\ MaxBuilds \in Nat /\ MaxFaults \in Nat
    /\ 0 \in 0..Attempts /\ 1 \in Places
BY PositionRecordsAssumption DEF Places

\* Min of a set of natural numbers is one of them.
LEMMA MinOfNaturals ==
    ASSUME NEW T \in SUBSET Nat, T # {}
    PROVE  Min(T) \in T
<1>1. IsWellFoundedOn({ss \in Nat \X Nat : ss[1] < ss[2]}, Nat)
  BY NatLessThanWellFounded DEF OpToRel
<1>2. PICK x \in T : \A y \in T : ~ (<<y, x>> \in {ss \in Nat \X Nat : ss[1] < ss[2]})
  BY <1>1, WFMin
<1>3. ASSUME NEW y \in T PROVE x <= y
  <2>1. x \in Nat /\ y \in Nat
    OBVIOUS
  <2>2. <<y, x>> \in Nat \X Nat /\ <<y, x>>[1] = y /\ <<y, x>>[2] = x
    BY <2>1
  <2>3. ~(y < x)
    BY <1>2, <2>2
  <2>4. QED
    BY <2>1, <2>3
<1>4. QED
  BY <1>3 DEF Min

------------------------------------------------------------------------------
(* Steps that leave the builds, their transactions and their rows alone.   *)

\* What then stays the same of them.
LEMMA SameTables ==
    ASSUME Shapes, UNCHANGED <<builds, tx, rows>>
    PROVE  /\ Bs' = Bs
           /\ \A b : (WentOut(b)' <=> WentOut(b)) /\ (LastUnsent(b)' <=> LastUnsent(b))
           /\ \A b, n : WentOutTo(b, n)' <=> WentOutTo(b, n)
BY DEF Bs, WentOut, WentOutTo, LastUnsent

\* The sheet alone moves, and a call may go wrong: what the sheet then says of its
\* build is what the invariant lets it say.
LEMMA SheetKeepsInv ==
    ASSUME RecordsInv, UNCHANGED <<height, position, wasClosed, builds, tx, rows, request, cron, watch>>,
           page' \in Sheet, faults' \in 0..MaxFaults, faults' = 0 => faults = 0,
           page'.sends = page.sends, page'.build \in Bs \cup {0},
           page'.at \in {"signing", "waiting", "polling"} => page'.build # 0,
           page'.at = "polling" => page'.left # 0 /\ ~builds[page'.build].opens,
           page'.at = "signing" => page'.next = 1, page'.request = {},
           faults' = 0 =>
             /\ \A r \in Rs : request[r].at = "free"
             /\ (~page.sends /\ page'.build # 0
                  /\ (page'.at = "signing" \/ (page'.at = "failed" /\ builds[page'.build].opens)))
                 => LastUnsent(page'.build)
             /\ (page'.at = "done" /\ page'.says = "open")
                 => page'.build # 0 /\ builds[page'.build].opens /\ page.sends
    PROVE  RecordsInv'
<1>1. Bs' = Bs
      /\ (\A b : (WentOut(b)' <=> WentOut(b)) /\ (LastUnsent(b)' <=> LastUnsent(b)))
      /\ (\A b, n : WentOutTo(b, n)' <=> WentOutTo(b, n))
  BY SameTables DEF RecordsInv
<1>2. Shapes'
  BY <1>1 DEF RecordsInv, Shapes
<1>3. SentInOrder'
  <2>1. page'.at = "signing" => WentOutTo(page'.build, page'.next)
    <3>1. \A b \in Bs : WentOutTo(b, 1)
      BY SMTT(30) DEF WentOutTo, RecordsInv, Shapes, Bs
    <3>2. QED
      BY <3>1
  <2>2. QED
    BY <1>1, <2>1 DEF RecordsInv, SentInOrder
<1>4. OpensHaveRows' /\ GivenUpIsPast' /\ ClosedIsHandedBack'
  BY <1>1 DEF RecordsInv, OpensHaveRows, GivenUpIsPast, ClosedIsHandedBack
<1>5. SentHereOrThere'
  BY <1>1 DEF RecordsInv, SentHereOrThere
<1>6. UnlessAnyWentWrong'
  BY <1>1 DEF RecordsInv, UnlessAnyWentWrong
<1>7. QED
  BY <1>2, <1>3, <1>4, <1>5, <1>6 DEF RecordsInv

\* The walks of the crons alone move.
LEMMA WalksKeepInv ==
    ASSUME RecordsInv, UNCHANGED <<height, position, wasClosed, builds, tx, rows, request, page>>,
           faults' \in 0..MaxFaults, faults' = 0 => faults = 0,
           cron' \subseteq Bs, \A b \in cron' : builds[b].lastGood[1] < height,
           watch' \in Walk, watch'.todo \subseteq Bs, watch'.found \in Bs \cup {0},
           \A b \in watch'.todo \cup {watch'.found} :
               b # 0 => b = watch.found \/ b \in watch.todo \/ rows[b] = "open",
           watch'.found # 0 => position = "closed" \/ watch'.found = watch.found
    PROVE  RecordsInv'
<1>1. Bs' = Bs
      /\ (\A b : (WentOut(b)' <=> WentOut(b)) /\ (LastUnsent(b)' <=> LastUnsent(b)))
      /\ (\A b, n : WentOutTo(b, n)' <=> WentOutTo(b, n))
  BY SameTables DEF RecordsInv
<1>2. Shapes'
  BY <1>1 DEF RecordsInv, Shapes
<1>3. \A b \in Bs : b # 0
  BY DEF RecordsInv, Shapes, Bs
<1>4. SentInOrder' /\ OpensHaveRows'
  <2>1. \A b \in Bs : (b \in watch'.todo \/ b = watch'.found) => WentOut(b) /\ builds[b].opens
    BY <1>3 DEF RecordsInv, SentInOrder, OpensHaveRows
  <2>2. QED
    BY <1>1, <2>1 DEF RecordsInv, SentInOrder, OpensHaveRows
<1>5. GivenUpIsPast' /\ ClosedIsHandedBack'
  BY <1>1 DEF RecordsInv, GivenUpIsPast, ClosedIsHandedBack
<1>6. SentHereOrThere'
  BY <1>1 DEF RecordsInv, SentHereOrThere
<1>7. UnlessAnyWentWrong'
  BY <1>1 DEF RecordsInv, UnlessAnyWentWrong
<1>8. QED
  BY <1>2, <1>4, <1>5, <1>6, <1>7 DEF RecordsInv

\* What a failure leaves of the sheet.
LEMMA TheSheetOfAFailure ==
    ASSUME Shapes, NEW code \in {"nothing was sent", "refused"}
    PROVE  /\ Fail(code) \in Sheet /\ Fail(code).at = "failed" /\ Fail(code).build = page.build
           /\ Fail(code).sends = page.sends /\ Fail(code).request = {}
<1>1. 0 \in 0..Attempts /\ 1 \in Places
  BY Bounds
<1>2. QED
  BY <1>1 DEF Fail, Sheet, Shapes

\* The owner says no, or signs again; the page asks, or hears nothing.
LEMMA SayNoKeepsInv == ASSUME RecordsInv, SayNo PROVE RecordsInv'
<1>1. /\ UNCHANGED <<height, position, wasClosed, builds, tx, rows, request, cron, watch, faults>>
      /\ page.at = "signing" /\ page' = Fail("nothing was sent")
  BY DEF SayNo, chainVars, cronVars
<1>2. page' \in Sheet /\ page'.sends = page.sends /\ page'.build = page.build /\ page'.at = "failed"
      /\ page'.request = {}
  BY <1>1, TheSheetOfAFailure DEF RecordsInv
<1>3. faults \in 0..MaxFaults /\ page.build \in Bs \cup {0}
  BY DEF RecordsInv, Shapes
<1>4. QED
  BY <1>1, <1>2, <1>3, SheetKeepsInv DEF RecordsInv, UnlessAnyWentWrong

LEMMA SignAgainKeepsInv == ASSUME RecordsInv, SignAgain PROVE RecordsInv'
<1>1. /\ UNCHANGED <<height, position, wasClosed, builds, tx, rows, request, cron, watch, faults>>
      /\ page.at = "failed" /\ page.build # 0 /\ builds[page.build].opens
      /\ page' = Show("signing", page.build)
  BY DEF SignAgain, chainVars, cronVars
<1>2. /\ page' \in Sheet /\ page'.sends = page.sends /\ page'.build = page.build
      /\ page'.at = "signing" /\ page'.next = 1 /\ page'.request = {}
  BY <1>1, Bounds DEF Show, RecordsInv, Shapes, Sheet
<1>3. faults \in 0..MaxFaults /\ page.build \in Bs \cup {0}
  BY DEF RecordsInv, Shapes
<1>4. QED
  BY <1>1, <1>2, <1>3, SheetKeepsInv DEF RecordsInv, UnlessAnyWentWrong

LEMMA PollKeepsInv == ASSUME RecordsInv, Poll PROVE RecordsInv'
<1>1. /\ UNCHANGED <<height, position, wasClosed, builds, tx, rows, request, cron, watch, faults>>
      /\ page.at = "polling"
      /\ \/ page' = [page EXCEPT !.at = "done", !.says = "done", !.left = 0]
         \/ page' = Fail("nothing was sent")
         \/ page.left - 1 # 0 /\ page' = [page EXCEPT !.left = page.left - 1]
  BY DEF Poll, AttemptsLeft, chainVars, cronVars
<1>2. /\ faults \in 0..MaxFaults /\ page.build \in Bs \cup {0} /\ page.build # 0
      /\ page.left # 0 /\ page \in Sheet /\ ~builds[page.build].opens /\ page.request = {}
  BY <1>1 DEF RecordsInv, Shapes, SentHereOrThere
<1>3. /\ page' \in Sheet /\ page'.sends = page.sends /\ page'.build = page.build
      /\ page'.at \in {"done", "failed", "polling"} /\ (page'.at = "polling" => page'.left # 0)
      /\ ~(page'.at = "done" /\ page'.says = "open") /\ page'.request = {}
  <2>1. CASE page' = Fail("nothing was sent")
    BY <2>1, TheSheetOfAFailure DEF RecordsInv
  <2>2. CASE page' = [page EXCEPT !.at = "done", !.says = "done", !.left = 0]
    <3>1. 0 \in 0..Attempts
      BY Bounds
    <3>2. QED
      BY <1>2, <2>2, <3>1 DEF Sheet
  <2>3. CASE page.left - 1 # 0 /\ page' = [page EXCEPT !.left = page.left - 1]
    <3>1. page.left \in 0..Attempts
      BY <1>2 DEF Sheet
    <3>2. page.left - 1 \in 0..Attempts
      BY <1>2, <3>1, Bounds
    <3>3. QED
      BY <1>1, <1>2, <2>3, <3>2 DEF Sheet
  <2>4. QED
    BY <1>1, <2>1, <2>2, <2>3
<1>4. QED
  BY <1>1, <1>2, <1>3, SheetKeepsInv DEF RecordsInv, UnlessAnyWentWrong

LEMMA LoseTheAnswerKeepsInv == ASSUME RecordsInv, LoseTheAnswer PROVE RecordsInv'
<1>1. /\ UNCHANGED <<height, position, wasClosed, builds, tx, rows, request, cron, watch>>
      /\ page' = Fail("nothing was sent") /\ faults < MaxFaults /\ faults' = faults + 1
  BY DEF LoseTheAnswer, Wrong, chainVars, cronVars
<1>2. page' \in Sheet /\ page'.sends = page.sends /\ page'.build = page.build /\ page'.at = "failed"
      /\ page'.request = {}
  BY <1>1, TheSheetOfAFailure DEF RecordsInv
<1>3. faults \in 0..MaxFaults /\ page.build \in Bs \cup {0}
  BY DEF RecordsInv, Shapes
<1>4. faults' \in 0..MaxFaults /\ faults' # 0
  <2>1. faults < MaxFaults /\ faults' = faults + 1
    BY <1>1
  <2>2. QED
    BY <2>1, <1>3, Bounds
<1>5. QED
  BY <1>1, <1>2, <1>3, <1>4, SheetKeepsInv

\* The cron that gives up takes only what is past, and goes on or stops.
LEMMA ReadTheHeightKeepsInv == ASSUME RecordsInv, ReadTheHeight PROVE RecordsInv'
<1>1. UNCHANGED <<height, position, wasClosed, builds, tx, rows, request, page, watch, faults>> /\ cron' = Past
  BY DEF ReadTheHeight, chainVars
<1>2. Past \subseteq Bs /\ \A b \in Past : builds[b].lastGood[1] < height
  BY DEF Past, Kept
<1>3. QED
  BY <1>1, <1>2, WalksKeepInv DEF RecordsInv, Shapes

LEMMA StopAbandoningKeepsInv == ASSUME RecordsInv, StopAbandoning PROVE RecordsInv'
<1>1. /\ UNCHANGED <<height, position, wasClosed, builds, tx, rows, request, page, watch>> /\ cron' = {}
      /\ faults < MaxFaults /\ faults' = faults + 1
  BY DEF StopAbandoning, Wrong, chainVars
<1>2. faults' \in 0..MaxFaults /\ faults' # 0
  BY <1>1, Bounds DEF RecordsInv, Shapes
<1>3. QED
  BY <1>1, <1>2, WalksKeepInv DEF RecordsInv, Shapes

\* The cron that closes visits what was open when it looked.
LEMMA ReadTheOpenRowsKeepsInv == ASSUME RecordsInv, ReadTheOpenRows PROVE RecordsInv'
<1>1. /\ UNCHANGED <<height, position, wasClosed, builds, tx, rows, request, page, cron, faults>>
      /\ watch' = [at |-> "reading", todo |-> OpenRows, found |-> 0]
  BY DEF ReadTheOpenRows, chainVars
<1>2. OpenRows \subseteq Bs /\ OpenRows \subseteq Nat /\ \A b \in OpenRows : rows[b] = "open"
  BY DEF OpenRows, Bs, RecordsInv, Shapes
<1>3. watch' \in Walk /\ watch'.todo = OpenRows /\ watch'.found = 0
  BY <1>1, <1>2 DEF Walk
<1>4. cron \subseteq Bs /\ (\A b \in cron : builds[b].lastGood[1] < height) /\ faults \in 0..MaxFaults
  BY DEF RecordsInv, Shapes, GivenUpIsPast
<1>5. QED
  BY <1>1, <1>2, <1>3, <1>4, WalksKeepInv

LEMMA ReadOnePositionKeepsInv ==
    ASSUME RecordsInv, NEW b \in Bs, ReadOnePosition(b) PROVE RecordsInv'
<1>1. /\ UNCHANGED <<height, position, wasClosed, builds, tx, rows, request, page, cron>>
      /\ b \in watch.todo /\ watch.found = 0
      /\ faults' = faults \/ (faults < MaxFaults /\ faults' = faults + 1)
      /\ \/ watch' = [watch EXCEPT !.todo = @ \ {b}, !.found = IF position = "closed" THEN b ELSE 0]
         \/ watch' = [watch EXCEPT !.todo = @ \ {b}]
         \/ watch' = [at |-> "idle", todo |-> {}, found |-> 0]
  BY DEF ReadOnePosition, ReadsClosed, Looking, Wrong, chainVars
<1>2. /\ watch \in Walk /\ faults \in 0..MaxFaults /\ watch.todo \subseteq Bs /\ Bs \subseteq Nat
      /\ cron \subseteq Bs /\ (\A c \in cron : builds[c].lastGood[1] < height)
  <2>1. watch \in Walk /\ faults \in 0..MaxFaults /\ watch.todo \subseteq Bs /\ cron \subseteq Bs
    BY DEF RecordsInv, Shapes
  <2>2. Bs \subseteq Nat
    BY DEF RecordsInv, Shapes, Bs
  <2>3. \A c \in cron : builds[c].lastGood[1] < height
    BY <2>1 DEF RecordsInv, GivenUpIsPast
  <2>4. QED
    BY <2>1, <2>2, <2>3
<1>3. faults' \in 0..MaxFaults /\ (faults' = 0 => faults = 0)
  BY <1>1, <1>2, Bounds
<1>4. /\ watch' \in Walk /\ watch'.todo \subseteq watch.todo
      /\ watch'.found = 0 \/ (watch'.found = b /\ position = "closed")
  <2>1. CASE watch' = [at |-> "idle", todo |-> {}, found |-> 0]
    BY <1>2, <2>1 DEF Walk
  <2>2. CASE watch' = [watch EXCEPT !.todo = @ \ {b}]
    BY <1>1, <1>2, <2>2 DEF Walk
  <2>3. CASE watch' = [watch EXCEPT !.todo = @ \ {b}, !.found = IF position = "closed" THEN b ELSE 0]
    BY <1>2, <2>3 DEF Walk
  <2>4. QED
    BY <1>1, <2>1, <2>2, <2>3
<1>5. QED
  BY <1>1, <1>2, <1>3, <1>4, WalksKeepInv

LEMMA StopWatchingKeepsInv == ASSUME RecordsInv, StopWatching PROVE RecordsInv'
<1>1. /\ UNCHANGED <<height, position, wasClosed, builds, tx, rows, request, page, cron, faults>>
      /\ watch' = [at |-> "idle", todo |-> {}, found |-> 0]
  BY DEF StopWatching, Looking, chainVars
<1>2. watch' \in Walk /\ watch'.todo = {} /\ watch'.found = 0
  BY <1>1 DEF Walk
<1>3. cron \subseteq Bs /\ (\A b \in cron : builds[b].lastGood[1] < height) /\ faults \in 0..MaxFaults
  BY DEF RecordsInv, Shapes, GivenUpIsPast
<1>4. QED
  BY <1>1, <1>2, <1>3, WalksKeepInv

\* A request begins: nothing has been sent of it, or all of it by the wallet.
LEMMA PostKeepsInv ==
    ASSUME RecordsInv, NEW at \in {"sending", "recording"}, Post(page.build, at),
           UNCHANGED <<height, position, wasClosed, builds, tx, rows, cron, watch>>,
           page.at = "signing", page.sends <=> at = "recording",
           at = "recording" => WentOut(page.build),
           faults' \in 0..MaxFaults, faults' = 0 => faults = 0
    PROVE  RecordsInv'
<1> DEFINE free == {i \in DOMAIN request : request[i].at = "free"}
           r == Min(free)
<1>1. Bs' = Bs
      /\ (\A b : (WentOut(b)' <=> WentOut(b)) /\ (LastUnsent(b)' <=> LastUnsent(b)))
      /\ (\A b, n : WentOutTo(b, n)' <=> WentOutTo(b, n))
  BY SameTables DEF RecordsInv
<1>2. /\ request \in [Rs -> Request] /\ page \in Sheet /\ page.build \in Bs /\ page.build \in Nat
      /\ page.build # 0 /\ 1 \in 1..Len(builds[page.build].path)
  <2>1. /\ request \in [Rs -> Request] /\ page \in Sheet /\ page.build \in Bs
        /\ page.build \in Nat /\ page.build # 0
    BY DEF RecordsInv, Shapes, Sheet
  <2>2. builds[page.build] \in Build
    BY <2>1 DEF RecordsInv, Shapes, Bs
  <2>3. builds[page.build].path \in Seq(Steps) /\ builds[page.build].path # <<>>
    BY <2>2 DEF Build
  <2>4. QED
    BY <2>1, <2>3
<1>3. /\ free # {} /\ page' = [page EXCEPT !.at = "waiting", !.request = {r}]
      /\ request' = [request EXCEPT ![r] = [at |-> at, build |-> page.build, next |-> 1]]
  BY DEF Post
<1>4. free \in SUBSET Nat /\ free \subseteq Rs
  BY <1>2 DEF Rs
<1>5. r \in free
  <2> HIDE DEF free
  <2> QED BY <1>3, <1>4, MinOfNaturals
<1>6. r \in Rs
  BY <1>4, <1>5
<1> HIDE DEF free, r
<1>7. /\ request' \in [Rs -> Request] /\ request'[r] = [at |-> at, build |-> page.build, next |-> 1]
      /\ \A s \in Rs : s # r => request'[s] = request[s]
  <2>1. [at |-> at, build |-> page.build, next |-> 1] \in Request
    BY <1>2 DEF Request
  <2>2. QED
    BY <1>2, <1>3, <1>6, <2>1
<1>8. /\ page' \in Sheet /\ page'.at = "waiting" /\ page'.request = {r}
      /\ page'.build = page.build /\ page'.sends = page.sends
  BY <1>2, <1>3, <1>6 DEF Sheet
<1>9. Shapes'
  <2>1. \A s \in Rs :
         /\ request'[s].build \in Bs \cup {0}
         /\ request'[s].at # "free" => request'[s].build # 0
         /\ request'[s].at = "sending" => request'[s].next \in 1..Len(builds[request'[s].build].path)
    <3> SUFFICES ASSUME NEW s \in Rs
                 PROVE  /\ request'[s].build \in Bs \cup {0}
                        /\ request'[s].at # "free" => request'[s].build # 0
                        /\ request'[s].at = "sending" =>
                             request'[s].next \in 1..Len(builds[request'[s].build].path)
      OBVIOUS
    <3>1. CASE s = r
      BY <1>2, <1>7, <3>1
    <3>2. CASE s # r
      BY <1>7, <3>2 DEF RecordsInv, Shapes
    <3>3. QED
      BY <3>1, <3>2
  <2>2. QED
    BY <1>1, <1>2, <1>7, <1>8, <2>1 DEF RecordsInv, Shapes
<1>10. SentInOrder'
  <2>1. \A b \in Bs : WentOutTo(b, 1)
    BY DEF WentOutTo, RecordsInv, Shapes, Bs
  <2>2. QED
    BY <1>1, <1>2, <1>7, <1>8, <2>1 DEF RecordsInv, SentInOrder
<1>11. OpensHaveRows' /\ GivenUpIsPast' /\ ClosedIsHandedBack'
  BY <1>1 DEF RecordsInv, OpensHaveRows, GivenUpIsPast, ClosedIsHandedBack
<1>12. SentHereOrThere'
  BY <1>1, <1>7, <1>8 DEF RecordsInv, SentHereOrThere
<1>13. UnlessAnyWentWrong'
  <2>1. SUFFICES ASSUME faults' = 0, faults = 0 PROVE UnlessAnyWentWrong'
    BY DEF UnlessAnyWentWrong
  <2>2. \A s \in Rs : request[s].at = "free"
    BY <2>1 DEF RecordsInv, UnlessAnyWentWrong
  <2>3. at # "recording" => LastUnsent(page.build)
    BY <1>2, <2>1 DEF RecordsInv, UnlessAnyWentWrong, Shapes
  <2>4. \A s \in Rs : request'[s].at # "free" =>
          /\ page'.at = "waiting" /\ page'.request = {s} /\ request'[s].build = page'.build
          /\ request'[s].at # "recording" => LastUnsent(page'.build)
    BY <1>7, <1>8, <2>2, <2>3
  <2>5. \A b \in Bs : rows[b] = "failed" => LastUnsent(b)
    BY <2>1, <2>2 DEF RecordsInv, UnlessAnyWentWrong
  <2>6. \A b \in Bs : builds[b].stored /\ (builds[b].opens => rows[b] # "none")
    BY <2>1 DEF RecordsInv, UnlessAnyWentWrong
  <2>7. \A b \in Bs : (builds[b].opens /\ builds[b].signed) => rows[b] \in {"open", "closed"}
    BY <2>1 DEF RecordsInv, UnlessAnyWentWrong
  <2>8. QED
    BY <1>1, <1>8, <2>4, <2>5, <2>6, <2>7 DEF UnlessAnyWentWrong
<1>14. QED
  BY <1>9, <1>10, <1>11, <1>12, <1>13 DEF RecordsInv

\* All signed and posted, here or at the wallet.
LEMMA PostTheSignedKeepsInv == ASSUME RecordsInv, PostTheSigned PROVE RecordsInv'
<1>1. /\ UNCHANGED <<height, position, wasClosed, builds, tx, rows, cron, watch>>
      /\ page.at = "signing" /\ ~page.sends
      /\ \/ Post(page.build, "sending") /\ faults' = faults
         \/ Post(page.build, "sending") /\ faults < MaxFaults /\ faults' = faults + 1
         \/ page' = Fail("refused") /\ UNCHANGED <<request, faults>>
  BY DEF PostTheSigned, Wrong, chainVars, cronVars
<1>2. faults \in 0..MaxFaults /\ page.build \in Bs \cup {0}
  BY DEF RecordsInv, Shapes
<1>3. CASE Post(page.build, "sending")
  <2>1. faults' \in 0..MaxFaults /\ (faults' = 0 => faults = 0)
    BY <1>1, <1>2, Bounds
  <2>2. QED
    BY <1>1, <1>3, <2>1, PostKeepsInv
<1>4. CASE page' = Fail("refused") /\ UNCHANGED <<request, faults>>
  <2>1. page' \in Sheet /\ page'.sends = page.sends /\ page'.build = page.build /\ page'.at = "failed"
      /\ page'.request = {}
    BY <1>4, TheSheetOfAFailure DEF RecordsInv
  <2>2. QED
    BY <1>1, <1>2, <1>4, <2>1, SheetKeepsInv DEF RecordsInv, UnlessAnyWentWrong
<1>5. QED
  BY <1>1, <1>3, <1>4

LEMMA PostTheSignaturesKeepsInv == ASSUME RecordsInv, PostTheSignatures PROVE RecordsInv'
<1>1. /\ UNCHANGED <<height, position, wasClosed, builds, tx, rows, cron, watch, faults>>
      /\ page.at = "signing" /\ page.sends /\ page.next > Len(builds[page.build].path)
      /\ \/ Post(page.build, "recording")
         \/ page' = Submitted /\ UNCHANGED request
  BY DEF PostTheSignatures, chainVars, cronVars
<1>2. /\ faults \in 0..MaxFaults /\ page.build \in Bs /\ page.build # 0 /\ page \in Sheet
      /\ tx[page.build] \in Seq(TxStates) /\ Len(tx[page.build]) = Len(builds[page.build].path)
  BY <1>1 DEF RecordsInv, Shapes, Bs
<1>3. CASE Post(page.build, "recording")
  <2>1. WentOutTo(page.build, page.next) /\ page.next \in Nat
    BY <1>1, <1>2 DEF RecordsInv, SentInOrder, Sheet, Places
  <2>2. WentOut(page.build)
    BY <1>1, <1>2, <2>1 DEF WentOutTo, WentOut
  <2>3. QED
    BY <1>1, <1>2, <1>3, <2>2, PostKeepsInv
<1>4. CASE page' = Submitted /\ UNCHANGED request
  <2>1. Attempts \in 0..Attempts /\ Attempts # 0 /\ 1 \in Places
    BY Bounds
  <2>2. /\ page' \in Sheet /\ page'.sends = page.sends /\ page'.build = page.build
        /\ page'.at \in {"done", "polling"} /\ page'.request = {}
        /\ page'.at = "polling" => page'.left # 0 /\ ~builds[page.build].opens
        /\ page'.at = "done" => builds[page.build].opens
    <3>1. CASE builds[page.build].opens
      BY <1>2, <1>4, <2>1, <3>1 DEF Submitted, Sheet
    <3>2. CASE ~builds[page.build].opens
      BY <1>2, <1>4, <2>1, <3>2 DEF Submitted, Sheet
    <3>3. QED
      BY <3>1, <3>2
  <2>3. faults = 0 => \A r \in Rs : request[r].at = "free"
    BY <1>1 DEF RecordsInv, UnlessAnyWentWrong
  <2>4. QED
    BY <1>1, <1>2, <1>4, <2>2, <2>3, SheetKeepsInv
<1>5. QED
  BY <1>1, <1>3, <1>4

------------------------------------------------------------------------------
(* Steps that move a transaction.                                          *)

\* What a transaction sent, landed or refused leaves true: no step takes one back.
LEMMA MovingATransaction ==
    ASSUME Shapes, UNCHANGED builds, NEW b \in Bs, NEW n \in DOMAIN tx[b],
           NEW state \in {"sent", "landed", "refused"},
           tx[b][n] = "landed" => state = "landed",
           tx' = [tx EXCEPT ![b][n] = state]
    PROVE  /\ Bs' = Bs /\ tx' \in Seq(Seq(TxStates)) /\ Len(tx') = Len(tx)
           /\ \A c \in Bs : Len(tx'[c]) = Len(tx[c])
           /\ \A c \in Bs : WentOut(c) => WentOut(c)'
           /\ \A c \in Bs : \A k \in Nat : WentOutTo(c, k) => WentOutTo(c, k)'
           /\ WentOutTo(b, n) => WentOutTo(b, n + 1)'
           /\ \A c \in Bs : LastUnsent(c) /\ (c = b => n # Len(tx[b])) => LastUnsent(c)'
<1>1. /\ tx \in Seq(Seq(TxStates)) /\ builds \in Seq(Build) /\ Len(tx) = Len(builds)
      /\ Bs = 1..Len(tx) /\ Len(tx) \in Nat
  BY DEF Shapes, Bs
<1>2. \A c \in Bs : tx[c] \in Seq(TxStates) /\ DOMAIN tx[c] = 1..Len(tx[c]) /\ Len(tx[c]) \in Nat
  BY <1>1
<1>3. state \in TxStates /\ state # "unsent"
  BY DEF TxStates
<1> DEFINE moved == [tx[b] EXCEPT ![n] = state]
<1>4. moved \in Seq(TxStates) /\ Len(moved) = Len(tx[b]) /\ moved[n] = state
      /\ \A k \in DOMAIN tx[b] : k # n => moved[k] = tx[b][k]
  <2> HIDE DEF TxStates
  <2> QED BY <1>2, <1>3
<1>5. tx' = [tx EXCEPT ![b] = moved]
  OBVIOUS
<1> HIDE DEF moved
<1>6. /\ tx' \in Seq(Seq(TxStates)) /\ Len(tx') = Len(tx) /\ Bs' = Bs
      /\ tx'[b] = moved /\ \A c \in Bs : c # b => tx'[c] = tx[c]
  <2> DEFINE S == Seq(TxStates)
  <2>1. tx \in Seq(S) /\ moved \in S
    BY <1>1, <1>4
  <2> HIDE DEF S
  <2>2. tx' \in Seq(S) /\ Len(tx') = Len(tx) /\ tx'[b] = moved /\ \A c \in Bs : c # b => tx'[c] = tx[c]
    <3>1. tx \in [1..Len(tx) -> S] /\ b \in 1..Len(tx) /\ Len(tx) \in Nat
      BY <1>1, <2>1
    <3>2. tx' \in [1..Len(tx) -> S]
      BY <1>5, <2>1, <3>1
    <3>3. tx' \in Seq(S) /\ Len(tx') = Len(tx)
      BY <3>1, <3>2
    <3>4. tx'[b] = moved /\ \A c \in Bs : c # b => tx'[c] = tx[c]
      BY <1>1, <1>5, <3>1
    <3>5. QED
      BY <3>3, <3>4
  <2>3. QED
    BY <2>2 DEF S, Bs
<1>7. \A c \in Bs : DOMAIN tx'[c] = DOMAIN tx[c] /\ Len(tx'[c]) = Len(tx[c])
  <2>1. DOMAIN moved = 1..Len(tx[b])
    BY <1>4
  <2>2. QED
    BY <1>2, <1>4, <1>6, <2>1
<1>8. \A c \in Bs : \A k \in DOMAIN tx[c] :
        /\ tx[c][k] # "unsent" => tx'[c][k] # "unsent"
        /\ tx[c][k] = "landed" => tx'[c][k] = "landed"
        /\ c # b \/ k # n => tx'[c][k] = tx[c][k]
        /\ c = b /\ k = n => tx'[c][k] = state
  BY <1>3, <1>4, <1>6
<1>9. \A c \in Bs : WentOut(c) => WentOut(c)'
  BY <1>7, <1>8 DEF WentOut
<1>10. \A c \in Bs : \A k \in Nat : WentOutTo(c, k) => WentOutTo(c, k)'
  BY <1>7, <1>8 DEF WentOutTo
<1>11. WentOutTo(b, n) => WentOutTo(b, n + 1)'
  <2>1. \A k \in DOMAIN tx[b] : k < n + 1 <=> k < n \/ k = n
    BY <1>2
  <2>2. QED
    BY <1>3, <1>7, <1>8, <2>1 DEF WentOutTo
<1>12. ASSUME NEW c \in Bs, LastUnsent(c), c = b => n # Len(tx[b]) PROVE LastUnsent(c)'
  <2>1. Len(tx[c]) \in DOMAIN tx[c] \/ Len(tx[c]) = 0
    BY <1>2
  <2>2. Len(tx[c]) # 0
    <3>1. builds[c] \in Build /\ Len(tx[c]) = Len(builds[c].path)
      BY <1>1 DEF Shapes
    <3>2. builds[c].path \in Seq(Steps) /\ builds[c].path # <<>>
      BY <3>1 DEF Build
    <3>3. QED
      BY <3>1, <3>2
  <2>3. QED
    BY <1>7, <1>8, <1>12, <2>1, <2>2 DEF LastUnsent
<1>13. QED
  BY <1>6, <1>7, <1>9, <1>10, <1>11, <1>12

\* The wallet sends the next; its build has no other sender.
LEMMA WalletSendsKeepsInv == ASSUME RecordsInv, WalletSends PROVE RecordsInv'
<1> PICK b, n : b = page.build /\ n = page.next
  OBVIOUS
<1> DEFINE state == IF tx[b][n] = "unsent" THEN "sent" ELSE tx[b][n]
<1>1. /\ UNCHANGED <<height, position, wasClosed, builds, rows, request, cron, watch, faults>>
      /\ page.at = "signing" /\ page.sends /\ n <= Len(builds[b].path)
      /\ tx' = [tx EXCEPT ![b][n] = state] /\ page' = [page EXCEPT !.next = n + 1]
  BY DEF WalletSends, cronVars
<1>2. /\ b \in Bs /\ b # 0 /\ page \in Sheet /\ n \in Nat /\ n # 0
      /\ tx[b] \in Seq(TxStates) /\ Len(tx[b]) = Len(builds[b].path) /\ n + 1 \in Places
  <2>1. b \in Bs /\ b # 0 /\ page \in Sheet
    BY <1>1 DEF RecordsInv, Shapes
  <2>2. n \in Places
    BY <2>1 DEF Sheet
  <2>3. tx[b] \in Seq(TxStates) /\ Len(tx[b]) = Len(builds[b].path)
    BY <2>1 DEF RecordsInv, Shapes, Bs
  <2>4. QED
    BY <2>1, <2>2, <2>3 DEF Places
<1>3. n \in DOMAIN tx[b]
  BY <1>1, <1>2
<1>4. state \in {"sent", "landed", "refused"} /\ (tx[b][n] = "landed" => state = "landed")
  BY <1>2, <1>3 DEF TxStates
<1>5. /\ page' \in Sheet /\ page'.next = n + 1 /\ page'.at = "signing" /\ page'.sends
      /\ page'.build = b /\ page'.request = page.request
  BY <1>1, <1>2 DEF Sheet
<1> HIDE DEF state
<1>6. /\ Bs' = Bs /\ tx' \in Seq(Seq(TxStates)) /\ Len(tx') = Len(tx)
      /\ \A c \in Bs : Len(tx'[c]) = Len(tx[c])
      /\ \A c \in Bs : WentOut(c) => WentOut(c)'
      /\ WentOutTo(b, n) => WentOutTo(b, n + 1)'
  BY <1>1, <1>2, <1>3, <1>4, MovingATransaction DEF RecordsInv
<1>7. Shapes'
  BY <1>1, <1>5, <1>6 DEF RecordsInv, Shapes
<1>8. SentInOrder'
  <2>1. \A r \in Rs : request[r].at \in {"free", "recording"} /\ request[r].build \in Bs \cup {0}
    BY <1>1 DEF RecordsInv, SentHereOrThere, Shapes
  <2>2. \A r \in Rs : request[r].at = "recording" => WentOut(request[r].build)'
    BY <1>1, <1>6, <2>1 DEF RecordsInv, SentInOrder, Shapes
  <2>3. WentOutTo(b, n + 1)'
    BY <1>1, <1>6 DEF RecordsInv, SentInOrder
  <2>4. QED
    BY <1>1, <1>5, <1>6, <2>1, <2>2, <2>3 DEF RecordsInv, SentInOrder
<1>9. OpensHaveRows' /\ GivenUpIsPast' /\ ClosedIsHandedBack'
  BY <1>1, <1>6 DEF RecordsInv, OpensHaveRows, GivenUpIsPast, ClosedIsHandedBack
<1>10. SentHereOrThere'
  BY <1>1, <1>5, <1>6 DEF RecordsInv, SentHereOrThere
<1>11. UnlessAnyWentWrong'
  <2>1. SUFFICES ASSUME faults = 0 PROVE UnlessAnyWentWrong'
    BY <1>1 DEF UnlessAnyWentWrong
  <2>2. /\ \A r \in Rs : request[r].at = "free"
        /\ \A c \in Bs : builds[c].stored /\ (builds[c].opens => rows[c] # "none")
        /\ \A c \in Bs : (builds[c].opens /\ builds[c].signed) => rows[c] \in {"open", "closed"}
    BY <1>1, <2>1 DEF RecordsInv, UnlessAnyWentWrong
  <2>3. \A c \in Bs : rows[c] # "failed"
    BY <1>1 DEF RecordsInv, SentHereOrThere
  <2>4. QED
    BY <1>1, <1>5, <1>6, <2>2, <2>3 DEF UnlessAnyWentWrong
<1>12. QED
  BY <1>7, <1>8, <1>9, <1>10, <1>11 DEF RecordsInv

\* What the account becomes is remembered of every build there is.
LEMMA TheAccountBecomes ==
    ASSUME Shapes, ClosedIsHandedBack, UNCHANGED <<builds, rows, watch>>,
           NEW state \in {"none", "waiting", "held", "closed"}, Becomes(state)
    PROVE  /\ position' \in {"none", "waiting", "held", "closed"} /\ wasClosed' \subseteq Bs
           /\ ClosedIsHandedBack'
<1>1. /\ Bs' = Bs /\ wasClosed \subseteq Bs /\ watch.found \in Bs \cup {0}
      /\ position' = state /\ wasClosed' = IF state = "closed" THEN Bs ELSE wasClosed
  BY DEF Shapes, Bs, Becomes
<1>2. QED
  BY <1>1 DEF ClosedIsHandedBack

\* Others make what they may of the account, and touch nothing else.
LEMMA OthersActKeepsInv == ASSUME RecordsInv, OthersAct PROVE RecordsInv'
<1>1. UNCHANGED <<height, builds, tx, rows, request, page, cron, watch, faults>>
  BY DEF OthersAct, cronVars
<1>2. PICK made \in After[position] \cap OthersMake : Becomes(made)
  BY DEF OthersAct
<1>3. made \in {"none", "waiting", "held", "closed"}
  BY <1>2, PositionRecordsAssumption
<1>4. /\ position' \in {"none", "waiting", "held", "closed"} /\ wasClosed' \subseteq Bs
      /\ ClosedIsHandedBack'
  BY <1>1, <1>2, <1>3, TheAccountBecomes DEF RecordsInv
<1>5. Bs' = Bs
      /\ (\A b : (WentOut(b)' <=> WentOut(b)) /\ (LastUnsent(b)' <=> LastUnsent(b)))
      /\ (\A b, n : WentOutTo(b, n)' <=> WentOutTo(b, n))
  BY <1>1, SameTables DEF RecordsInv
<1>6. Shapes'
  BY <1>1, <1>4, <1>5 DEF RecordsInv, Shapes
<1>7. SentInOrder' /\ OpensHaveRows' /\ GivenUpIsPast'
  BY <1>1, <1>5 DEF RecordsInv, SentInOrder, OpensHaveRows, GivenUpIsPast
<1>8. SentHereOrThere' /\ UnlessAnyWentWrong'
  BY <1>1, <1>5 DEF RecordsInv, SentHereOrThere, UnlessAnyWentWrong
<1>9. QED
  BY <1>4, <1>6, <1>7, <1>8 DEF RecordsInv

\* A block takes a transaction that was sent, or does nothing of it.
LEMMA LandKeepsInv ==
    ASSUME RecordsInv, NEW b \in Bs, NEW n \in DOMAIN builds[b].path, Land(b, n)
    PROVE  RecordsInv'
<1> DEFINE step == builds[b].path[n]
           state == IF position = Needs[step] THEN "landed" ELSE "refused"
<1>1. /\ UNCHANGED <<height, builds, rows, request, page, cron, watch, faults>>
      /\ tx[b][n] = "sent" /\ tx' = [tx EXCEPT ![b][n] = state]
      /\ Becomes(Makes[step]) \/ UNCHANGED <<position, wasClosed>>
  BY DEF Land, cronVars
<1>2. /\ builds[b] \in Build /\ tx[b] \in Seq(TxStates) /\ Len(tx[b]) = Len(builds[b].path)
  BY DEF RecordsInv, Shapes, Bs
<1>3. builds[b].path \in Seq(Steps) /\ DOMAIN builds[b].path = DOMAIN tx[b]
  BY <1>2 DEF Build
<1>4. step \in Steps /\ n \in DOMAIN tx[b]
  <2> HIDE DEF Steps
  <2> QED BY <1>3
<1>5. Makes[step] \in {"none", "waiting", "held", "closed"}
  BY <1>4 DEF Makes, Steps
<1>6. state \in {"sent", "landed", "refused"} /\ (tx[b][n] = "landed" => state = "landed")
  BY <1>1
<1> HIDE DEF state
<1>7. /\ Bs' = Bs /\ tx' \in Seq(Seq(TxStates)) /\ Len(tx') = Len(tx)
      /\ \A c \in Bs : Len(tx'[c]) = Len(tx[c])
      /\ \A c \in Bs : WentOut(c) => WentOut(c)'
      /\ \A c \in Bs : \A k \in Nat : WentOutTo(c, k) => WentOutTo(c, k)'
      /\ \A c \in Bs : LastUnsent(c) /\ (c = b => n # Len(tx[b])) => LastUnsent(c)'
  BY <1>1, <1>4, <1>6, MovingATransaction DEF RecordsInv
<1>8. \A c \in Bs : LastUnsent(c) => LastUnsent(c)'
  BY <1>1, <1>7 DEF LastUnsent
<1>9. /\ position' \in {"none", "waiting", "held", "closed"} /\ wasClosed' \subseteq Bs
      /\ ClosedIsHandedBack'
  <2>1. CASE Becomes(Makes[step])
    BY <1>1, <1>5, <2>1, TheAccountBecomes DEF RecordsInv
  <2>2. CASE UNCHANGED <<position, wasClosed>>
    BY <1>1, <1>7, <2>2 DEF RecordsInv, Shapes, ClosedIsHandedBack
  <2>3. QED
    BY <1>1, <2>1, <2>2
<1>10. Shapes'
  BY <1>1, <1>7, <1>9 DEF RecordsInv, Shapes
<1>11. SentInOrder'
  <2>1. /\ page.at = "signing" => page.build \in Bs /\ page.next \in Nat
        /\ \A r \in Rs : request[r].at # "free" => request[r].build \in Bs /\ request[r].next \in Nat
    BY DEF RecordsInv, Shapes, Sheet, Request, Places
  <2>2. page.at = "signing" => WentOutTo(page.build, page.next)'
    BY <1>1, <1>7, <2>1 DEF RecordsInv, SentInOrder
  <2>3. \A r \in Rs : request[r].at = "sending" => WentOutTo(request[r].build, request[r].next)'
    BY <1>1, <1>7, <2>1 DEF RecordsInv, SentInOrder
  <2>4. \A r \in Rs : request[r].at = "recording" => WentOut(request[r].build)'
    BY <1>1, <1>7, <2>1 DEF RecordsInv, SentInOrder
  <2>5. QED
    BY <1>1, <1>7, <2>2, <2>3, <2>4 DEF RecordsInv, SentInOrder
<1>12. OpensHaveRows' /\ GivenUpIsPast'
  BY <1>1, <1>7 DEF RecordsInv, OpensHaveRows, GivenUpIsPast
<1>14. SentHereOrThere'
  BY <1>1, <1>7 DEF RecordsInv, SentHereOrThere
<1>15. UnlessAnyWentWrong'
  <2>1. page.build \in Bs \cup {0} /\ \A r \in Rs : request[r].at # "free" => request[r].build \in Bs
    BY DEF RecordsInv, Shapes
  <2>2. QED
    BY <1>1, <1>7, <1>8, <2>1 DEF RecordsInv, UnlessAnyWentWrong
<1>16. QED
  BY <1>9, <1>10, <1>11, <1>12, <1>14, <1>15 DEF RecordsInv

\* A request sends its next; having sent the last it goes on to record it.
LEMMA SendTheNextKeepsInv ==
    ASSUME RecordsInv, NEW r \in Rs, SendTheNext(r)
    PROVE  RecordsInv'
<1> PICK b, n : b = request[r].build /\ n = request[r].next
  OBVIOUS
<1> DEFINE at == IF n = Len(builds[b].path) THEN "recording" ELSE "sending"
<1>1. /\ UNCHANGED <<height, position, wasClosed, builds, rows, page, cron, watch, faults>>
      /\ request[r].at = "sending" /\ tx[b][n] \in {"unsent", "sent"}
      /\ tx' = [tx EXCEPT ![b][n] = "sent"]
      /\ request' = [request EXCEPT ![r].next = n + 1, ![r].at = at]
  BY DEF SendTheNext, Takes, AfterSending, cronVars
<1>2. /\ b \in Bs /\ b # 0 /\ n \in 1..Len(builds[b].path) /\ request \in [Rs -> Request]
      /\ tx[b] \in Seq(TxStates) /\ Len(tx[b]) = Len(builds[b].path)
  <2>1. b \in Bs /\ b # 0 /\ request \in [Rs -> Request]
    BY <1>1 DEF RecordsInv, Shapes
  <2>2. n \in 1..Len(builds[b].path)
    BY <1>1 DEF RecordsInv, Shapes
  <2>3. tx[b] \in Seq(TxStates) /\ Len(tx[b]) = Len(builds[b].path)
    BY <2>1 DEF RecordsInv, Shapes, Bs
  <2>4. QED
    BY <2>1, <2>2, <2>3
<1>3. n \in DOMAIN tx[b] /\ Len(tx[b]) \in Nat /\ n \in Nat
  BY <1>2
<1>4. at \in {"sending", "recording"} /\ (at = "recording" <=> n = Len(tx[b]))
      /\ (at = "sending" => n + 1 \in 1..Len(builds[b].path))
  BY <1>2, <1>3
<1> HIDE DEF at
<1>5. /\ request' \in [Rs -> Request]
      /\ request'[r].build = b /\ request'[r].at = at /\ request'[r].next = n + 1
      /\ \A s \in Rs : s # r => request'[s] = request[s]
  <2>1. request[r] \in Request /\ request[r].build = b /\ n + 1 \in Nat
    BY <1>2, <1>3
  <2>2. [request[r] EXCEPT !.next = n + 1, !.at = at] \in Request
    BY <1>4, <2>1 DEF Request
  <2>3. request' = [request EXCEPT ![r] = [request[r] EXCEPT !.next = n + 1, !.at = at]]
    BY <1>1, <1>2
  <2>4. [request[r] EXCEPT !.next = n + 1, !.at = at].build = b
    BY <2>1 DEF Request
  <2>5. /\ [request[r] EXCEPT !.next = n + 1, !.at = at].at = at
        /\ [request[r] EXCEPT !.next = n + 1, !.at = at].next = n + 1
    BY <2>1 DEF Request
  <2> HIDE DEF Request
  <2>6. QED
    BY <1>2, <2>2, <2>3, <2>4, <2>5
<1>6. /\ Bs' = Bs /\ tx' \in Seq(Seq(TxStates)) /\ Len(tx') = Len(tx)
      /\ \A c \in Bs : Len(tx'[c]) = Len(tx[c])
      /\ \A c \in Bs : WentOut(c) => WentOut(c)'
      /\ \A c \in Bs : \A k \in Nat : WentOutTo(c, k) => WentOutTo(c, k)'
      /\ WentOutTo(b, n) => WentOutTo(b, n + 1)'
      /\ \A c \in Bs : LastUnsent(c) /\ (c = b => n # Len(tx[b])) => LastUnsent(c)'
  BY <1>1, <1>2, <1>3, MovingATransaction DEF RecordsInv
<1>7. WentOutTo(b, n + 1)'
  BY <1>1, <1>6 DEF RecordsInv, SentInOrder
<1>8. at = "recording" => WentOut(b)'
  <2>1. SUFFICES ASSUME n = Len(tx[b]) PROVE WentOut(b)'
    BY <1>4
  <2>2. tx'[b] \in Seq(TxStates) /\ Len(tx'[b]) = n
    <3>1. b \in 1..Len(tx') /\ Len(tx'[b]) = n
      BY <1>2, <1>6, <2>1 DEF Bs, RecordsInv, Shapes
    <3> DEFINE S == Seq(TxStates)
    <3>2. tx' \in Seq(S)
      BY <1>6
    <3> HIDE DEF S
    <3>3. tx'[b] \in S
      BY <3>1, <3>2
    <3>4. QED
      BY <3>1, <3>3 DEF S
  <2>3. \A k \in DOMAIN tx'[b] : k < n + 1
    BY <1>3, <2>2
  <2>4. QED
    BY <1>7, <2>3 DEF WentOut, WentOutTo
<1>9. Shapes'
  <2>1. \A s \in Rs :
         /\ request'[s].build \in Bs \cup {0}
         /\ request'[s].at # "free" => request'[s].build # 0
         /\ request'[s].at = "sending" => request'[s].next \in 1..Len(builds[request'[s].build].path)
    <3> SUFFICES ASSUME NEW s \in Rs
                 PROVE  /\ request'[s].build \in Bs \cup {0}
                        /\ request'[s].at # "free" => request'[s].build # 0
                        /\ request'[s].at = "sending" =>
                             request'[s].next \in 1..Len(builds[request'[s].build].path)
      OBVIOUS
    <3>1. CASE s = r
      BY <1>2, <1>4, <1>5, <3>1
    <3>2. CASE s # r
      BY <1>5, <3>2 DEF RecordsInv, Shapes
    <3>3. QED
      BY <3>1, <3>2
  <2>2. \A c \in Bs : Len(tx'[c]) = Len(builds[c].path) /\ Len(builds[c].lastGood) = Len(builds[c].path)
    BY <1>6 DEF RecordsInv, Shapes
  <2>3. /\ height' \in 0..MaxHeight /\ faults' \in 0..MaxFaults
        /\ position' \in {"none", "waiting", "held", "closed"} /\ wasClosed' \subseteq Bs'
        /\ builds' \in Seq(Build) /\ rows' \in Seq(Statuses) /\ page' \in Sheet /\ watch' \in Walk
        /\ Len(tx') = Len(builds') /\ Len(rows') = Len(builds')
    BY <1>1, <1>6 DEF RecordsInv, Shapes
  <2>4. /\ cron' \subseteq Bs' /\ watch'.todo \subseteq Bs' /\ watch'.found \in Bs' \cup {0}
        /\ page'.build \in Bs' \cup {0}
        /\ page'.at \in {"signing", "waiting", "polling"} => page'.build # 0
        /\ page'.at = "polling" => page'.left # 0
        /\ page'.request # {} => page'.at = "waiting"
    BY <1>1, <1>6 DEF RecordsInv, Shapes
  <2>5. UNCHANGED builds
    BY <1>1
  <2>6. QED
    BY <1>5, <1>6, <2>1, <2>2, <2>3, <2>4, <2>5 DEF Shapes
<1>10. SentInOrder'
  <2>1. /\ page.at = "signing" => page.build \in Bs /\ page.next \in Nat
        /\ \A s \in Rs : request[s].at # "free" => request[s].build \in Bs /\ request[s].next \in Nat
    BY DEF RecordsInv, Shapes, Sheet, Request, Places
  <2>2. page.at = "signing" => WentOutTo(page.build, page.next)'
    BY <1>1, <1>6, <2>1 DEF RecordsInv, SentInOrder
  <2>3. \A s \in Rs : request'[s].at = "sending" => WentOutTo(request[s].build, request[s].next)'
    BY <1>1, <1>5, <1>6, <1>7, <2>1 DEF RecordsInv, SentInOrder
  <2>4. \A s \in Rs : request'[s].at = "recording" => WentOut(request[s].build)'
    BY <1>1, <1>5, <1>6, <1>8, <2>1 DEF RecordsInv, SentInOrder
  <2>5. QED
    BY <1>1, <1>6, <2>2, <2>3, <2>4 DEF RecordsInv, SentInOrder
<1>11. OpensHaveRows' /\ GivenUpIsPast' /\ ClosedIsHandedBack'
  BY <1>1, <1>6 DEF RecordsInv, OpensHaveRows, GivenUpIsPast, ClosedIsHandedBack
<1>12. SentHereOrThere'
  <2>1. ~page.sends
    BY <1>1 DEF RecordsInv, SentHereOrThere
  <2>2. QED
    BY <1>1, <1>6, <2>1 DEF RecordsInv, SentHereOrThere
<1>13. UnlessAnyWentWrong'
  <2>1. SUFFICES ASSUME faults = 0 PROVE UnlessAnyWentWrong'
    BY <1>1 DEF UnlessAnyWentWrong
  <2>2. /\ page.at = "waiting" /\ page.request = {r} /\ page.build = b
        /\ \A s \in Rs : s # r => request[s].at = "free"
        /\ LastUnsent(b)
    BY SMTT(30), <1>1, <2>1 DEF RecordsInv, UnlessAnyWentWrong
  <2>3. \A s \in Rs : request'[s].at # "free" =>
          /\ page.at = "waiting" /\ page.request = {s} /\ request'[s].build = page.build
          /\ request'[s].at # "recording" => LastUnsent(page.build)'
    BY SMTT(30), <1>1, <1>2, <1>4, <1>5, <1>6, <2>2
  <2>4. \A c \in Bs : rows[c] = "failed" =>
          LastUnsent(c)' \/ \E s \in Rs : request'[s].at = "recording" /\ request'[s].build = c
    <3> SUFFICES ASSUME NEW c \in Bs, rows[c] = "failed"
                 PROVE  LastUnsent(c)' \/ \E s \in Rs : request'[s].at = "recording" /\ request'[s].build = c
      OBVIOUS
    <3>1. LastUnsent(c) \/ \E s \in Rs : request[s].at = "recording" /\ request[s].build = c
      BY <2>1 DEF RecordsInv, UnlessAnyWentWrong
    <3>2. LastUnsent(c)
      BY <1>1, <2>2, <3>1
    <3>3. CASE c = b /\ n = Len(tx[b])
      BY <1>4, <1>5, <3>3
    <3>4. CASE ~(c = b /\ n = Len(tx[b]))
      BY <1>6, <3>2, <3>4
    <3>5. QED
      BY <3>3, <3>4
  <2>5. /\ \A c \in Bs : builds[c].stored /\ (builds[c].opens => rows[c] # "none")
        /\ \A c \in Bs : (builds[c].opens /\ builds[c].signed) => rows[c] \in {"open", "closed"}
    BY <2>1 DEF RecordsInv, UnlessAnyWentWrong
  <2>6. QED
    BY <1>1, <1>6, <2>2, <2>3, <2>4, <2>5 DEF UnlessAnyWentWrong
<1>14. QED
  BY <1>9, <1>10, <1>11, <1>12, <1>13 DEF RecordsInv

\* A request that cannot send the next ends; only a call that goes wrong can have
\* sent it all the same.
LEMMA SendThrowsKeepsInv ==
    ASSUME RecordsInv, NEW r \in Rs, SendThrows(r)
    PROVE  RecordsInv'
<1> PICK b, n : b = request[r].build /\ n = request[r].next
  OBVIOUS
<1>1. /\ UNCHANGED <<height, position, wasClosed, builds, rows, page, cron, watch>>
      /\ request[r].at = "sending"
      /\ \/ UNCHANGED <<tx, faults>>
         \/ /\ faults < MaxFaults /\ faults' = faults + 1
            /\ tx' = tx \/ (tx[b][n] \in {"unsent", "sent"} /\ tx' = [tx EXCEPT ![b][n] = "sent"])
  BY DEF SendThrows, Takes, Wrong, cronVars
<1>2. /\ b \in Bs /\ b # 0 /\ n \in 1..Len(builds[b].path) /\ request \in [Rs -> Request]
      /\ tx[b] \in Seq(TxStates) /\ Len(tx[b]) = Len(builds[b].path) /\ faults \in 0..MaxFaults
  <2>1. b \in Bs /\ b # 0 /\ request \in [Rs -> Request] /\ faults \in 0..MaxFaults
    BY <1>1 DEF RecordsInv, Shapes
  <2>2. n \in 1..Len(builds[b].path)
    BY <1>1 DEF RecordsInv, Shapes
  <2>3. tx[b] \in Seq(TxStates) /\ Len(tx[b]) = Len(builds[b].path)
    BY <2>1 DEF RecordsInv, Shapes, Bs
  <2>4. QED
    BY <2>1, <2>2, <2>3
<1>4. n \in DOMAIN tx[b] /\ faults' \in 0..MaxFaults /\ (faults' = 0 => faults = 0 /\ UNCHANGED tx)
  <2>1. n \in DOMAIN tx[b]
    BY <1>2
  <2>2. faults' \in 0..MaxFaults /\ (faults' = 0 => faults = 0 /\ UNCHANGED tx)
    BY SMTT(30), <1>1, <1>2, Bounds
  <2>3. QED
    BY <2>1, <2>2
<1>3. PICK why \in {"nothing was sent", "refused"} : request' = [request EXCEPT ![r].at = why]
  BY DEF SendThrows
<1>5. /\ request' \in [Rs -> Request]
      /\ request'[r].build = b /\ request'[r].at = why
      /\ \A s \in Rs : s # r => request'[s] = request[s]
  <2>1. [request[r] EXCEPT !.at = why] \in Request /\ [request[r] EXCEPT !.at = why].build = b
        /\ [request[r] EXCEPT !.at = why].at = why
    BY <1>2 DEF Request
  <2> HIDE DEF Request
  <2>2. QED
    BY <1>2, <1>3, <2>1
<1>6. /\ Bs' = Bs /\ tx' \in Seq(Seq(TxStates)) /\ Len(tx') = Len(tx)
      /\ \A c \in Bs : Len(tx'[c]) = Len(tx[c])
      /\ \A c \in Bs : WentOut(c) => WentOut(c)'
      /\ \A c \in Bs : \A k \in Nat : WentOutTo(c, k) => WentOutTo(c, k)'
  <2>1. CASE tx' = tx
    BY <1>1, <2>1, SameTables DEF RecordsInv, Shapes
  <2>2. CASE tx[b][n] \in {"unsent", "sent"} /\ tx' = [tx EXCEPT ![b][n] = "sent"]
    BY <1>1, <1>2, <1>4, <2>2, MovingATransaction DEF RecordsInv
  <2>3. QED
    BY <1>1, <2>1, <2>2
<1>7. Shapes'
  <2>1. \A s \in Rs :
         /\ request'[s].build \in Bs \cup {0}
         /\ request'[s].at # "free" => request'[s].build # 0
         /\ request'[s].at = "sending" => request'[s].next \in 1..Len(builds[request'[s].build].path)
    <3> SUFFICES ASSUME NEW s \in Rs
                 PROVE  /\ request'[s].build \in Bs \cup {0}
                        /\ request'[s].at # "free" => request'[s].build # 0
                        /\ request'[s].at = "sending" =>
                             request'[s].next \in 1..Len(builds[request'[s].build].path)
      OBVIOUS
    <3>1. CASE s = r
      BY <1>2, <1>5, <3>1
    <3>2. CASE s # r
      BY <1>5, <3>2 DEF RecordsInv, Shapes
    <3>3. QED
      BY <3>1, <3>2
  <2>2. QED
    BY <1>1, <1>4, <1>5, <1>6, <2>1 DEF RecordsInv, Shapes
<1>8. SentInOrder'
  <2>1. /\ page.at = "signing" => page.build \in Bs /\ page.next \in Nat
        /\ \A s \in Rs : request[s].at # "free" => request[s].build \in Bs /\ request[s].next \in Nat
    BY DEF RecordsInv, Shapes, Sheet, Request, Places
  <2>2. page.at = "signing" => WentOutTo(page.build, page.next)'
    BY <1>1, <1>6, <2>1 DEF RecordsInv, SentInOrder
  <2>3. \A s \in Rs : request'[s].at = "sending" => WentOutTo(request[s].build, request[s].next)'
    BY <1>1, <1>5, <1>6, <2>1 DEF RecordsInv, SentInOrder
  <2>4. \A s \in Rs : request'[s].at = "recording" => WentOut(request[s].build)'
    BY <1>1, <1>5, <1>6, <2>1 DEF RecordsInv, SentInOrder
  <2>5. QED
    BY <1>1, <1>6, <2>2, <2>3, <2>4 DEF RecordsInv, SentInOrder
<1>9. OpensHaveRows' /\ GivenUpIsPast' /\ ClosedIsHandedBack'
  BY <1>1, <1>6 DEF RecordsInv, OpensHaveRows, GivenUpIsPast, ClosedIsHandedBack
<1>10. SentHereOrThere'
  <2>1. ~page.sends
    BY <1>1 DEF RecordsInv, SentHereOrThere
  <2>2. QED
    BY <1>1, <1>6, <2>1 DEF RecordsInv, SentHereOrThere
<1>11. UnlessAnyWentWrong'
  <2>1. SUFFICES ASSUME faults' = 0, faults = 0, tx' = tx PROVE UnlessAnyWentWrong'
    BY <1>4 DEF UnlessAnyWentWrong
  <2>2. \A c : LastUnsent(c)' <=> LastUnsent(c)
    BY <2>1 DEF LastUnsent
  <2>3. /\ page.at = "waiting" /\ page.request = {r} /\ page.build = b
        /\ \A s \in Rs : s # r => request[s].at = "free"
        /\ LastUnsent(b)
    <3>1. /\ page.at = "waiting" /\ page.request = {r} /\ page.build = b
          /\ request[r].at # "recording" => LastUnsent(page.build)
      BY <1>1, <2>1 DEF RecordsInv, UnlessAnyWentWrong
    <3>2. \A s \in Rs : s # r => request[s].at = "free"
      BY <2>1, <3>1 DEF RecordsInv, UnlessAnyWentWrong
    <3>3. QED
      BY <1>1, <3>1, <3>2
  <2>4. \A s \in Rs : request'[s].at # "free" =>
          /\ page.at = "waiting" /\ page.request = {s} /\ request'[s].build = page.build
          /\ request'[s].at # "recording" => LastUnsent(page.build)
    BY <1>5, <2>3
  <2>5. \A c \in Bs : rows[c] = "failed" => LastUnsent(c)
    BY <1>1, <2>1, <2>3 DEF RecordsInv, UnlessAnyWentWrong
  <2>6. /\ \A c \in Bs : builds[c].stored /\ (builds[c].opens => rows[c] # "none")
        /\ \A c \in Bs : (builds[c].opens /\ builds[c].signed) => rows[c] \in {"open", "closed"}
    BY <2>1 DEF RecordsInv, UnlessAnyWentWrong
  <2>7. QED
    BY <1>1, <1>6, <2>2, <2>3, <2>4, <2>5, <2>6 DEF UnlessAnyWentWrong
<1>12. QED
  BY <1>7, <1>8, <1>9, <1>10, <1>11 DEF RecordsInv

------------------------------------------------------------------------------
(* Steps that move a row.                                                  *)

\* A build went out whole, or its last is unsent.
LEMMA AllOrTheLast ==
    ASSUME Shapes, NEW b \in Bs, WentOut(b) PROVE ~LastUnsent(b)
<1>1. builds[b] \in Build /\ tx[b] \in Seq(TxStates) /\ Len(tx[b]) = Len(builds[b].path)
  BY DEF Shapes, Bs
<1>2. builds[b].path \in Seq(Steps) /\ builds[b].path # <<>>
  BY <1>1 DEF Build
<1>3. Len(tx[b]) \in DOMAIN tx[b]
  BY <1>1, <1>2
<1>4. QED
  BY <1>3 DEF WentOut, LastUnsent

\* A request ends: its build is marked as signed or not, its row is moved or not,
\* and the page, if it waits, is told; all three say the same unless a call goes
\* wrong.
LEMMA AnswerKeepsInv ==
    ASSUME RecordsInv, UNCHANGED <<height, position, wasClosed, tx, cron, watch>>,
           NEW r \in Rs, NEW b \in Bs, b = request[r].build, request[r].at # "free",
           NEW status \in {"open", "failed"},
           status = "open" <=> request[r].at = "recording",
           request' = [request EXCEPT ![r] = Free],
           builds' \in Seq(Build), Len(builds') = Len(builds),
           \A c \in Bs : /\ builds'[c].path = builds[c].path /\ builds'[c].opens = builds[c].opens
                         /\ builds'[c].stored = builds[c].stored
                         /\ builds'[c].lastGood = builds[c].lastGood
                         /\ c # b => builds'[c].signed = builds[c].signed,
           rows' \in Seq(Statuses), Len(rows') = Len(rows),
           \A c \in Bs : rows'[c] = rows[c] \/ (c = b /\ rows[b] # "none" /\ rows'[b] = status),
           page' \in Sheet, page'.build = page.build, page'.sends = page.sends,
           page' = page \/ (r \in page.request /\ page'.at \in {"done", "polling", "failed"}),
           page' # page => page'.request = {},
           page' # page /\ page'.at = "polling" =>
               page'.left # 0 /\ page.build # 0 /\ ~builds[page.build].opens,
           faults' \in 0..MaxFaults, faults' = 0 => faults = 0,
           faults' = 0 =>
             /\ rows[b] # "none" => rows'[b] = status
             /\ IF status = "open" THEN builds'[b].signed ELSE builds'[b].signed = builds[b].signed
             /\ page' # page => (page'.at = "failed" <=> status = "failed")
             /\ (page' # page /\ page'.at = "done") => builds[b].opens
    PROVE  RecordsInv'
<1>1. /\ Bs' = Bs
      /\ (\A c : (WentOut(c)' <=> WentOut(c)) /\ (LastUnsent(c)' <=> LastUnsent(c)))
      /\ (\A c, n : WentOutTo(c, n)' <=> WentOutTo(c, n))
  <2>1. Bs' = Bs
    BY DEF RecordsInv, Shapes, Bs
  <2>2. QED
    BY <2>1 DEF WentOut, WentOutTo, LastUnsent
<1>2. /\ request' \in [Rs -> Request] /\ request'[r].at = "free" /\ request'[r].build = 0
      /\ \A s \in Rs : s # r => request'[s] = request[s]
  <2>1. Free \in Request
    BY DEF Free, Request
  <2>2. QED
    BY <2>1 DEF RecordsInv, Shapes, Free
<1>3. Shapes'
  <2>1. \A c \in Bs : Len(tx[c]) = Len(builds'[c].path) /\ Len(builds'[c].lastGood) = Len(builds'[c].path)
    BY DEF RecordsInv, Shapes
  <2>2. \A s \in Rs :
         /\ request'[s].build \in Bs \cup {0}
         /\ request'[s].at # "free" => request'[s].build # 0
         /\ request'[s].at = "sending" => request'[s].next \in 1..Len(builds'[request'[s].build].path)
    <3> SUFFICES ASSUME NEW s \in Rs
                 PROVE  /\ request'[s].build \in Bs \cup {0}
                        /\ request'[s].at # "free" => request'[s].build # 0
                        /\ request'[s].at = "sending" =>
                             request'[s].next \in 1..Len(builds'[request'[s].build].path)
      OBVIOUS
    <3>1. CASE s = r
      BY <1>2, <3>1
    <3>2. CASE s # r
      <4>1. request[s].at # "free" => request[s].build \in Bs
        BY DEF RecordsInv, Shapes
      <4>2. QED
        BY <1>2, <3>2, <4>1 DEF RecordsInv, Shapes
    <3>3. QED
      BY <3>1, <3>2
  <2>3. /\ page'.build \in Bs \cup {0}
        /\ page'.at \in {"signing", "waiting", "polling"} => page'.build # 0
        /\ page'.at = "polling" => page'.left # 0
        /\ page'.request # {} => page'.at = "waiting"
    BY DEF RecordsInv, Shapes
  <2>4. QED
    BY <1>1, <1>2, <2>1, <2>2, <2>3 DEF RecordsInv, Shapes
<1>4. SentInOrder'
  <2>1. page'.at = "signing" => page' = page
    OBVIOUS
  <2>2. status = "open" => WentOut(b)
    BY DEF RecordsInv, SentInOrder
  <2>3. \A c \in Bs : (rows'[c] \in {"open", "closed"} \/ c \in watch.todo \/ c = watch.found)
                        => WentOut(c)
    BY <2>2 DEF RecordsInv, SentInOrder
  <2>4. QED
    BY <1>1, <1>2, <2>1, <2>3 DEF RecordsInv, SentInOrder
<1>5. OpensHaveRows' /\ GivenUpIsPast'
  BY SMTT(30), <1>1 DEF RecordsInv, OpensHaveRows, GivenUpIsPast
<1>6. ClosedIsHandedBack'
  BY <1>1 DEF RecordsInv, ClosedIsHandedBack
<1>7. SentHereOrThere'
  <2>1. page.sends => status = "open"
    BY DEF RecordsInv, SentHereOrThere
  <2>2. page'.sends => /\ \A s \in Rs : request'[s].at \in {"free", "recording"}
                       /\ \A c \in Bs : rows'[c] # "failed"
    BY <1>2, <2>1 DEF RecordsInv, SentHereOrThere
  <2>3. page'.at = "polling" => ~builds'[page'.build].opens
    BY DEF RecordsInv, SentHereOrThere, Shapes
  <2>4. QED
    BY <1>1, <2>2, <2>3 DEF SentHereOrThere
<1>8. UnlessAnyWentWrong'
  <2>1. SUFFICES ASSUME faults' = 0, faults = 0 PROVE UnlessAnyWentWrong'
    BY DEF UnlessAnyWentWrong
  <2>2. /\ page.at = "waiting" /\ page.request = {r} /\ page.build = b /\ b # 0
        /\ \A s \in Rs : s # r => request[s].at = "free"
        /\ status = "failed" => LastUnsent(b)
    <3>1. /\ page.at = "waiting" /\ page.request = {r} /\ page.build = b
          /\ request[r].at # "recording" => LastUnsent(page.build)
      BY <2>1 DEF RecordsInv, UnlessAnyWentWrong
    <3>2. \A s \in Rs : s # r => request[s].at = "free"
      BY <2>1, <3>1 DEF RecordsInv, UnlessAnyWentWrong
    <3>3. b # 0
      BY DEF Bs
    <3>4. QED
      BY <3>1, <3>2, <3>3
  <2>3. \A s \in Rs : request'[s].at = "free"
    BY <1>2, <2>2
  <2>4. \A c \in Bs : builds'[c].stored /\ (builds'[c].opens => rows'[c] # "none")
    BY <2>1 DEF RecordsInv, UnlessAnyWentWrong
  <2>5. (page'.at = "signing" \/ page'.at = "failed") => LastUnsent(page'.build)
    BY <2>1, <2>2
  <2>6. ASSUME NEW c \in Bs, rows'[c] = "failed" PROVE LastUnsent(c)
    <3>1. CASE c = b
      <4>1. rows[b] # "none"
        BY <2>6, <3>1
      <4>2. QED
        BY <2>1, <2>2, <2>6, <3>1, <4>1
    <3>2. CASE c # b
      <4>1. \A s \in Rs : request[s].at # "free" => request[s].build # c
        BY <2>2, <3>2
      <4>2. QED
        BY <2>1, <2>6, <3>2, <4>1 DEF RecordsInv, UnlessAnyWentWrong
    <3>3. QED
      BY <3>1, <3>2
  <2>7. (page'.at = "done" /\ page'.says = "open")
           => page'.build # 0 /\ builds'[page'.build].opens /\ builds'[page'.build].signed
    <3>1. SUFFICES ASSUME page'.at = "done"
                   PROVE  builds'[b].opens /\ builds'[b].signed /\ page'.build = b
      BY <2>2
    <3>2. builds[b].opens /\ status = "open"
      BY <2>1, <2>2, <3>1
    <3>3. QED
      BY <2>1, <2>2, <3>2
  <2>8. ASSUME NEW c \in Bs, builds'[c].opens, builds'[c].signed
        PROVE  rows'[c] \in {"open", "closed"}
    <3>1. builds[c].opens /\ rows[c] # "none"
      BY <2>1, <2>8 DEF RecordsInv, UnlessAnyWentWrong
    <3>2. CASE c = b /\ status = "open"
      BY <2>1, <3>1, <3>2
    <3>3. CASE c = b /\ status = "failed"
      <4>1. rows[b] \in {"open", "closed"}
        BY <2>1, <2>8, <3>1, <3>3 DEF RecordsInv, UnlessAnyWentWrong
      <4>2. WentOut(b)
        BY <4>1 DEF RecordsInv, SentInOrder
      <4>3. QED
        BY <2>2, <3>3, <4>2, AllOrTheLast DEF RecordsInv
    <3>4. CASE c # b
      <4>1. rows[c] \in {"open", "closed"}
        BY <2>1, <2>8, <3>1, <3>4 DEF RecordsInv, UnlessAnyWentWrong
      <4>2. QED
        BY <3>4, <4>1
    <3>5. QED
      BY <3>2, <3>3, <3>4
  <2>9. QED
    BY <1>1, <2>3, <2>4, <2>5, <2>6, <2>7, <2>8 DEF UnlessAnyWentWrong
<1>9. QED
  BY <1>3, <1>4, <1>5, <1>6, <1>7, <1>8 DEF RecordsInv

\* What marking a build as signed, and moving a row, leave of the tables.
LEMMA MarkingAsSigned ==
    ASSUME Shapes, NEW b \in Bs, builds' = [builds EXCEPT ![b].signed = TRUE]
    PROVE  /\ builds' \in Seq(Build) /\ Len(builds') = Len(builds)
           /\ \A c \in Bs : /\ builds'[c].path = builds[c].path /\ builds'[c].opens = builds[c].opens
                            /\ builds'[c].stored = builds[c].stored
                            /\ builds'[c].lastGood = builds[c].lastGood
                            /\ c # b => builds'[c].signed = builds[c].signed
           /\ builds'[b].signed
<1> DEFINE marked == [builds[b] EXCEPT !.signed = TRUE]
<1>1. builds \in [1..Len(builds) -> Build] /\ Len(builds) \in Nat /\ b \in 1..Len(builds)
  BY DEF Shapes, Bs
<1>2. builds[b] \in Build
  BY <1>1
<1>3. /\ marked \in Build /\ marked.path = builds[b].path /\ marked.opens = builds[b].opens
      /\ marked.stored = builds[b].stored /\ marked.lastGood = builds[b].lastGood
      /\ marked.signed
  BY <1>2 DEF Build
<1>4. builds' = [builds EXCEPT ![b] = marked]
  OBVIOUS
<1> HIDE DEF marked, Build
<1>5. builds' \in [1..Len(builds) -> Build]
  BY <1>1, <1>3, <1>4
<1>6. builds' \in Seq(Build) /\ Len(builds') = Len(builds)
  BY <1>1, <1>5
<1>7. builds'[b] = marked /\ \A c \in Bs : c # b => builds'[c] = builds[c]
  BY <1>1, <1>4 DEF Bs
<1>8. QED
  BY <1>3, <1>6, <1>7

LEMMA MovingARow ==
    ASSUME Shapes, NEW b \in Bs, NEW status \in Statuses, rows' = [rows EXCEPT ![b] = status]
    PROVE  /\ rows' \in Seq(Statuses) /\ Len(rows') = Len(rows) /\ rows'[b] = status
           /\ \A c \in Bs : c # b => rows'[c] = rows[c]
<1>1. rows \in [1..Len(rows) -> Statuses] /\ Len(rows) \in Nat /\ b \in 1..Len(rows)
      /\ Bs = 1..Len(rows)
  BY DEF Shapes, Bs
<1>2. rows' \in [1..Len(rows) -> Statuses]
  BY <1>1
<1>3. QED
  BY <1>1, <1>2

\* A row that a request moves, or leaves.
LEMMA RowOfARequest ==
    ASSUME Shapes, OpensHaveRows, NEW b \in Bs, NEW status \in {"open", "failed"},
           Row(b, status) \/ UNCHANGED rows
    PROVE  /\ rows' \in Seq(Statuses) /\ Len(rows') = Len(rows)
           /\ \A c \in Bs : rows'[c] = rows[c] \/ (c = b /\ rows[b] # "none" /\ rows'[b] = status)
           /\ Row(b, status) => (rows[b] # "none" => rows'[b] = status)
<1>1. status \in Statuses
  BY DEF Statuses
<1>2. rows \in Seq(Statuses)
  BY DEF Shapes
<1>3. CASE builds[b].opens /\ rows[b] # "none" /\ rows' = [rows EXCEPT ![b] = status]
  BY <1>1, <1>3, MovingARow
<1>4. CASE ~(builds[b].opens /\ rows[b] # "none") /\ rows' = rows
  BY <1>2, <1>4 DEF OpensHaveRows
<1>5. CASE rows' = rows /\ ~Row(b, status)
  BY <1>2, <1>5
<1>6. QED
  BY <1>3, <1>4, <1>5 DEF Row

\* What the page is told when it waits for the request.
LEMMA TheSheetOfASuccess ==
    ASSUME Shapes, page.build \in Bs
    PROVE  /\ Submitted \in Sheet /\ Submitted.build = page.build /\ Submitted.sends = page.sends
           /\ Submitted.request = {}
           /\ IF builds[page.build].opens THEN Submitted.at = "done"
              ELSE Submitted.at = "polling" /\ Submitted.left # 0
<1>1. Attempts \in 0..Attempts /\ Attempts # 0 /\ 1 \in Places
  BY Bounds
<1>2. CASE builds[page.build].opens
  BY <1>1, <1>2 DEF Submitted, Sheet, Shapes
<1>3. CASE ~builds[page.build].opens
  BY <1>1, <1>3 DEF Submitted, Sheet, Shapes
<1>4. QED
  BY <1>2, <1>3

LEMMA RecordItKeepsInv ==
    ASSUME RecordsInv, NEW r \in Rs, RecordIt(r)
    PROVE  RecordsInv'
<1> PICK b : b = request[r].build
  OBVIOUS
<1>1. /\ UNCHANGED <<height, position, wasClosed, tx, cron, watch>>
      /\ request[r].at = "recording" /\ request' = [request EXCEPT ![r] = Free]
      /\ page' = IF r \in page.request THEN Submitted ELSE page
      /\ builds' = builds \/ builds' = [builds EXCEPT ![b].signed = TRUE]
      /\ Row(b, "open") \/ UNCHANGED rows
      /\ \/ Row(b, "open") /\ builds' = [builds EXCEPT ![b].signed = TRUE] /\ faults' = faults
         \/ faults < MaxFaults /\ faults' = faults + 1
  BY DEF RecordIt, StatusOnceSent, Answer, Wrong, chainVars, cronVars
<1>2. /\ b \in Bs /\ page \in Sheet /\ builds \in Seq(Build) /\ faults \in 0..MaxFaults
      /\ r \in page.request => page.build \in Bs
  BY <1>1 DEF RecordsInv, Shapes
<1>3. /\ faults' \in 0..MaxFaults
      /\ faults' = 0 => /\ faults = 0 /\ Row(b, "open")
                        /\ builds' = [builds EXCEPT ![b].signed = TRUE]
  <2>1. CASE faults' = faults
    BY <1>1, <1>2, <2>1, Bounds
  <2>2. CASE faults < MaxFaults /\ faults' = faults + 1
    BY <1>2, <2>2, Bounds
  <2>3. QED
    BY <1>1, <2>1, <2>2
<1>4. /\ builds' \in Seq(Build) /\ Len(builds') = Len(builds)
      /\ \A c \in Bs : /\ builds'[c].path = builds[c].path /\ builds'[c].opens = builds[c].opens
                       /\ builds'[c].stored = builds[c].stored
                       /\ builds'[c].lastGood = builds[c].lastGood
                       /\ c # b => builds'[c].signed = builds[c].signed
      /\ faults' = 0 => builds'[b].signed
  BY <1>1, <1>2, <1>3, MarkingAsSigned DEF RecordsInv
<1>5. /\ rows' \in Seq(Statuses) /\ Len(rows') = Len(rows)
      /\ \A c \in Bs : rows'[c] = rows[c] \/ (c = b /\ rows[b] # "none" /\ rows'[b] = "open")
      /\ Row(b, "open") => (rows[b] # "none" => rows'[b] = "open")
  BY <1>1, <1>2, RowOfARequest DEF RecordsInv
<1>6. /\ page' \in Sheet /\ page'.build = page.build /\ page'.sends = page.sends
      /\ page' = page \/ (r \in page.request /\ page'.at \in {"done", "polling"})
      /\ page' # page => page'.request = {}
      /\ page' # page /\ page'.at = "polling" =>
               page'.left # 0 /\ page.build # 0 /\ ~builds[page.build].opens
      /\ page' # page /\ page'.at = "done" => builds[page.build].opens
  <2>1. CASE r \in page.request
    <3>1. page' = Submitted /\ page.build \in Bs
      BY <1>1, <1>2, <2>1
    <3>2. page.build # 0
      BY <1>2, <3>1 DEF Bs
    <3>3. QED
      BY <2>1, <3>1, <3>2, TheSheetOfASuccess DEF RecordsInv
  <2>2. CASE r \notin page.request
    BY <1>1, <1>2, <2>2
  <2>3. QED
    BY <2>1, <2>2
<1>7. faults = 0 => page.build = b
  BY <1>1 DEF RecordsInv, UnlessAnyWentWrong
<1>8. faults' = 0 => /\ faults = 0 /\ (rows[b] # "none" => rows'[b] = "open")
                     /\ page' # page => page'.at # "failed"
                     /\ page' # page /\ page'.at = "done" => builds[b].opens
  BY <1>3, <1>5, <1>6, <1>7
<1>9. QED
  <2>1. UNCHANGED <<height, position, wasClosed, tx, cron, watch>> /\ request' = [request EXCEPT ![r] = Free]
        /\ request[r].at = "recording"
    BY <1>1
  <2>2. faults' \in 0..MaxFaults /\ b \in Bs
    BY <1>2, <1>3
  <2>3. /\ faults' = 0 => faults = 0
        /\ faults' = 0 => /\ rows[b] # "none" => rows'[b] = "open"
                          /\ builds'[b].signed
                          /\ page' # page => (page'.at = "failed" <=> "open" = "failed")
                          /\ (page' # page /\ page'.at = "done") => builds[b].opens
    BY <1>4, <1>8
  <2>4. page' = page \/ (r \in page.request /\ page'.at \in {"done", "polling", "failed"})
    BY <1>6
  <2>5. QED
    BY <1>4, <1>5, <1>6, <2>1, <2>2, <2>3, <2>4, AnswerKeepsInv

LEMMA MarkItFailedKeepsInv ==
    ASSUME RecordsInv, NEW r \in Rs, MarkItFailed(r)
    PROVE  RecordsInv'
<1> PICK b, code : b = request[r].build /\ code = request[r].at
  OBVIOUS
<1>1. /\ UNCHANGED <<height, position, wasClosed, builds, tx, cron, watch>>
      /\ code \in {"nothing was sent", "refused"} /\ request' = [request EXCEPT ![r] = Free]
      /\ page' = IF r \in page.request THEN Fail(code) ELSE page
      /\ \/ Row(b, "failed") /\ faults' = faults
         \/ UNCHANGED rows /\ faults < MaxFaults /\ faults' = faults + 1
  BY DEF MarkItFailed, WhyItFailed, Answer, Wrong, chainVars, cronVars
<1>2. /\ b \in Bs /\ page \in Sheet /\ builds \in Seq(Build) /\ faults \in 0..MaxFaults
  BY <1>1 DEF RecordsInv, Shapes
<1>3. faults' \in 0..MaxFaults /\ (faults' = 0 => faults = 0 /\ Row(b, "failed"))
  <2>1. \/ Row(b, "failed") /\ faults' = faults
        \/ faults < MaxFaults /\ faults' = faults + 1
    BY <1>1
  <2>2. QED
    BY <1>2, <2>1, Bounds
<1>4. /\ rows' \in Seq(Statuses) /\ Len(rows') = Len(rows)
      /\ \A c \in Bs : rows'[c] = rows[c] \/ (c = b /\ rows[b] # "none" /\ rows'[b] = "failed")
      /\ Row(b, "failed") => (rows[b] # "none" => rows'[b] = "failed")
  BY <1>1, <1>2, RowOfARequest DEF RecordsInv
<1>5. /\ page' \in Sheet /\ page'.build = page.build /\ page'.sends = page.sends
      /\ page' = page \/ (r \in page.request /\ page'.at = "failed" /\ page'.request = {})
  BY <1>1, <1>2, TheSheetOfAFailure DEF RecordsInv
<1>6. request[r].at # "free" /\ request[r].at # "recording"
  BY <1>1
<1>7. QED
  BY <1>1, <1>2, <1>3, <1>4, <1>5, <1>6, AnswerKeepsInv

LEMMA DieKeepsInv ==
    ASSUME RecordsInv, NEW r \in Rs, Die(r)
    PROVE  RecordsInv'
<1> PICK b : b = request[r].build
  OBVIOUS
<1>1. /\ UNCHANGED <<height, position, wasClosed, tx, rows, cron, watch>>
      /\ builds' = builds \/ builds' = [builds EXCEPT ![b].signed = TRUE]
      /\ request[r].at # "free" /\ request' = [request EXCEPT ![r] = Free]
      /\ page' = IF r \in page.request THEN Fail("nothing was sent") ELSE page
      /\ faults < MaxFaults /\ faults' = faults + 1
  BY DEF Die, Answer, Wrong, chainVars, cronVars
<1>2. /\ b \in Bs /\ page \in Sheet /\ builds \in Seq(Build) /\ rows \in Seq(Statuses)
      /\ faults \in 0..MaxFaults
  BY <1>1 DEF RecordsInv, Shapes
<1>3. faults' \in 0..MaxFaults /\ faults' # 0
  <2>1. faults < MaxFaults /\ faults' = faults + 1
    BY <1>1
  <2>2. QED
    BY <1>2, <2>1, Bounds
<1>4. /\ page' \in Sheet /\ page'.build = page.build /\ page'.sends = page.sends
      /\ page' = page \/ (r \in page.request /\ page'.at = "failed" /\ page'.request = {})
  BY <1>1, <1>2, TheSheetOfAFailure DEF RecordsInv
<1>5. /\ builds' \in Seq(Build) /\ Len(builds') = Len(builds)
      /\ \A c \in Bs : /\ builds'[c].path = builds[c].path /\ builds'[c].opens = builds[c].opens
                       /\ builds'[c].stored = builds[c].stored
                       /\ builds'[c].lastGood = builds[c].lastGood
                       /\ c # b => builds'[c].signed = builds[c].signed
  BY <1>1, <1>2, MarkingAsSigned DEF RecordsInv
<1>6. CASE request[r].at = "recording"
  BY <1>1, <1>2, <1>3, <1>4, <1>5, <1>6, AnswerKeepsInv
<1>7. CASE request[r].at # "recording"
  BY <1>1, <1>2, <1>3, <1>4, <1>5, <1>7, AnswerKeepsInv
<1>8. QED
  BY <1>6, <1>7

\* A cron moves a row: it gives up one still building that is past, or closes one
\* it found closed.
LEMMA CronMovesARowKeepsInv ==
    ASSUME RecordsInv, UNCHANGED <<height, position, wasClosed, builds, tx, request, page, faults>>,
           NEW b \in Bs, NEW status \in {"abandoned", "closed"},
           rows' = [rows EXCEPT ![b] = status],
           status = "abandoned" => rows[b] = "building" /\ b \in cron,
           status = "closed" => b = watch.found,
           cron' \subseteq cron, watch' \in Walk, watch'.todo \subseteq watch.todo,
           watch'.found \in {watch.found, 0}
    PROVE  RecordsInv'
<1>1. /\ Bs' = Bs
      /\ (\A c : (WentOut(c)' <=> WentOut(c)) /\ (LastUnsent(c)' <=> LastUnsent(c)))
      /\ (\A c, n : WentOutTo(c, n)' <=> WentOutTo(c, n))
  BY DEF WentOut, WentOutTo, LastUnsent, Bs
<1>2. status \in Statuses
  BY DEF Statuses
<1>3. /\ rows' \in Seq(Statuses) /\ Len(rows') = Len(rows) /\ rows'[b] = status
      /\ \A c \in Bs : c # b => rows'[c] = rows[c]
  BY <1>2, MovingARow DEF RecordsInv
<1>4. /\ b # 0 /\ builds[b].opens /\ builds[b].stored \in BOOLEAN
      /\ status = "closed" => WentOut(b) /\ b \in wasClosed
      /\ status = "abandoned" => builds[b].lastGood[1] < height
  <2>1. b # 0 /\ builds[b] \in Build
    BY DEF RecordsInv, Shapes, Bs
  <2>2. status = "closed" => WentOut(b) /\ b \in wasClosed
    BY <2>1 DEF RecordsInv, SentInOrder, ClosedIsHandedBack
  <2>3. builds[b].opens
    BY <2>1 DEF RecordsInv, OpensHaveRows
  <2>4. status = "abandoned" => builds[b].lastGood[1] < height
    BY DEF RecordsInv, GivenUpIsPast
  <2>5. QED
    BY <2>1, <2>2, <2>3, <2>4 DEF Build
<1>5. Shapes'
  <2>1. watch'.todo \subseteq Bs /\ watch'.found \in Bs \cup {0} /\ cron' \subseteq Bs
    BY DEF RecordsInv, Shapes
  <2>2. QED
    BY <1>1, <1>3, <2>1 DEF RecordsInv, Shapes
<1>6. SentInOrder'
  <2>1. \A c \in Bs : c # 0
    BY DEF RecordsInv, Shapes, Bs
  <2>2. \A c \in Bs : (rows'[c] \in {"open", "closed"} \/ c \in watch'.todo \/ c = watch'.found)
                        => WentOut(c)
    BY <1>3, <1>4, <2>1 DEF RecordsInv, SentInOrder
  <2>3. QED
    BY <1>1, <2>2 DEF RecordsInv, SentInOrder
<1>7. OpensHaveRows'
  <2>1. \A c \in Bs : c # 0
    BY DEF RecordsInv, Shapes, Bs
  <2>2. \A c \in Bs : (rows'[c] # "none" \/ c \in watch'.todo \/ c = watch'.found) => builds[c].opens
    BY <1>3, <1>4, <2>1 DEF RecordsInv, OpensHaveRows
  <2>3. QED
    BY <1>1, <2>2 DEF OpensHaveRows
<1>8. GivenUpIsPast' /\ ClosedIsHandedBack'
  BY <1>1, <1>3, <1>4 DEF RecordsInv, GivenUpIsPast, ClosedIsHandedBack
<1>9. SentHereOrThere'
  BY <1>1, <1>3 DEF RecordsInv, SentHereOrThere
<1>10. UnlessAnyWentWrong'
  <2>1. SUFFICES ASSUME faults = 0 PROVE UnlessAnyWentWrong'
    BY DEF UnlessAnyWentWrong
  <2>2. \A c \in Bs : builds[c].stored /\ (builds[c].opens => rows'[c] # "none")
    BY <1>3, <2>1 DEF RecordsInv, UnlessAnyWentWrong
  <2>3. \A c \in Bs : rows'[c] = "failed" =>
             LastUnsent(c) \/ \E r \in Rs : request[r].at = "recording" /\ request[r].build = c
    BY <1>3, <2>1 DEF RecordsInv, UnlessAnyWentWrong
  <2>4. ASSUME NEW c \in Bs, builds[c].opens, builds[c].signed
        PROVE  rows'[c] \in {"open", "closed"}
    <3>1. rows[c] \in {"open", "closed"}
      BY <2>1, <2>4 DEF RecordsInv, UnlessAnyWentWrong
    <3>2. c = b => status = "closed"
      BY <3>1
    <3>3. QED
      BY <1>3, <3>1, <3>2
  <2>5. QED
    BY <1>1, <2>1, <2>2, <2>3, <2>4 DEF RecordsInv, UnlessAnyWentWrong
<1>11. QED
  BY <1>5, <1>6, <1>7, <1>8, <1>9, <1>10 DEF RecordsInv

LEMMA AbandonOneKeepsInv ==
    ASSUME RecordsInv, NEW b \in Bs, AbandonOne(b) PROVE RecordsInv'
<1>1. /\ UNCHANGED <<height, position, wasClosed, builds, tx, request, page, watch, faults>>
      /\ b \in cron /\ cron' = cron \ {b}
      /\ rows' = IF rows[b] = "building" THEN [rows EXCEPT ![b] = "abandoned"] ELSE rows
  BY DEF AbandonOne, StillBuilding, LeftAfter, chainVars
<1>2. watch \in Walk
  BY DEF RecordsInv, Shapes
<1>3. CASE rows[b] = "building"
  BY <1>1, <1>2, <1>3, CronMovesARowKeepsInv
<1>4. CASE rows[b] # "building"
  <2>1. cron' \subseteq Bs /\ (\A c \in cron' : builds[c].lastGood[1] < height)
        /\ watch.todo \subseteq Bs /\ watch.found \in Bs \cup {0} /\ faults \in 0..MaxFaults
    BY <1>1 DEF RecordsInv, Shapes, GivenUpIsPast
  <2>2. QED
    BY <1>1, <1>2, <1>4, <2>1, WalksKeepInv
<1>5. QED
  BY <1>3, <1>4

LEMMA CloseTheRowKeepsInv == ASSUME RecordsInv, CloseTheRow PROVE RecordsInv'
<1>1. /\ UNCHANGED <<height, position, wasClosed, builds, tx, request, page, cron>>
      /\ watch.found # 0
      /\ \/ /\ rows' = [rows EXCEPT ![watch.found] = "closed"]
            /\ watch' = [watch EXCEPT !.found = 0] /\ faults' = faults
         \/ /\ watch' = [at |-> "idle", todo |-> {}, found |-> 0] /\ rows' = rows
            /\ faults < MaxFaults /\ faults' = faults + 1
  BY DEF CloseTheRow, Looking, Wrong, chainVars
<1>2. watch \in Walk /\ watch.found \in Bs
  BY <1>1 DEF RecordsInv, Shapes
<1>3. CASE /\ rows' = [rows EXCEPT ![watch.found] = "closed"]
           /\ watch' = [watch EXCEPT !.found = 0] /\ faults' = faults
  <2>1. watch' \in Walk /\ watch'.todo = watch.todo /\ watch'.found = 0
    BY <1>2, <1>3 DEF Walk
  <2>2. QED
    BY <1>1, <1>2, <1>3, <2>1, CronMovesARowKeepsInv
<1>4. CASE /\ watch' = [at |-> "idle", todo |-> {}, found |-> 0] /\ rows' = rows
           /\ faults < MaxFaults /\ faults' = faults + 1
  <2>1. watch' \in Walk /\ watch'.todo = {} /\ watch'.found = 0
    BY <1>4 DEF Walk
  <2>2. cron \subseteq Bs /\ (\A b \in cron : builds[b].lastGood[1] < height) /\ faults \in 0..MaxFaults
    BY DEF RecordsInv, Shapes, GivenUpIsPast
  <2>3. faults' \in 0..MaxFaults /\ faults' # 0
    BY <1>4, <2>2, Bounds
  <2>4. QED
    BY <1>1, <1>4, <2>1, <2>2, <2>3, WalksKeepInv
<1>5. QED
  BY <1>1, <1>3, <1>4

\* Blocks go by.
LEMMA TickKeepsInv == ASSUME RecordsInv, Tick PROVE RecordsInv'
<1>1. /\ UNCHANGED <<position, wasClosed, builds, tx, rows, request, page, cron, watch, faults>>
      /\ height < MaxHeight /\ height' = height + 1
  BY DEF Tick, cronVars
<1>2. /\ Bs' = Bs
      /\ (\A c : (WentOut(c)' <=> WentOut(c)) /\ (LastUnsent(c)' <=> LastUnsent(c)))
      /\ (\A c, n : WentOutTo(c, n)' <=> WentOutTo(c, n))
  BY <1>1, SameTables DEF RecordsInv
<1>3. height \in 0..MaxHeight /\ height' \in 0..MaxHeight
  <2>1. height \in 0..MaxHeight
    BY DEF RecordsInv, Shapes
  <2>2. QED
    BY <1>1, <2>1, Bounds
<1>4. Shapes'
  BY <1>1, <1>2, <1>3 DEF RecordsInv, Shapes
<1>5. SentInOrder' /\ OpensHaveRows'
  BY <1>1, <1>2 DEF RecordsInv, SentInOrder, OpensHaveRows
<1>6. GivenUpIsPast'
  <2>1. ASSUME NEW b \in Bs, b \in cron \/ rows[b] = "abandoned"
        PROVE  builds[b].lastGood[1] < height'
    <3>1. builds[b] \in Build /\ Len(builds[b].lastGood) = Len(builds[b].path)
      BY DEF RecordsInv, Shapes, Bs
    <3>2. builds[b].lastGood \in Seq(Nat) /\ builds[b].path \in Seq(Steps) /\ builds[b].path # <<>>
      BY <3>1 DEF Build
    <3>3. builds[b].lastGood[1] \in Nat
      BY <3>1, <3>2
    <3>4. builds[b].lastGood[1] < height
      BY <2>1 DEF RecordsInv, GivenUpIsPast
    <3>5. QED
      BY <1>1, <1>3, <3>3, <3>4
  <2>2. QED
    BY <1>1, <1>2, <2>1 DEF GivenUpIsPast
<1>7. ClosedIsHandedBack' /\ SentHereOrThere'
  BY <1>1, <1>2 DEF RecordsInv, ClosedIsHandedBack, SentHereOrThere
<1>8. UnlessAnyWentWrong'
  BY <1>1, <1>2 DEF RecordsInv, UnlessAnyWentWrong
<1>9. QED
  BY <1>4, <1>5, <1>6, <1>7, <1>8 DEF RecordsInv

------------------------------------------------------------------------------
(* Steps that add a build.                                                 *)

\* A new build is nobody's yet, and the others stay as they were.
LEMMA AddingABuild ==
    ASSUME Shapes, NEW path \in Seq(Steps) \ {<<>>}, NEW opens \in BOOLEAN, NEW stored \in BOOLEAN,
           NEW row \in {"building", "none"}, NewBuild(path, opens, stored, row)
    PROVE  LET new == Len(builds) + 1 IN
           /\ builds' \in Seq(Build) /\ tx' \in Seq(Seq(TxStates)) /\ rows' \in Seq(Statuses)
           /\ Len(tx') = Len(builds') /\ Len(rows') = Len(builds')
           /\ Bs' = Bs \cup {new} /\ new \notin Bs /\ new \in Nat /\ new # 0
           /\ \A c \in Bs : builds'[c] = builds[c] /\ tx'[c] = tx[c] /\ rows'[c] = rows[c]
           /\ builds'[new].path = path /\ builds'[new].opens = opens /\ builds'[new].stored = stored
           /\ ~builds'[new].signed
           /\ Len(builds'[new].lastGood) = Len(path) /\ rows'[new] = row
           /\ tx'[new] \in Seq(TxStates) /\ Len(tx'[new]) = Len(path) /\ Len(path) \in Nat \ {0}
           /\ \A n \in DOMAIN tx'[new] : tx'[new][n] = "unsent"
<1> DEFINE new == Len(builds) + 1
           good == [n \in DOMAIN path |-> height + Life + (IF n = 1 THEN 0 ELSE 1)]
           build == [opens |-> opens, path |-> path, stored |-> stored, signed |-> FALSE,
                     lastGood |-> good]
           unsent == [n \in DOMAIN path |-> "unsent"]
<1>1. builds' = Append(builds, build) /\ tx' = Append(tx, unsent) /\ rows' = Append(rows, row)
  BY DEF NewBuild
<1>2. /\ builds \in Seq(Build) /\ tx \in Seq(Seq(TxStates)) /\ rows \in Seq(Statuses)
      /\ Len(tx) = Len(builds) /\ Len(rows) = Len(builds) /\ Len(builds) \in Nat
      /\ Bs = 1..Len(builds)
  BY DEF Shapes, Bs
<1>3. DOMAIN path = 1..Len(path) /\ Len(path) \in Nat /\ Len(path) # 0
  OBVIOUS
<1>4. good \in Seq(Nat) /\ Len(good) = Len(path)
  <2>1. height \in Nat
    BY Bounds DEF Shapes
  <2>2. \A n \in DOMAIN path : height + Life + (IF n = 1 THEN 0 ELSE 1) \in Nat
    BY <2>1, Bounds
  <2>3. QED
    BY <1>3, <2>2
<1>5. unsent \in Seq(TxStates) /\ Len(unsent) = Len(path) /\ \A n \in DOMAIN unsent : unsent[n] = "unsent"
  <2>1. "unsent" \in TxStates
    BY DEF TxStates
  <2> HIDE DEF TxStates
  <2>2. QED
    BY <1>3, <2>1
<1> HIDE DEF good, unsent
<1>6. /\ build \in Build /\ build.path = path /\ build.opens = opens /\ build.stored = stored
      /\ build.lastGood = good /\ ~build.signed
  BY <1>4 DEF Build
<1> HIDE DEF build
<1>7. /\ builds' \in Seq(Build) /\ Len(builds') = new /\ builds'[new] = build
      /\ \A c \in Bs : builds'[c] = builds[c]
  <2> HIDE DEF Build
  <2> QED BY <1>1, <1>2, <1>6
<1>8. /\ tx' \in Seq(Seq(TxStates)) /\ Len(tx') = new /\ tx'[new] = unsent
      /\ \A c \in Bs : tx'[c] = tx[c]
  <2> DEFINE S == Seq(TxStates)
  <2>1. tx \in Seq(S) /\ unsent \in S
    BY <1>2, <1>5
  <2> HIDE DEF S
  <2>2. /\ tx' \in Seq(S) /\ Len(tx') = new /\ tx'[new] = unsent
        /\ \A c \in Bs : tx'[c] = tx[c]
    BY <1>1, <1>2, <2>1
  <2>3. QED
    BY <2>2 DEF S
<1>9. /\ rows' \in Seq(Statuses) /\ Len(rows') = new /\ rows'[new] = row
      /\ \A c \in Bs : rows'[c] = rows[c]
  <2>1. row \in Statuses
    BY DEF Statuses
  <2> HIDE DEF Statuses
  <2>2. QED
    BY <1>1, <1>2, <2>1
<1>10. Bs' = Bs \cup {new} /\ new \notin Bs /\ new \in Nat /\ new # 0
  <2>1. Bs' = 1..Len(builds')
    BY <1>7 DEF Bs
  <2>2. Len(builds') = new
    BY <1>7
  <2>3. QED
    BY <1>2, <2>1, <2>2
<1>11. QED
  BY <1>3, <1>4, <1>5, <1>6, <1>7, <1>8, <1>9, <1>10

\* Whatever of it fails to be stored, a new build keeps the invariant, and the page
\* shows it or nothing.
LEMMA BuildKeepsInv ==
    ASSUME RecordsInv, UNCHANGED <<height, position, wasClosed, request, cron, watch>>,
           NEW path \in OpenPaths \cup ClosePaths, NEW opens \in BOOLEAN, NEW stored \in BOOLEAN,
           NEW row \in {"building", "none"}, NewBuild(path, opens, stored, row),
           row = "building" => opens,
           position # "closed", page.at \in {"idle", "failed", "done"}, page' \in Sheet, page'.sends = page.sends,
           page'.request = page.request, page'.next = 1,
           \/ page'.at = "signing" /\ page'.build = Len(builds) + 1
           \/ page'.at = "failed" /\ page'.build = 0,
           faults' \in 0..MaxFaults,
           faults' = 0 => faults = 0 /\ stored /\ (opens => row = "building")
    PROVE  RecordsInv'
<1> PICK new : new = Len(builds) + 1
  OBVIOUS
<1>1. path \in Seq(Steps) \ {<<>>}
  BY PositionRecordsAssumption
<1>2. /\ builds' \in Seq(Build) /\ tx' \in Seq(Seq(TxStates)) /\ rows' \in Seq(Statuses)
      /\ Len(tx') = Len(builds') /\ Len(rows') = Len(builds')
      /\ Bs' = Bs \cup {new} /\ new \notin Bs /\ new \in Nat /\ new # 0
      /\ \A c \in Bs : builds'[c] = builds[c] /\ tx'[c] = tx[c] /\ rows'[c] = rows[c]
      /\ builds'[new].path = path /\ builds'[new].opens = opens /\ builds'[new].stored = stored
      /\ Len(builds'[new].lastGood) = Len(path) /\ rows'[new] = row
      /\ Len(tx'[new]) = Len(path) /\ ~builds'[new].signed
  BY <1>1, AddingABuild DEF RecordsInv
<1>3. LastUnsent(new)'
  <2>1. /\ tx'[new] \in Seq(TxStates) /\ Len(tx'[new]) = Len(path) /\ Len(path) \in Nat \ {0}
        /\ \A n \in DOMAIN tx'[new] : tx'[new][n] = "unsent"
    BY <1>1, AddingABuild DEF RecordsInv
  <2>2. Len(tx'[new]) \in DOMAIN tx'[new]
    BY <2>1
  <2>3. QED
    BY <2>1, <2>2 DEF LastUnsent
<1>4. /\ \A c \in Bs : (WentOut(c) <=> WentOut(c)') /\ (LastUnsent(c) <=> LastUnsent(c)')
      /\ \A c \in Bs : \A n : WentOutTo(c, n) <=> WentOutTo(c, n)'
  <2>1. \A c \in Bs : tx'[c] = tx[c] /\ builds'[c] = builds[c] /\ c \in Bs'
    BY <1>2
  <2>2. \A c \in Bs : (WentOut(c) <=> WentOut(c)') /\ (LastUnsent(c) <=> LastUnsent(c)')
    BY <2>1 DEF WentOut, LastUnsent
  <2>3. \A c \in Bs : \A n : WentOutTo(c, n) <=> WentOutTo(c, n)'
    BY <2>1 DEF WentOutTo
  <2>4. QED
    BY <2>2, <2>3
<1>5. /\ cron \subseteq Bs /\ watch.todo \subseteq Bs /\ watch.found \in Bs \cup {0}
      /\ \A r \in Rs : request[r].at # "free" => request[r].build \in Bs
      /\ \A r \in Rs : request[r].build \in Bs \cup {0}
      /\ page.request = {}
  BY DEF RecordsInv, Shapes
<1>6. Shapes'
  <2>1. ASSUME NEW c \in Bs'
        PROVE  Len(tx'[c]) = Len(builds'[c].path) /\ Len(builds'[c].lastGood) = Len(builds'[c].path)
    <3>1. CASE c = new
      BY <1>2, <3>1
    <3>2. CASE c \in Bs
      <4>1. Len(tx[c]) = Len(builds[c].path) /\ Len(builds[c].lastGood) = Len(builds[c].path)
        BY <3>2 DEF RecordsInv, Shapes
      <4>2. QED
        BY <1>2, <3>2, <4>1
    <3>3. QED
      BY <1>2, <3>1, <3>2
  <2>2. \A s \in Rs :
         /\ request[s].at # "free" => request[s].build # 0
         /\ request[s].at = "sending" => request[s].next \in 1..Len(builds'[request[s].build].path)
    BY <1>2, <1>5 DEF RecordsInv, Shapes
  <2>3. cron \subseteq Bs' /\ watch.todo \subseteq Bs' /\ watch.found \in Bs' \cup {0}
        /\ (\A r \in Rs : request[r].build \in Bs' \cup {0})
    BY <1>2, <1>5
  <2>4. /\ page'.build \in Bs' \cup {0} /\ page'.request = {} /\ page'.at # "polling"
        /\ page'.at \in {"signing", "waiting"} => page'.build # 0
    BY <1>2, <1>5
  <2>5. /\ height \in 0..MaxHeight /\ position \in {"none", "waiting", "held", "closed"}
        /\ wasClosed \subseteq Bs'
        /\ request \in [Rs -> Request] /\ watch \in Walk
    BY <1>2 DEF RecordsInv, Shapes
  <2>6. QED
    BY <1>2, <2>1, <2>2, <2>3, <2>4, <2>5 DEF Shapes
<1>7. SentInOrder'
  <2>1. page'.at = "signing" => WentOutTo(page.build, page.next)'
    <3>1. SUFFICES ASSUME page'.at = "signing" PROVE \A k \in DOMAIN tx'[new] : ~(k < 1)
      BY <1>2 DEF WentOutTo
    <3>2. tx'[new] \in Seq(TxStates)
      BY <1>1, AddingABuild DEF RecordsInv
    <3>3. QED
      BY <3>2
  <2>2. \A r \in Rs : request[r].at = "sending" => WentOutTo(request[r].build, request[r].next)'
    BY <1>4, <1>5 DEF RecordsInv, SentInOrder
  <2>3. \A r \in Rs : request[r].at = "recording" => WentOut(request[r].build)'
    BY <1>4, <1>5 DEF RecordsInv, SentInOrder
  <2>4. ASSUME NEW c \in Bs', rows'[c] \in {"open", "closed"} \/ c \in watch.todo \/ c = watch.found
        PROVE  WentOut(c)'
    <3>1. c \in Bs
      BY <1>2, <1>5, <2>4
    <3>2. QED
      BY <1>2, <1>4, <2>4, <3>1 DEF RecordsInv, SentInOrder
  <2>5. QED
    BY <2>1, <2>2, <2>3, <2>4 DEF SentInOrder
<1>8. OpensHaveRows'
  <2>1. ASSUME NEW c \in Bs', rows'[c] # "none" \/ c \in watch.todo \/ c = watch.found
        PROVE  builds'[c].opens
    <3>1. CASE c = new
      BY <1>2, <1>5, <2>1, <3>1
    <3>2. CASE c \in Bs
      BY <1>2, <2>1, <3>2 DEF RecordsInv, OpensHaveRows
    <3>3. QED
      BY <1>2, <3>1, <3>2
  <2>2. QED
    BY <2>1 DEF OpensHaveRows
<1>9. GivenUpIsPast'
  <2>1. ASSUME NEW c \in Bs', c \in cron \/ rows'[c] = "abandoned"
        PROVE  builds'[c].lastGood[1] < height
    <3>1. c \in Bs
      BY <1>2, <1>5, <2>1
    <3>2. QED
      BY <1>2, <2>1, <3>1 DEF RecordsInv, GivenUpIsPast
  <2>2. QED
    BY <2>1 DEF GivenUpIsPast
<1>10. ClosedIsHandedBack'
  <2>1. \A c \in Bs' : rows'[c] = "closed" => c \in Bs /\ rows[c] = "closed"
    BY <1>2
  <2>2. QED
    BY <2>1 DEF RecordsInv, ClosedIsHandedBack
<1>11. SentHereOrThere'
  <2>1. page.sends => \A c \in Bs : rows[c] # "failed"
    BY DEF RecordsInv, SentHereOrThere
  <2>2. row # "failed"
    OBVIOUS
  <2>3. page.sends => \A c \in Bs' : rows'[c] # "failed"
    BY <1>2, <2>1, <2>2
  <2>4. QED
    BY <2>3 DEF RecordsInv, SentHereOrThere
<1>12. UnlessAnyWentWrong'
  <2>1. SUFFICES ASSUME faults' = 0, faults = 0, stored, opens => row = "building"
                 PROVE  UnlessAnyWentWrong'
    BY DEF UnlessAnyWentWrong
  <2>2. \A s \in Rs : request[s].at = "free"
    BY <2>1 DEF RecordsInv, UnlessAnyWentWrong
  <2>3. ASSUME NEW c \in Bs' PROVE builds'[c].stored /\ (builds'[c].opens => rows'[c] # "none")
    <3>1. CASE c = new
      BY <1>2, <2>1, <3>1
    <3>2. CASE c \in Bs
      <4>1. builds[c].stored /\ (builds[c].opens => rows[c] # "none")
        BY <2>1, <3>2 DEF RecordsInv, UnlessAnyWentWrong
      <4>2. QED
        BY <1>2, <3>2, <4>1
    <3>3. QED
      BY <1>2, <3>1, <3>2
  <2>4. ASSUME NEW c \in Bs', rows'[c] = "failed" PROVE LastUnsent(c)'
    <3>1. CASE c = new
      BY <1>3, <3>1
    <3>2. CASE c \in Bs
      <4>1. rows[c] = "failed"
        BY <1>2, <2>4, <3>2
      <4>2. LastUnsent(c) \/ \E s \in Rs : request[s].at = "recording" /\ request[s].build = c
        BY <2>1, <3>2, <4>1 DEF RecordsInv, UnlessAnyWentWrong
      <4>3. QED
        BY <1>4, <2>2, <3>2, <4>2
    <3>3. QED
      BY <1>2, <3>1, <3>2
  <2>5. page'.at # "done" /\ (page'.build # 0 => page'.build = new)
    OBVIOUS
  <2>6. page'.build # 0 => LastUnsent(page.build)'
    BY <1>3, <2>5 DEF LastUnsent
  <2>7. ASSUME NEW c \in Bs', builds'[c].opens, builds'[c].signed
        PROVE  rows'[c] \in {"open", "closed"}
    <3>1. c \in Bs /\ builds[c].opens /\ builds[c].signed
      BY <1>2, <2>7
    <3>2. QED
      BY <1>2, <2>1, <3>1 DEF RecordsInv, UnlessAnyWentWrong
  <2>8. QED
    BY <2>2, <2>3, <2>4, <2>5, <2>6, <2>7 DEF UnlessAnyWentWrong
<1>13. QED
  BY <1>6, <1>7, <1>8, <1>9, <1>10, <1>11, <1>12 DEF RecordsInv

LEMMA BuildOpenKeepsInv == ASSUME RecordsInv, BuildOpen PROVE RecordsInv'
<1>1. /\ UNCHANGED <<height, position, wasClosed, request, cron, watch>>
      /\ page.at \in {"idle", "failed", "done"} /\ page' = Show("signing", Len(builds) + 1)
      /\ position # "closed"
  BY DEF BuildOpen, cronVars
<1>2. PICK path \in OpenPaths :
         \/ NewBuild(path, TRUE, TRUE, "building") /\ faults' = faults
         \/ NewBuild(path, TRUE, TRUE, "none") /\ faults < MaxFaults /\ faults' = faults + 1
         \/ NewBuild(path, TRUE, FALSE, "building") /\ faults < MaxFaults /\ faults' = faults + 1
  BY DEF BuildOpen, Wrong
<1>3. page \in Sheet /\ faults \in 0..MaxFaults /\ Len(builds) + 1 \in Nat
  BY DEF RecordsInv, Shapes
<1>4. /\ page' \in Sheet /\ page'.sends = page.sends /\ page'.request = page.request
      /\ page'.next = 1 /\ page'.at = "signing" /\ page'.build = Len(builds) + 1
  BY <1>1, <1>3, Bounds DEF Show, Sheet
<1>5. CASE NewBuild(path, TRUE, TRUE, "building") /\ faults' = faults
  BY <1>1, <1>3, <1>4, <1>5, BuildKeepsInv
<1>6. CASE ~(NewBuild(path, TRUE, TRUE, "building") /\ faults' = faults)
  <2>1. faults' \in 0..MaxFaults /\ faults' # 0
    <3>1. faults < MaxFaults /\ faults' = faults + 1
      BY <1>2, <1>6
    <3>2. QED
      BY <1>3, <3>1, Bounds
  <2>2. CASE NewBuild(path, TRUE, TRUE, "none")
    BY <1>1, <1>4, <2>1, <2>2, BuildKeepsInv
  <2>3. CASE NewBuild(path, TRUE, FALSE, "building")
    BY <1>1, <1>4, <2>1, <2>3, BuildKeepsInv
  <2>4. QED
    BY <1>2, <1>6, <2>2, <2>3
<1>7. QED
  BY <1>5, <1>6

LEMMA BuildOpenTooLateKeepsInv == ASSUME RecordsInv, BuildOpenTooLate PROVE RecordsInv'
<1>1. /\ UNCHANGED <<height, position, wasClosed, request, cron, watch>>
      /\ page.at \in {"idle", "failed", "done"} /\ position # "closed"
      /\ page' = [Show("failed", 0) EXCEPT !.says = "nothing was sent"]
      /\ faults < MaxFaults /\ faults' = faults + 1
  BY DEF BuildOpenTooLate, Wrong, cronVars
<1>2. PICK path \in OpenPaths : NewBuild(path, TRUE, FALSE, "building")
  BY DEF BuildOpenTooLate
<1>3. page \in Sheet /\ faults \in 0..MaxFaults
  BY DEF RecordsInv, Shapes
<1>4. /\ page' \in Sheet /\ page'.sends = page.sends /\ page'.request = page.request
      /\ page'.next = 1 /\ page'.at = "failed" /\ page'.build = 0
  BY <1>1, <1>3, Bounds DEF Show, Sheet
<1>5. faults' \in 0..MaxFaults /\ faults' # 0
  <2>1. faults < MaxFaults /\ faults' = faults + 1
    BY <1>1
  <2>2. QED
    BY <1>3, <2>1, Bounds
<1>6. QED
  BY <1>1, <1>2, <1>4, <1>5, BuildKeepsInv

LEMMA BuildCloseKeepsInv == ASSUME RecordsInv, BuildClose PROVE RecordsInv'
<1>1. /\ UNCHANGED <<height, position, wasClosed, request, cron, watch>>
      /\ page.at \in {"idle", "failed", "done"} /\ page' = Show("signing", Len(builds) + 1)
      /\ position # "closed"
  BY DEF BuildClose, cronVars
<1>2. PICK path \in ClosePaths :
         \/ NewBuild(path, FALSE, TRUE, "none") /\ faults' = faults
         \/ NewBuild(path, FALSE, FALSE, "none") /\ faults < MaxFaults /\ faults' = faults + 1
  BY DEF BuildClose, Wrong
<1>3. page \in Sheet /\ faults \in 0..MaxFaults /\ Len(builds) + 1 \in Nat
  BY DEF RecordsInv, Shapes
<1>4. /\ page' \in Sheet /\ page'.sends = page.sends /\ page'.request = page.request
      /\ page'.next = 1 /\ page'.at = "signing" /\ page'.build = Len(builds) + 1
  BY <1>1, <1>3, Bounds DEF Show, Sheet
<1>5. CASE NewBuild(path, FALSE, TRUE, "none") /\ faults' = faults
  BY <1>1, <1>3, <1>4, <1>5, BuildKeepsInv
<1>6. CASE NewBuild(path, FALSE, FALSE, "none") /\ faults < MaxFaults /\ faults' = faults + 1
  <2>1. faults' \in 0..MaxFaults /\ faults' # 0
    BY <1>3, <1>6, Bounds
  <2>2. QED
    BY <1>1, <1>4, <1>6, <2>1, BuildKeepsInv
<1>7. QED
  BY <1>2, <1>5, <1>6

------------------------------------------------------------------------------
(* The invariant always holds.                                             *)

LEMMA RecordsInv_Init == Init => RecordsInv
<1> SUFFICES ASSUME Init PROVE RecordsInv
  OBVIOUS
<1>1. /\ height = 0 /\ position = "none" /\ wasClosed = {} /\ builds = <<>> /\ tx = <<>> /\ rows = <<>>
      /\ request = [r \in Rs |-> Free] /\ cron = {} /\ faults = 0
      /\ watch = [at |-> "idle", todo |-> {}, found |-> 0]
      /\ \E sends \in BOOLEAN :
           page = [at |-> "idle", build |-> 0, next |-> 1, request |-> {}, left |-> 0,
                   says |-> "nothing", sends |-> sends]
  BY DEF Init, Rs, Looking
<1>2. 0 \in 0..MaxHeight /\ 0 \in 0..MaxFaults
  BY Bounds
<1>3. page \in Sheet /\ page.at = "idle" /\ page.build = 0 /\ page.request = {}
  BY <1>1, Bounds DEF Sheet
<1>4. watch \in Walk /\ watch.todo = {} /\ watch.found = 0
  BY <1>1 DEF Walk
<1>5. Free \in Request /\ Free.at = "free" /\ Free.build = 0
  BY DEF Free, Request
<1>6. request \in [Rs -> Request] /\ \A r \in Rs : request[r] = Free
  BY <1>1, <1>5
<1>7. Bs = {} /\ Len(tx) = Len(builds) /\ Len(rows) = Len(builds)
      /\ builds \in Seq(Build) /\ tx \in Seq(Seq(TxStates)) /\ rows \in Seq(Statuses)
  BY <1>1 DEF Bs
<1>8. Shapes
  BY <1>1, <1>2, <1>3, <1>4, <1>5, <1>6, <1>7 DEF Shapes
<1>9. SentInOrder /\ OpensHaveRows /\ GivenUpIsPast
  BY <1>3, <1>5, <1>6, <1>7 DEF SentInOrder, OpensHaveRows, GivenUpIsPast
<1>10. ClosedIsHandedBack /\ SentHereOrThere /\ UnlessAnyWentWrong
  BY <1>1, <1>3, <1>4, <1>5, <1>6, <1>7 DEF ClosedIsHandedBack, SentHereOrThere, UnlessAnyWentWrong
<1>11. QED
  BY <1>8, <1>9, <1>10 DEF RecordsInv

LEMMA RecordsInv_Next == RecordsInv /\ [Next]_vars => RecordsInv'
<1> SUFFICES ASSUME RecordsInv, [Next]_vars PROVE RecordsInv'
  OBVIOUS
<1>1. DOMAIN request = Rs
  BY DEF RecordsInv, Shapes
<1>2. CASE Tick
  BY <1>2, TickKeepsInv
<1>3. ASSUME NEW b \in Bs, NEW n \in DOMAIN builds[b].path, Land(b, n) PROVE RecordsInv'
  BY <1>3, LandKeepsInv
<1>4. CASE Browse
  BY <1>4, BuildOpenKeepsInv, BuildOpenTooLateKeepsInv, BuildCloseKeepsInv, SayNoKeepsInv,
     SignAgainKeepsInv, PostTheSignedKeepsInv, WalletSendsKeepsInv, PostTheSignaturesKeepsInv
     DEF Browse
<1>5. CASE LoseTheAnswer
  BY <1>5, LoseTheAnswerKeepsInv
<1>6. CASE Poll
  BY <1>6, PollKeepsInv
<1>7. ASSUME NEW r \in DOMAIN request, Serve(r) \/ Die(r) PROVE RecordsInv'
  BY <1>1, <1>7, SendTheNextKeepsInv, SendThrowsKeepsInv, RecordItKeepsInv, MarkItFailedKeepsInv,
     DieKeepsInv DEF Serve
<1>8. CASE Abandon
  BY <1>8, ReadTheHeightKeepsInv, AbandonOneKeepsInv DEF Abandon
<1>9. CASE StopAbandoning
  BY <1>9, StopAbandoningKeepsInv
<1>13. CASE OthersAct
  BY <1>13, OthersActKeepsInv
<1>10. CASE Watch
  BY <1>10, ReadTheOpenRowsKeepsInv, ReadOnePositionKeepsInv, CloseTheRowKeepsInv,
     StopWatchingKeepsInv DEF Watch
<1>11. CASE UNCHANGED vars
  <2>1. /\ UNCHANGED <<height, position, wasClosed, builds, tx, rows, request, page>>
        /\ cron' = cron /\ watch' = watch /\ faults' = faults
    BY <1>11 DEF vars
  <2>2. /\ cron \subseteq Bs /\ (\A b \in cron : builds[b].lastGood[1] < height)
        /\ watch \in Walk /\ watch.todo \subseteq Bs /\ watch.found \in Bs \cup {0}
        /\ faults \in 0..MaxFaults
    BY DEF RecordsInv, Shapes, GivenUpIsPast
  <2>3. QED
    BY <2>1, <2>2, WalksKeepInv
<1>12. QED
  BY <1>2, <1>3, <1>4, <1>5, <1>6, <1>7, <1>8, <1>9, <1>10, <1>11, <1>13 DEF Next

LEMMA RecordsInv_Always == Spec => []RecordsInv
BY RecordsInv_Init, RecordsInv_Next, PTL DEF Spec

------------------------------------------------------------------------------
(* What the runs check of two builds, for any number of them.              *)

\* Rows, requests and the sheet are what they should be.
THEOREM RecordTypes == Spec => []TypeOK
<1>1. RecordsInv => TypeOK
  <2>1. SUFFICES ASSUME Shapes PROVE TypeOK
    BY DEF RecordsInv
  <2>2. DOMAIN rows = Bs /\ DOMAIN tx = Bs /\ DOMAIN request = Rs
    BY <2>1 DEF Shapes, Bs
  <2>3. ASSUME NEW b \in Bs
        PROVE  /\ rows[b] \in Statuses
               /\ \A n \in DOMAIN tx[b] : tx[b][n] \in {"unsent", "sent", "landed", "refused"}
    <3>1. rows[b] \in Statuses
      BY <2>1, <2>2 DEF Shapes
    <3>2. tx[b] \in Seq(TxStates)
      BY <2>1, <2>2 DEF Shapes
    <3>3. \A n \in DOMAIN tx[b] : tx[b][n] \in TxStates
      BY <3>2
    <3>4. QED
      BY <3>1, <3>3 DEF TxStates
  <2>4. ASSUME NEW r \in DOMAIN request
        PROVE  /\ request[r].at \in {"free", "sending", "recording"} \cup WhyItFailed
               /\ request[r].build \in Bs \cup {0}
    BY <2>1, <2>2 DEF Shapes, Request, WhyItFailed
  <2>5. /\ page.at \in {"idle", "signing", "waiting", "polling", "done", "failed"}
        /\ page.left \in 0..Attempts /\ page.build \in Bs \cup {0} /\ page.request \subseteq DOMAIN request
    BY <2>1, <2>2 DEF Shapes, Sheet
  <2>6. /\ height \in 0..MaxHeight /\ faults \in 0..MaxFaults
        /\ position \in {"none", "waiting", "held", "closed"}
        /\ cron \subseteq Bs /\ watch.todo \subseteq Bs /\ wasClosed \subseteq Bs
    BY <2>1 DEF Shapes
  <2>7. QED
    BY <2>2, <2>3, <2>4, <2>5, <2>6 DEF TypeOK
<1>2. QED
  BY <1>1, RecordsInv_Always, PTL

\* Whoever sends and however often it is submitted, a row says open or closed only
\* of a build that went out whole.
THEOREM OpenMeansSent == Spec => []OpenRowsWentOut
<1>1. RecordsInv => OpenRowsWentOut
  BY DEF RecordsInv, SentInOrder, WentOut, OpenRowsWentOut
<1>2. QED
  BY <1>1, RecordsInv_Always, PTL

\* A row says closed only of a position whose account was Closed since its build,
\* whoever closed it and whatever else the cron finds.
THEOREM ClosedMeansHandedBack == Spec => []ClosedRowsWereHandedBack
<1>1. RecordsInv => ClosedRowsWereHandedBack
  BY DEF RecordsInv, ClosedIsHandedBack, ClosedRowsWereHandedBack
<1>2. QED
  BY <1>1, RecordsInv_Always, PTL

\* Unless a call went wrong, a row says failed only of a build not sent whole, or
\* about to be recorded.
THEOREM FailedMeansUnsent == Spec => []FailedRowsLackATransaction
<1>1. RecordsInv => FailedRowsLackATransaction
  <2>1. SUFFICES ASSUME RecordsInv, faults = 0, NEW b \in Bs, rows[b] = "failed",
                        ~(\E r \in DOMAIN request : request[r].at = "recording" /\ request[r].build = b)
                 PROVE  \E n \in DOMAIN tx[b] : tx[b][n] = "unsent"
    BY DEF FailedRowsLackATransaction
  <2>2. DOMAIN request = Rs
    BY <2>1 DEF RecordsInv, Shapes
  <2>3. LastUnsent(b)
    BY <2>1, <2>2 DEF RecordsInv, UnlessAnyWentWrong
  <2>4. builds[b] \in Build /\ tx[b] \in Seq(TxStates) /\ Len(tx[b]) = Len(builds[b].path)
    BY <2>1 DEF RecordsInv, Shapes, Bs
  <2>5. builds[b].path \in Seq(Steps) /\ builds[b].path # <<>>
    BY <2>4 DEF Build
  <2>6. Len(tx[b]) \in DOMAIN tx[b]
    BY <2>4, <2>5
  <2>7. QED
    BY <2>3, <2>6 DEF LastUnsent
<1>2. QED
  BY <1>1, RecordsInv_Always, PTL

\* Unless a call went wrong, the sheet says open only of a build whose row says so,
\* or of one the wallet sent and whose signatures were refused.
THEOREM OpenIsRecorded == Spec => []OpenedIsRecorded
<1>1. RecordsInv => OpenedIsRecorded
  BY DEF RecordsInv, Shapes, UnlessAnyWentWrong, OpenedIsRecorded
<1>2. QED
  BY <1>1, RecordsInv_Always, PTL

\* One transaction moved, or a build added, leaves the first of another as it was.
LEMMA TheFirstOfAnother ==
    ASSUME Shapes, NEW b \in Bs, NEW c \in Bs, NEW n \in DOMAIN tx[c], NEW state,
           tx' = [tx EXCEPT ![c][n] = state], b # c \/ n # 1
    PROVE  tx'[b][1] = tx[b][1]
<1>1. tx \in Seq(Seq(TxStates)) /\ Bs = DOMAIN tx
  BY DEF Shapes, Bs
<1>2. QED
  BY <1>1

\* No block takes the first transaction of a build that was given up: it is past,
\* and no submit, wallet or cron brings it back.
THEOREM AbandonedStaysUnbegun == Spec => AbandonedNeverBegins
<1> DEFINE Unbegun == \A b \in Bs : (rows[b] = "abandoned" /\ tx[b][1] # "landed")
                                    => (rows'[b] = "abandoned" => tx'[b][1] # "landed")
<1>1. RecordsInv /\ [Next]_vars => Unbegun
  <2>1. SUFFICES ASSUME RecordsInv, [Next]_vars, NEW b \in Bs, rows[b] = "abandoned",
                        tx[b][1] # "landed"
                 PROVE  tx'[b][1] # "landed"
    OBVIOUS
  <2>2. CASE tx'[b] = tx[b]
    BY <2>1, <2>2
  <2>3. ASSUME NEW c \in Bs, NEW n \in DOMAIN tx[c], tx' = [tx EXCEPT ![c][n] = "sent"]
        PROVE  tx'[b][1] # "landed"
    <3>1. tx \in Seq(Seq(TxStates)) /\ Bs = DOMAIN tx
      BY <2>1 DEF RecordsInv, Shapes, Bs
    <3>2. CASE b = c /\ n = 1
      <4>1. tx'[b][1] = "sent"
        BY <2>3, <3>1, <3>2
      <4>2. QED
        BY <4>1
    <3>3. CASE b # c \/ n # 1
      BY <2>1, <2>3, <3>3, TheFirstOfAnother DEF RecordsInv
    <3>4. QED
      BY <3>2, <3>3
  <2>4. \A c \in Bs : DOMAIN tx[c] = DOMAIN builds[c].path /\ tx[c] \in Seq(TxStates)
                       /\ DOMAIN tx[c] = 1..Len(builds[c].path)
    <3>1. ASSUME NEW c \in Bs
          PROVE  /\ builds[c] \in Build /\ tx[c] \in Seq(TxStates)
                 /\ Len(tx[c]) = Len(builds[c].path)
      <4>1. /\ builds \in Seq(Build) /\ tx \in Seq(Seq(TxStates)) /\ Len(tx) = Len(builds)
            /\ Len(tx[c]) = Len(builds[c].path)
        BY <2>1 DEF RecordsInv, Shapes
      <4> HIDE DEF Build, TxStates
      <4>2. QED
        BY <4>1 DEF Bs
    <3>2. QED
      BY <3>1 DEF Build
  <2>5. ASSUME NEW c \in Bs, NEW n \in DOMAIN builds[c].path, Land(c, n) PROVE tx'[b][1] # "landed"
    <3>1. CASE b = c /\ n = 1
      <4>1. height <= builds[b].lastGood[1]
        BY <2>5, <3>1 DEF Land, InTime
      <4>2. builds[b].lastGood[1] < height
        BY <2>1 DEF RecordsInv, GivenUpIsPast
      <4>3. height \in Nat /\ builds[b].lastGood[1] \in Nat
        <5>1. builds[b] \in Build /\ Len(builds[b].lastGood) = Len(builds[b].path) /\ height \in Nat
          BY <2>1, Bounds DEF RecordsInv, Shapes, Bs
        <5>2. builds[b].lastGood \in Seq(Nat) /\ 1 \in 1..Len(builds[b].path)
          BY <2>4, <2>5, <3>1, <5>1 DEF Build
        <5>3. QED
          BY <5>1, <5>2
      <4>4. QED
        BY <4>1, <4>2, <4>3
    <3>2. CASE b # c \/ n # 1
      <4>1. PICK state : tx' = [tx EXCEPT ![c][n] = state]
        BY <2>5 DEF Land
      <4>2. QED
        BY <2>1, <2>4, <2>5, <3>2, <4>1, TheFirstOfAnother DEF RecordsInv
    <3>3. QED
      BY <3>1, <3>2
  <2>6. CASE BuildOpen \/ BuildOpenTooLate \/ BuildClose
    <3>1. PICK new : tx' = Append(tx, new)
      BY <2>6 DEF BuildOpen, BuildOpenTooLate, BuildClose, NewBuild
    <3>2. tx'[b] = tx[b]
      BY <2>1, <3>1 DEF RecordsInv, Shapes, Bs
    <3>3. QED
      BY <2>2, <3>2
  <2>7. CASE WalletSends
    <3>1. /\ page.build \in Bs /\ page.next \in 1..Len(builds[page.build].path)
          /\ tx' = [tx EXCEPT ![page.build][page.next] =
                        IF tx[page.build][page.next] = "unsent" THEN "sent" ELSE tx[page.build][page.next]]
      <4>1. page.at = "signing" /\ page.next <= Len(builds[page.build].path)
        BY <2>7 DEF WalletSends
      <4>2. page.build \in Bs /\ page \in Sheet
        BY <2>1, <4>1 DEF RecordsInv, Shapes
      <4>3. page.next \in Places
        BY <4>2 DEF Sheet
      <4>4. page.next \in 1..Len(builds[page.build].path)
        BY <2>4, <4>1, <4>2, <4>3 DEF Places
      <4>5. QED
        BY <2>7, <4>2, <4>4 DEF WalletSends
    <3>2. page.next \in DOMAIN tx[page.build]
      BY <2>4, <3>1
    <3>3. CASE tx[page.build][page.next] = "unsent"
      BY <2>3, <3>1, <3>2, <3>3
    <3>4. CASE tx[page.build][page.next] # "unsent"
      <4>1. tx \in Seq(Seq(TxStates)) /\ Bs = DOMAIN tx
        BY <2>1 DEF RecordsInv, Shapes, Bs
      <4>2. CASE b = page.build /\ page.next = 1
        <5>1. tx'[b][1] = tx[b][1]
          BY <3>1, <3>2, <3>4, <4>1, <4>2
        <5>2. QED
          BY <2>1, <5>1
      <4>3. CASE b # page.build \/ page.next # 1
        BY <2>1, <3>1, <3>2, <4>3, TheFirstOfAnother DEF RecordsInv
      <4>4. QED
        BY <4>2, <4>3
    <3>5. QED
      BY <3>3, <3>4
  <2>8. ASSUME NEW r \in DOMAIN request, SendTheNext(r) \/ SendThrows(r) PROVE tx'[b][1] # "landed"
    <3>1. /\ request[r].build \in Bs /\ request[r].next \in 1..Len(builds[request[r].build].path)
      BY <2>1, <2>8 DEF SendTheNext, SendThrows, RecordsInv, Shapes
    <3>2. tx' = tx \/ tx' = [tx EXCEPT ![request[r].build][request[r].next] = "sent"]
      BY <2>8 DEF SendTheNext, SendThrows
    <3>3. request[r].next \in DOMAIN tx[request[r].build]
      BY <2>4, <3>1
    <3>4. QED
      BY <2>2, <2>3, <3>1, <3>2, <3>3
  <2>9. CASE UNCHANGED tx
    BY <2>2, <2>9
  <2>10. \/ UNCHANGED tx \/ BuildOpen \/ BuildOpenTooLate \/ BuildClose \/ WalletSends
         \/ \E c \in Bs : \E n \in DOMAIN builds[c].path : Land(c, n)
         \/ \E r \in DOMAIN request : SendTheNext(r) \/ SendThrows(r)
    BY <2>1 DEF Next, Browse, Serve, Abandon, Watch, Tick, SayNo, SignAgain, PostTheSigned,
         PostTheSignatures, LoseTheAnswer, Poll, RecordIt, MarkItFailed, Die, ReadTheHeight,
         AbandonOne, StopAbandoning, ReadTheOpenRows, ReadOnePosition, CloseTheRow, StopWatching,
         OthersAct, chainVars, vars
  <2>11. QED
    BY <2>5, <2>6, <2>7, <2>8, <2>9, <2>10
<1>2. Spec => [][Unbegun]_vars
  BY <1>1, RecordsInv_Init, RecordsInv_Next, PTL DEF Spec
<1>3. QED
  BY <1>2 DEF AbandonedNeverBegins
==============================================================================
