# Accrue, specified

Accrue lets the holder of a tokenised stock borrow USDC against it, buys a
yield token with the loan and keeps the loan at a level the holder chose.
This directory holds TLA+ modules of that system, the TLC configurations that
check them on small instances, and proofs of their main properties for every
value of the constants, checked by TLAPS.  `PROJECT.json` ties every definition
to the lines it models, every run to its properties, every property to a slip
in the code that would break it, and lists the hazards the properties are for.

## The system

| part | state it keeps | operations | talks to |
|---|---|---|---|
| **Program** `src/programs/accrue` | per position a `Position` account (state, strategy, timestamps, four USDC totals), three token accounts and an obligation at the lending market; one `Config` account (limits, enabled tokens, pause flags, `sunset`) | 13 instructions on a position, 4 on the config (`lib.rs`) | Kamino Lend, the Scope oracle, the Jupiter router, all called or read inside one transaction |
| **Keeper** `src/apps/keeper` | in memory only: the last round's readings | survey every open position, decide, build, send, record, wait for the interval or a price | RPC node, router API, the `keeper_runs` table |
| **Web app** `src/apps/web` | rows in Postgres: positions, builds, guard events, snapshots, sessions, rate limits | build and submit transactions, crons, read models | RPC node, router API, the owner's wallet |
| **Rescue page** `src/apps/rescue` | in the page only: the network, the node, the cards, what is remembered of a node | finds the positions, then builds, signs and sends rescue, repay, rescue and close, without the web app | RPC node, the owner's wallet |
| **Packages** `src/packages` | the RPC limiter's queue and times | the guard's arithmetic and the sizes of every borrow in TypeScript (`core`), a rate-limited client, instruction builders and decoders (`solana`), tables (`db`) | used by the above |
| **Scripts, devnet programs** | deployment state, test stand-ins | | not part of the running system |

What makes each of them right, and what makes it hard:

* **Program.**  A transaction is atomic, so nothing interleaves inside an
  instruction; everything interleaves between two.  Owner, strangers (protect,
  grow and leave are open to anyone), admin, guardian, liquidators, interest
  and prices move the same position in any order.  A position must never be
  said to be closed while it owes or holds anything, an owner must always get
  out, a stranger must never gain more than the capped bounty, the program may
  not raise the risk past the owner's target, and the totals on the account
  must explain the debt, because the fee is taken on them.
* **Keeper.**  It acts on what it read some seconds ago, in a loop that several
  failures can cut short.  A position that needs the guard must get it.
* **Web app.**  Rows follow a chain that moves without it: a submit that fails
  half way, a cron that runs at the same time, a listing read in pages.  What
  it tells an owner decides whether they sign again.
* **Rescue page.**  It is the way out when everything else is gone: up to four
  transactions, each of which may fail after the ones before it landed, beside
  keepers and markets that move the same position.  Pressing again must finish.
* **Packages.**  An amount is decided by the app or the keeper at one moment
  and judged by the program at another, with other roundings.  Every read and
  every send of a process stands in one queue.

The full list of hazards, each at its line, is `hazards` in `PROJECT.json`.

## Modules

| module | what it is |
|---|---|
| `GuardMath` | the arithmetic: conversions and their roundings (`scope.rs`), repay, borrow and bounty sizes, fee and the conditions to leave (`guard.rs`), loan to value (`kamino/obligation.rs`), what rescue may take (`rescue.rs`), the strategy's bounds (`state/position.rs`) |
| `AccruePosition` | one position with its obligation, token accounts, the config and the market around it; one action per instruction |
| `PositionLifecycle` | what a position promises with the amounts left out; `AccruePosition` implements it |
| `Keeper` | the keeper process against a chain that moves between any two of its awaits: its calls, its decisions against the program's, its liveness |
| `Sizing` | what the app and the keeper ask for at one price against what the program accepts at another; uses `GuardMath` for the program's side and for the arithmetic both sides share |
| `PositionRecords` | the web server's rows, the owner's page and the chain: build, sign, submit, poll, two crons |
| `GuardEvents` | the log of guard actions and the catch-ups that fill it |
| `RpcLimiter` | the queue, rate and deadline of every call to the chain |
| `RescuePage` | the rescue page in front of a position, which is `PositionLifecycle`'s; how a transaction's format is chosen (`compile.ts`) |
| `MCAccruePosition`, `MCKeeper`, `MCSizing`, `MCPositionRecords`, `MCGuardEvents`, `MCRpcLimiter`, `MCRescuePage` | values of the constants for TLC, one `.cfg` per run |
| `GuardMathProofs`, `AccruePositionProofs`, `KeeperProofs`, `SizingProofs`, `RpcLimiterProofs`, `RescuePageProofs`, `GuardEventsProofs`, `PositionRecordsProofs` | theorems and proofs |

### How AccruePosition corresponds to the code

`pos` is the `Position` account (`state` is `"None"` while it does not exist),
`config` the part of `Config` that admin instructions change here, `obl` the
obligation (deposited stock and USDC debt, rounded up as every handler reads
it), `held` the position's three token accounts, `market` the prices, the age
of the oracle's last price and the deleverage signals, `now` the clock, `paid`
the USDC that went to the treasury and to callers of protect.  `tally` is
history: interest and debt repaid by liquidators, which no account records.

Every instruction of `lib.rs` that touches a position is an action with the
conditions of its handler as conjuncts: a failed `require!` aborts the
transaction, so it is the action not being enabled.  `leave` is two actions,
the branch that hands back part way and the one that closes.  A call that the
code makes to the lending market succeeds only if the market allows it
(`MarketAllows`), and a swap returns whatever the router likes as long as the
minimum the code demands is met (`Swaps`).  Callers are `"owner"` or
`"anyone"`; an owner names the minimum of a swap, everyone else gets the
oracle's.

The definitions introduced as a *slip* are not part of the specification: each
is a way the code could plausibly have gone wrong and breaks one property.

### How Keeper corresponds to the code

`phase` is the `await` at which `main` stands: reading the config, listing the
open positions, reading the market and then the destination token of one
position after the other (`survey.ts`), acting on them in the order of their
loan to value (`loop.ts`), awaiting the status of a call (`transaction.ts`),
resting with prices to watch (`"watching"`) or without, or stopped.  `round`
holds what was read, each piece from its own moment: the limits, the intervals
as listed, the loan to value and flag at the refresh, the balance after it.
`decideWhatToDo` is `decide.ts` on these readings.  `flights` are the calls
sent: one the keeper gave up on stays there and may still be run.

`chain` is what a decision depends on of each position in `AccruePosition`: its
state (`"Away"` is absent, awaiting its swap or closed), loan to value, whether
anything is left to sell, the reason to leave, and what is left of the two
intervals.  Prices, the owner, the admin, the market and other keepers move it
at any moment; a call takes effect only if `ProgramAccepts` it then.  `faults`
counts everything that goes wrong: a read, a build, a send, a confirmation, a
record, the oracle.  A single position's failure costs that position its turn
or, outside its catch, ends the round; a price that cannot be read while
resting ends the process.

Three properties say what the loop is made of.  `CallsAreAccountedFor`: a call is
awaited before the next is sent, so what the chain may still run besides it was
given up on.  `EverybodySeenIsDecidedOn`: a reading is used once and forgotten
(`Done`), so whoever still has one at the end of a round was passed over.
`DecidesAsTheProgramJudges` (in `keeper_guard`, where positions are past their
guard level and past the liquidation line, one with its interval running) sets the decision beside `ProgramAccepts` where only
the clock moved since the reading; the two intervals, read from the account, and
`leave` from beyond a level (`decide.ts` answers for those before it looks at the
flags) are where the keeper waits and the program would not refuse.

### How Sizing corresponds to the code

A transaction on its way (`built`) carries the amount it was built for and the
price it was sized at: the live price for an open and a top-up
(`theLivePriceOf`, which falls back to the reserve's), the price after a
simulated refresh for the keeper, the reserve's for a protect the owner asks
for.  `Land` is the program at that moment's price: `OpenFits`, `TopUpFits`,
`ProtectFits` and `GrowFits` are the handlers' conditions on amounts, and a
refusal leaves everything as it was.  `reserve` is the price of the reserve's
last refresh and `position.value` what the market last wrote for the position;
anybody may refresh the one with or without the other.

### How PositionRecords corresponds to the code

`builds[b]` is a row of `transaction_builds` with the transactions the wallet
is shown, `tx[b][n]` how far the n-th has come on the chain, `rows[b]` the
status of the `positions` row an open left, `position` the account itself.
`request` are the POSTs under way in `positions/submit`, each between two
awaits; `page` is the sheet and what it says; `cron` and `watch` are the two
crons, between reading their list and visiting one row of it.  Every call to
the database, the node or the server may fail (`Wrong`), before or after it took
effect, and the code's silent catches (`record.ts`) are disjuncts of the
actions.  A wallet either signs, and the server sends, or signs and sends
itself (`page.sends`); what the server answers to the signatures of the second
kind the page does not look at, so a refusal (no session, too many calls, no such
build) is no error there.  `OthersAct` is what others make of the account without
a build of the app: anyone's `leave` and the owner's `rescue` hand it back or stop
in Closing, the rescue page deletes what was handed back.  `wasClosed` is history:
the builds since whose making the account was Closed.

### How GuardEvents corresponds to the code

`chain` is the program's transactions with their slots, several to a slot and
several instructions to a transaction, some called by other programs.
`reader[r]` is one run of `catchUpOnGuardEvents`: its watermark, the page it
listed, what is left to read of it.  The table is `rows`, keyed by signature.
`dropped` is history: what a run had to read and gave up on.

### How RpcLimiter corresponds to the code

`queue` is the chain of promises in `limiter.ts`, `sent[first..]` its
`startedAt`, `wake` the timer its head sleeps on; `sent` before `first` is
history.  A call is made with a deadline beside its place in the queue
(`client.ts`); giving up removes neither the place nor the send that follows.

### How RescuePage corresponds to the code

The position is the three variables of `PositionLifecycle`, whose steps are what
others do to it (`OthersMove`); that `AccruePosition` does nothing else is proved
(`ImplementsItsLifecycle`), and `Can` and `Does` are its `Rescue`, `Repay` and
`ClosePosition` seen through the same mapping.  `card` are the closures of
`rescue` in `main.ts`, one per card: what a card is at is the `await` it stands
at, `via` the node it began with, `right` whether the plan was made for the
network the position is on.  The network is a variable of the page and is read
again before each step, as in the code; a list that was overtaken still adds its
cards, and a card taken off the page goes on.  `remembers` is the module variable
of `compile.ts`.  A transaction is on its way until it lands, is refused or
expires; given up on, it becomes one of `strays`.

### Abstractions

* Amounts are naturals without a width.  The program computes in checked
  128-bit arithmetic and fails on overflow, so a wrapped number never occurs.
* The market keeps the debt as a fraction; here it is the integer the handlers
  round it up to.  The cToken exchange rate is one and the origination fee zero.
* The price of USDC is a constant of an instance, and so are the limits of the
  config other than the fee.  `One` is the scale of a dollar value.
* The swap of an open or a top-up spends all the borrowed USDC: `EndsWithAtLeast`
  compares with the ledger of before the borrow, so any of it left over is
  refused.  Other swaps may leave input over.
* The owner's wallet is unbounded: an owner who cannot pay a shortfall does not
  call `unwind`.
* Nobody sends tokens to the position's accounts unasked.
* Checks that an account passed to an instruction is the right one
  (`checks.rs`, the route's deny list in `invariants.rs`) and the farms are left
  out: the actions take the right accounts.
* In `Keeper` loan to values are a few levels, one on each side of every line,
  the owner's strategy is fixed, and the keeper's clock is the chain's.  Guard
  calls land at the target, as `GuardSettles` of `AccruePosition` has it.
* After a liquidation took everything the market closes the obligation; then
  every instruction that refreshes it fails, and `rescue` and `close_position`
  remain.

* In `Sizing` the strategy is the default one with grow switched on, the prices
  of USDC and of the yield token stand still, the borrow factor is 100 and USDC
  is worth at most a dollar: the app divides neither an open nor a top-up by the
  factor and takes an open's USDC to be a dollar, so with other values a margin
  of one percent does not cover what the properties say it covers.  USDC left
  over by a swap is not kept.  The program accepts the default strategy of every
  market that lends 35 percent or more (`SizesAreTyped`); of those that lend less
  it refuses it below 25, from 27 to 29 and at 34 percent, where rounding the
  target leaves less than the five percent it wants on either side of the guard
  level.  An open is sized with the target in whole percents, which it always is,
  to keep TLC's numbers within 32 bits.
* In `PositionRecords` one pair of one owner has one account and one sheet; the
  builds of other owner actions than open and close leave no row and are left
  out, and what their landing makes of the account's state is `OthersAct`; an old
  quote is refused like an old blockhash.  `recordTheSignatures` and `markItOpen`
  are one step of `RecordIt`; a process that ends between the two is a disjunct
  of `Die`.
* In `Keeper` a debtor's market that cannot be read ends the round only if its
  record fails as well (`survey.ts:62`), which is two faults; where nothing is
  owed the market refuses the refresh anyway, and it is one.
* In `GuardEvents` a row is its kind and its position; a slot is a block.
* In `RescuePage` a wallet owns one position, sizes are two, and the owner's
  wallet holds the USDC that is owed: without it the repay is refused each time,
  as the card says.  `WalletReadsVersionOne` is true in the run, for the reason given under the
  disagreements.
* In `RpcLimiter` the clock never goes back, the timers fire when they are due
  and what they wake runs before the next tick.

## Runs

The runs of `AccruePosition`, `Keeper` and `GuardEvents` and `Sizing` check for
deadlock; those of `PositionRecords` and `RpcLimiter` do not, since there
everything may be said and done; an owner on the rescue page may always look again.  Those of `AccruePosition` assume no
fairness: the program only moves when it is called, so it promises no progress
of its own.  Those of `Keeper` assume that the process goes on
(`WF(KeeperGoesOn)`: its loop never waits for anybody but the RPC node, and a
call is given up on after a minute), that the chain runs or refuses a call that
is waited for, that the clock and the oracle go on, and that a process that
ended is started again, which the repository leaves to the host.  The number of
faults is bounded, so the liveness properties say: once things stop failing.

| run | what varies | checks |
|---|---|---|
| `guard` | two strategies, a debt weighted by 1.25, a USDC of two units worth three, stock price 13000, 8500, 20000 for a loan of 34000 against ten units, two destination prices, fills at the floor and at the fair price, up to two guard steps of each kind | `TypeOK`, `AnyFillReachesTheTarget`, `GuardSettles`, `BountyIsEarned` |
| `exit` | a fall of prices past the liquidation line, a crossed borrow limit and deleveraging, liquidation of half or all of the debt at any moment, fills with and without unspent input, a top-up, growth, withdrawals and repayments between any two steps | `HandedBackIsEmpty`, `LedgerBalances`, `AwaitingSwapHasItsCash`, `RescueIsNeverRefused`, `RescueTakesAllItMay`, `RiskOnlyRisesToTheTarget`, `KeepsItsLifecycle` |
| `admin` | six configurations reached by pausing, delisting, repricing and retiring, while positions make a profit, are topped up, are handed back in part and repaid by more and by less than what is left owed; no liquidation | `OwedIsNeverOverstated`, `FeeIsOnProfitAtTheAgreedRate`, `SunsetIsForever` |
| `keeper_guard` | two positions that cross their guard level and the liquidation line, one without a route; another keeper; an owner who closes, rescues and tops up; two faults | `CallsAreAccountedFor`, `DecidesAsTheProgramJudges`, `EverybodySeenIsDecidedOn`, `GuardReachesEveryone` |
| `keeper_turns` | two positions with room to grow or flagged, debts cleared, growing paused, the program retires, one fault | `GrowthReachesEveryone`, `LeaveReachesEveryone` |
| `events` | two catch-ups, blocks of one and two transactions, failed, compound and called by another program, a page shorter than the chain, one read that finds nothing or breaks off | `RowsTellTheTruth`, `NothingIsOvertakenUnread`, `EveryActionIsStoredOrOvertaken` |
| `records` | an open of two transactions and a close of one or two, or two opens; two submits at once, positions that others hand back, blockhashes that expire, both crons at any moment, one call that goes wrong | `OpenRowsWentOut`, `ClosedRowsWereHandedBack`, `FailedRowsLackATransaction`, `OpenedIsRecorded`, `AbandonedNeverBegins`, `BuildingEnds`, `ClosedAccountsCloseTheirRows` |
| `limiter` | calls made at any moment, answered, or given up on in the queue and while they run | `NeverAboveTheRate`, `InTheOrderTheyCame`, `NobodyIsKeptWaiting`, `EveryCallEnds` |
| `sizing` | three transactions on one position, three prices, small and large amounts, fair and poor fills, caches refreshed together or apart | `SizingTypeOK`, `OpensTheMarginCovers`, `TopUpsTheMarginCovers`, `GuardCallsFit` |
| `rescue_page` | any state of the position, two cards, a list on another network, another node, a step of somebody else, a call that goes wrong or a transaction that expires or lands late | `SaysWhatHappened`, `AllComesHome` |
| `nothing_sent`, `opens_fit` | one disagreement each, see below | one property each, violated |

Bounds: `MaxTime`, `MaxStock`, `MaxBorrowed`, `MaxInterest` and `MaxGuardCount`
cap the clock, the deposits, the loans, the interest and the guard steps of one
position.  A loan sits at or near the 50% target of its stock, so one price move
crosses the guard level, the grow level, the market's limit or the liquidation
line, and every rounding that matters occurs on it: in `exit` seven at 119
dollars or 45 carry a loan of 250 that a top-up doubles or growth
increases, in `admin` five at 100 dollars or 150 carry 250, and one repayment is
below what a partial leave there leaves owed; `guard` uses a weight and prices
with which the divisions leave a remainder, and a collateral of which a basis
point is more than the conversions round away, as it is of any position above a
dollar on the chain: below that `AnyFillReachesTheTarget` would say nothing.
`ClosePosition` followed by `OpenPosition` lets a second life of
the account follow the first in every run.

In `Keeper` two positions are enough for one to stand in the other's way, and
the one without a route fails in every round.  One fault ends a round at any of
its steps or the process at rest; two end it after a call that landed.
`MayHappen` and `AdminMay` name what else moves the chain in a run; the position
without a route meets only what puts it in the other's way.

In `GuardEvents` two runs are enough for one to store what is newer while the
other still has the older to read, a page one shorter than the chain for a
signature to leave it.  In `PositionRecords` two builds let a second life of
the account follow the first and two requests the same build be submitted
twice; what is built at one height has its blockhash past at the next, so each
await can lie on either side of its end.  The opens of `records` take two
transactions, the case in which one can land without the other; `nothing_sent`
also has those of one and of three.  In `records` others hand back what is held
(`OthersMake`); what else they may make of the account the proofs cover, which
hold for every choice of paths, bounds and `OthersMake`.  In `RpcLimiter` there are more callers than two windows take.  In
`Sizing` one step of the price is exactly the percent the app allows for,
another makes what was opened at the one price due for protect and what was
opened at the other due for grow.  The large amount is worth a whole number of
dollars at each price, so that the edge of the margin is met, and enough for a
basis point of it to be more than the conversions round away; the small one is
refused at the lowest price (`opens_fit`).  An open, a move of the price and two
more transactions reach every handler from every other.

In `RescuePage` two cards and three lists are enough for an old card to meet a
new one at the same position; one choice takes the owner to another network or
node, one move lets others interfere at any of the steps, and one fault is a
probe, a send or a confirmation that fails.

The fairness of `RescuePage` is that the page goes on with what it began, the
chain takes or drops what it was sent, and an owner who still has a position
chooses its network and presses on: the page does nothing by itself.

The fairness of `PositionRecords` is that blocks go by, the crons come round
and the server answers; neither the owner nor the page has to go on, and
nothing says that a transaction ever lands.  In `GuardEvents` every catch-up
that began goes on and another begins.  In `RpcLimiter` the timers fire; the
node need not answer.

### Where code and text disagree

Two runs show one each:

* `nothing_sent`: the page says that nothing was sent after any failure, also
  when the first of two transactions, or all of them, were.
* `opens_fit`: the check before the borrow counts whole dollars, so it refuses
  small opens that are under their target.  With a minimum of ten dollars, as
  the example environment has it, a dollar is a tenth of a position.
  From a hundred dollars on the app's margin of a percent hides the difference
  as long as the price has not fallen (`AHundredDollarsAreCovered`).  After a
  fall the same percent has to cover both: an open is safe while the stock's
  whole dollars, not its value, are within the margin (`OpensTheMarginCovers`).

Others were met while modelling:

* A test (`decide.test.ts:212`) says that every position is handed back once the
  program retires.  One past its guard level with nothing left to sell is
  answered with a wait before the sunset is looked at (`decide.ts:69`), in every
  round.  `LeaveReachesEveryone` is about positions between their levels.
* The rescue page advises to try again (`copy.ts:18`).  A probe that got no answer
  is taken for a yes and never repeated (`compile.ts:84`); if the node takes only
  small transactions, every later try is refused for its size until the page is
  reloaded.  `AllComesHome` is about an owner who is spared that.
* After any failure of a settling step a card says that the debt read before the
  first step is still owed (`main.ts:182`), also when it was repaid by then;
  `SaysWhatHappened` therefore says of such a card only that the tokens are back.
* A comment on `walletTakesVersionOne` (`compile.ts:53`) says that a wallet that
  does not read version one cannot be handed one.  The rescue page never says
  what its wallet reads (`chain.ts:478`), so it is.
* A comment on `record_repay` (`state/position.rs:159`) says that the number on
  the account never says more is owed than is.  A liquidation after a partial
  leave lowers the debt and not the number.  `OwedIsNeverOverstated` holds only
  while the market liquidates nothing.
* `copy/about.ts:33` says the fee is on profit.  Debt that a liquidator paid with
  seized stock is not a repayment (`unwind.rs:345`), so a position without profit
  pays.  `FeeIsOnProfitAtTheAgreedRate` holds under the same condition.
* The repository's `README.md:46` knows three places tokens go to; the
  performance fee goes to a fourth, the treasury (`unwind.rs:353`).
* `leave.rs:357` says that after a partial leave `repay` and `close_position`
  finish.  The stock is still deposited, so `rescue` or `unwind` comes between.
* `copy/banners.ts:10` says that the guard acts at once on a position the market
  could seize.  The program would let it; the keeper waits for the interval all
  the same (`decide.ts:78`).
* The comment on the catch-up (`guardEvents.ts:132`) says that it reads every
  guard action since the newest stored.  It reads one page of a hundred, passes
  over what cannot be read at that moment, and never sees what another program
  calls; a newer row then puts them below the watermark.
* `guardEvents.ts:23` says that the row names a real position.  In a transaction
  of several instructions it may name an account of another of them.
* A build whose record could not be written, or that took longer than its
  deadline, leaves a row that stays 'building' for good: the cron finds rows
  through their builds.  `BuildingEnds` is about those that were kept.
* Submitting a build a second time after it landed fails and marks its open row
  failed.  `FailedRowsLackATransaction` and `OpenedIsRecorded` allow for it: the
  page only does so after a call went wrong.
* A wallet that sends by itself posts its signatures, and the page does not look
  at the answer (`session.tsx:341`).  When the route refuses it, because the
  session ended or the limit is used up (`submit/route.ts:49`), the sheet says
  that the position is open, its row stays 'building' and is then abandoned.
  `OpenedIsRecorded` is about signatures that were kept.
* An account deleted before the snapshot cron finds it Closed leaves its row
  open for good (`position-snapshot/route.ts:50`).
  `ClosedAccountsCloseTheirRows` is about accounts that stay Closed.
* The second transaction of a build is sent before the first has landed, and its
  preflight then refuses it.
* The value of a position is brought up to date with the price of a reserve that
  may have been refreshed after it (`livePrice.ts:25`): it can come out too high,
  and the program then refuses the top-up.  `TopUpsTheMarginCovers` says so.

## What the properties leave room for

Some of them are less round than one would like, most because the code rounds:

* `AnyFillReachesTheTarget` is about fills that sell all that was asked of the
  router; one that leaves some of it may miss the target, and is refused then.
  It asks that the conversions round away less than a
  basis point of the collateral (`RoundingIsBelowABasisPoint`, at most two raw
  USDC and two more conversions in all) and that the router pays something.  A
  sale of dust may legally bring nothing, and repays nothing then.
* `AbandonedNeverBegins` is about a build's first transaction: without it none of
  the later ones finds the account it needs, so no position comes of it.
* `GuardSettles` leaves `RoomLeftByRounding`: protect repays a whole raw USDC, so
  a position whose grow level lies right under its target may end with room for
  one more raw USDC, which grow may borrow.  No bounty is paid on that.
* `RescueTakesAllItMay` counts `OneMore`: where the worth of the stock is not a
  whole number, a few raw units are worth nothing to the market, and releasing
  them one by one is allowed.
* `GuardCallsFit` has the same two conditions as the first.

## Proofs

`GuardMathProofs` proves what the roundings must achieve, for all naturals: what
protect repays reaches the target and what grow borrows stays within it
(`RepayReachesTheTarget`, `BorrowStaysWithinTheTarget`), nobody repays more than
is owed (`RepayIsOwed`), a bounty is a share of the repayment
(`BountyIsAShare`), a sale buffered for the slippage covers the need but for four
conversions (`SaleCoversTheNeed`) and a repayment short by so much misses the
target by no more than it weighs (`ShortRepayNearlyReaches`), neither size leaves
more than a rounding of room (`RepayLeavesNoRoom`, `BorrowLeavesNoRoom`), and
rescue takes what the market lets out and all of it (`ReleaseIsAllowed`,
`ReleaseIsAllThereIs`).  They rest on a few facts about division
(`QuotientBound`, `QuotientReaches`, `RoundingUpIsClose`, `Cancellation`) proved
from the definition of `\div`.

`AccruePositionProofs` proves `Spec => []TypeOK`, one lemma per handler.  It
uses the assumptions on the constants (`LimitsAssumption`, `ChoicesAssumption`,
`MarketAssumption`, `BoundsAssumption`), which are the bounds
`ConfigLimits::validate` enforces and the types of the inputs.  The rest follows
from one inductive invariant,

    Safe == TypeOK /\ HandedBackIsEmpty /\ AwaitingSwapHasItsCash /\ LedgerBalances

None of its parts is inductive alone.  That `leave` in part and `unwind` leave
no stock behind needs `held.stock = 0` before them; that a deleted position
leaves nothing needs the closed obligation to be empty; the ledger needs every
amount to be a natural so that saturating subtractions are exact.  From `Safe`
follow `ClosedIsEmpty`, `LedgerIsExact`, `SwapIsNeverStranded`,
`RescueIsAlwaysAllowed` (with `ReleaseIsAllowed`), `SunsetIsFinal` and
`ImplementsItsLifecycle`.  `OwedIsExact` and `FeeIsFair` add the assumption that
the market liquidates nothing, and need it (see the disagreements above).

The guard comes last, for every price, unit, weight and fill: `RiskStopsAtTheTarget`, `CallersEarnTheirBounty`,
`RescueLeavesNothingItCouldTake`, `FillsWithinTheSlippageLand` and
`GuardStepsSettle`.  Besides the types it needs `StrategyIsSound`, that the
strategy on the account is still one `open_position` and `set_strategy` would
accept: only so does a position at its guard level lie past its target, and its
grow level under it.  `RiskStopsAtTheTarget` judges every instruction that borrows
or lets stock go, an open from nothing included: it ends within the target, and a
debt whose stock is worth nothing counts as beyond any (`IsWithin`), although the
market reads its loan to value as zero.  Only a rescue that stays in Closing goes
up to the market's limit.  Each theorem then is one of `GuardMathProofs` brought to
the steps of the handlers.

`KeeperProofs` proves `KeeperTypes`, `CallsStayAccountedFor`,
`EverybodyGetsADecision` and `DecidesAsTheProgram`, for any positions, strategies,
levels, intervals and number of failures, from the assumption that a strategy's
levels lie in order (`KeeperAssumption`, what `set_strategy` accepts).  The
inductive invariant is

    KeeperInv == Types /\ ReadingsAreOfDebtors /\ DueAreSeen
                 /\ CallsAreAccountedFor /\ IsFiniteSet(flights)

A count of what was given up on only carries over if the calls are finitely many
and each failure that gives one up counts (`GivingUpLeavesOne`); that the calls in
time are the awaited one needs both halves of `CallsAreAccountedFor`, or a call
sent in one round would be run in the next.  That nobody is passed over is not a
fact about `todo` but about what was read: `DueAreSeen` ties the two together
through the deciding, and `ReadingsAreOfDebtors` says that a reading is either of
somebody who owes or none.  It also gives the decision the loan above zero that
`grow` asks for and `decide.ts` does not.  The decision itself is taken apart in
`DecisionByCases`.

`SizingProofs` proves all four properties of `sizing`: `SizesAreTyped`,
`OpensAreCovered`, `TopUpsAreCovered` and `GuardCallsAreTaken`.  The inductive
part is `BuiltAsSized`: whatever moves while a transaction is on its way, only
prices and the market's record of the position's value do, so its size is still
what the app or the keeper would work out from the debt and the holdings there
are.  From there each theorem compares two formulas, the app's and the
program's.  Their hypotheses are stated with them: a borrow factor of 100, for
opens a USDC worth at most a dollar, and, where the default strategy matters, a
market that lends 35 percent or more and liquidates no earlier than it lends.

`RpcLimiterProofs` proves, for every rate, window, deadline and set of callers,
`TypesHold`, `RateIsKept`, `OrderIsKept` and `NobodyWaitsTooLong`.  The rate needs
an invariant about what the limiter has forgotten: starts are in the order of
their times and none is in the future, everything no longer remembered is a
window old, and no more than `PerWindow` are remembered.  The order needs that
the callers that wait are in the order they came, none of them in the future or
earlier than one that went, and that whoever has a place has asked.  The wait
needs three more: the head sleeps until the start a window's worth of starts
back is a window old (`SleepsForTheOldest`), only the rate holds anyone up
(`HeldUpByTheRate`), and the bound itself counted from any moment between the
call and its start (`TurnComesInTime`); as stated, from the call alone, it does
not carry over from one start to the next.

`RescuePageProofs` proves `PageTypes` and `CardsSayWhatHappened`.  What a card
says is not inductive: it needs that a card is within its plan, that a
transaction that landed has left its mark on the position for good (`Good`), and
that nothing in `PositionLifecycle` takes a handed back position up again
(`Onward`), so the theorem holds in front of every program that implements it.

`GuardEventsProofs` proves `EventTypes`, `RowsAreHonest` and `NothingOvertaken`
for any number of catch-ups, any page and any blocks.  The invariant is
`ChainInOrder` (slots grow along the chain), `RowsAreMade` (whoever stored a row,
it is what its transaction makes), `ReadersAreBehind` (the watermark a run took is
no newer than the newest row), `NothingIsSkipped` (a run has everything past its
watermark and below what it still has to read, but for what is stored or was
given up on) and `NothingIsPassed`, the property itself said without the greatest
slot.  `NothingIsSkipped` is what makes two runs at once safe: neither may trust
the other to have read what lies below its rows.

`PositionRecordsProofs` proves `RecordTypes`, `OpenMeansSent`,
`ClosedMeansHandedBack`, `FailedMeansUnsent`, `OpenIsRecorded` and
`AbandonedStaysUnbegun`, for builds of any length and any number of requests.
Whoever counts a build's transactions (the page, a request, its row, the cron)
counts what went out (`SentInOrder`), only builds to open have rows that move
(`OpensHaveRows`), what a cron gave up on is past its blockhash
(`GivenUpIsPast`), the account of what is called closed was Closed since its build,
whoever closed it (`ClosedIsHandedBack`), a wallet
that sends by itself has nothing sent for it (`SentHereOrThere`), and as long as
nothing went wrong one request at most is under way and the page waits for it,
and a row says open once its signatures are kept (`UnlessAnyWentWrong`).

TLC checked each of these invariants before it was proved.  Where a proof needs a
least or greatest element (the newest row, the first unsent transaction) it takes
it from the well-foundedness of the naturals (`NatLessThanWellFounded`, `WFMin`),
not from induction.

The types of `Keeper`, `GuardEvents`, `PositionRecords`, `RpcLimiter` and
`RescuePage` are proved and not checked by a run.

Every invariant and every action property of the runs that hold is proved.  Only
model-checked is liveness (`GuardReachesEveryone`, `GrowthReachesEveryone`,
`LeaveReachesEveryone`, `EveryActionIsStoredOrOvertaken`, `BuildingEnds`,
`ClosedAccountsCloseTheirRows`, `EveryCallEnds`, `AllComesHome`): fairness is
outside what the prover handles.  Of the keeper's, the proofs give what a step and
a round do; that rounds go on and end in a settled position is left to TLC.

## Not modelled

* Sessions and rate limits: a nonce in one row and a counter per window, each
  changed by one statement of the database.
* Of the rescue page the addresses it derives and how a wallet registers.
* The user interface but for the sheets that sign, the tables of `db`, the byte
  layouts, generated instruction builders and address derivations of `solana`
  keep no state of their own that could go wrong between two steps.  They are
  most of the repository's lines of TypeScript.
* Scripts, fixtures and the devnet stand-ins are not part of the running system.

## Plan

1. `GuardView`: the part of a position that `Keeper` sees, implemented by
   `AccruePosition` under a mapping of loan to values to levels and used by
   `Keeper` for its chain, so that the two models are one.
2. A borrow factor other than 100 in `Sizing`, for opens and top-ups: how much of
   the margin it uses up.
