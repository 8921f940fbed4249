# Verification of hyperlend-liquidator

TLA+ models of the liquidation bot of this repository and of its contract, the TLC configurations
that check them on small instances, and theorems about them that the TLA+ proof system (TLAPS)
checks for every value of the constants. Line numbers refer to `src/`; "executor" without a path is
`src/bot/executor.py`.

## 1. The system

The bot watches the borrowers of a lending pool on HyperEVM, and when a position falls under water
sends a transaction that liquidates it through its own flash-loan contract. One process runs a
single-threaded loop; helper threads post transactions, fetch quotes and follow prices; a cron
supervisor restarts the process; an operator may run `python3 -m bot.executor reset` next to it.

| component | state | operations | what makes it correct | module |
|---|---|---|---|---|
| executor loop, journal, kill-switch (`executor`) | image `st`: day, gas spent, consecutive reverts, journal `sent`; the state file; probe number | day roll, receipt settling, guard, dedup, fire (raw, cast, probe), save, exit, reset | no second shot while one may be on the wire; each verdict booked once; both counters exact; no shot past the kill-switch | `Journal`, `Executor` |
| nonce, signing, broadcast (`executor`, `analysis/rpc.py`) | `_nonce_cache`; replies of a volley; connections | prewarm, pending nonce, sign, post to N nodes, verdict | the three outcomes accepted / refused / unknown mean what the caller takes them to mean; no nonce used twice in the window; no gap signed | `Delivery`, `Sender` |
| hot set and rolling sweep (`executor`) | cursor, hot set, tick; `HOTSET_FILE` | advance the cursor, read, update the hot set | nobody in the book is jumped over; who is under water is found again | `Watch` |
| discovery and book (`analysis/monitor.py`) | borrowers, checkpoint; `book.json` | read Borrow logs, merge, save | no Borrow event lost but those it could not read | `Watch` |
| pre-arm cache (`executor` 1330-1439) | quotes per borrower, a background thread | arm, use, drop, expire | a shot from the cache is sized on a position read after the last reactive shot at it; who stays on the edge is armed | `Probes` |
| speculative probes (`bot/spec.py`, `executor` 1504-1574) | windows, probe counts; gateway and chain caches | follow prices, plan a push, open a window, probe, close | a probe only where one push sinks the position, up to a margin; a cap per window; a waiting target is served; a window closes | `Probes`, `PriceWatch` |
| sizing and exit ladder (`analysis/aave.py`, `executor` 426-584) | the chunk in hand | size a liquidation, cut it, gate it | the Pool does what was planned, also after a drift; the profit is real; chunks come down; the search ends | `Sizing`, `Pricing` |
| exit routing (`bot/routers.py`, `bot/liqd.py`) | the best quote | ask the venues in turn | what is sold is there when the shot lands | `Pricing` |
| read RPC rotation (`analysis/rpc.py`) | bench times, cursor; window and failures of a range | call, retry, bench, rotate, cut and halve windows | no endpoint left untried, though two threads share the client; no block missed or doubled; every range ends | `Reads` |
| liquidator contract (`contracts/src/HyperLendLiquidator.sol`) | lock, allowances, balances | push, flash loan, callback, liquidate, swap, repay, settle, sweep | all or nothing; the loan is repaid; at least `minProfit`; no allowance left | `Liquidation`, `Liquidator` |
| shadow telemetry, depeg watcher, deadman, telegram, surveys | logs and throttles | observe and report | they change none of the state above | - |

The components meet in the loop. An iteration settles the journal, reads hot set and chunk,
evaluates the guard, prices and fires (which asks the venues, the nonce cache, signs and
broadcasts), probes, arms, updates the hot set, runs discovery when the cursor has wrapped, and
writes three files one after the other. What is hard: the process can be killed between any two of
these steps; receipts and acks come late, twice or never; nodes lag each other; the operator reads
and writes the same file as the loop; the day rolls over while shots are in flight; the quoting
thread stores what it read before a shot; the Pool decides with its own rounding, and on prices of a
later block.

## 2. The modules

| module | models | lines |
|---|---|---|
| `Journal` | the accounting image and the functions that rewrite it; no state machine | `load_state`, `_roll_day`, `guard_ok`, `recently_fired`, booking in `_fire_raw` / `_fire_cast`, `_settle_gas`, `_check_pending`, `reset` |
| `Executor` | the loop around it, process life cycle, chain, operator, clock | `loop` 1787-1883, `_hot_iteration`, `_check_pending` 1219-1301, `fire` 1025-1150, `main` 1895-1913 |
| `ExecutorProperties` | its properties | |
| `Delivery` | abstract: what a send promises its caller | docstring and return of `_sign_and_send` |
| `Sender` | nonce cache, volley, transport, mempools; implements `Delivery` | 603-723, 907-1008, `rpc.py` 77-155 |
| `Watch` | book, cursor, hot set, discovery, their two files, kills | 152-212, 1620-1726, 1787-1883, `monitor.py` 54-84 |
| `Liquidation` | abstract: what the contract promises its owner | |
| `Liquidator` | the contract step by step; implements `Liquidation` | `HyperLendLiquidator.sol` 129-333 |
| `Sizing` | the size of a liquidation, and the Pool it has to foresee; no state machine | `aave.py` 98-274, executor 467-482 |
| `Pricing` | the ladder, the venues, the gate; extends `Sizing` | executor 426-584, `routers.py`, `liqd.py` |
| `Probes` | arms, the quoting thread, reactive shots from the cache, probe windows | 1330-1574, 1653-1690 |
| `PriceWatch` | the two price caches and `plan()` | `bot/spec.py` |
| `Reads` | read client and chunked log reads | `rpc.py` 195-369 |
| `*Proofs` | the theorems | |
| `MC*` | instances | |

`Executor` extends `Journal`, `Pricing` extends `Sizing`. `Sender` is tied to `Delivery`, and
`Liquidator` to `Liquidation`, by a refinement mapping. The other modules meet at interfaces kept
free on one side: `Executor` sees of a send only its three outcomes, which is what `Delivery`
states, of pricing only that a shot may be worth it, and of the sweep only that some target may be
fired at; `Probes` sees of `PriceWatch` a plan that comes and goes; `Watch` sees of `Reads` a
discovery that may fail; `Pricing` hands `Liquidator` an amount and a least profit.

### Executor

`st` and `disk` are the image in memory and in the state file; `pc` is the place in the loop
(`top`, `settle`, `fire`, `probe`, `save`), `down` without a process, `tripped` for a start that
finds the kill-switch tripped and is about to save and exit.

| action | code |
|---|---|
| `Start`, `StartTripped`, `TrippedExit` | `loop` up to 1799 |
| `BeginIteration` | `_roll_day` 1842, and the records collected at 1240 |
| `SkipThrottled`, `NoVerdict`, `Decide` | one record of `_check_pending`: stale wall, throttle, receipt |
| `EndSettle` | the purge 1299-1301 and `guard_ok` 1666 |
| `FireRaw`, `FireRefused`, `FireCast`, `FireProbe`, `ProbeRefused` | `fire`, `_fire_raw`, `_fire_cast`, `_spec_pass` |
| `EndFire`, `EndProbe`, `IterationFails` | the ends of the two passes, an exception in the iteration |
| `Save`, `KillExit` | the end of the iteration |
| `ResetLoad`, `ResetSave` | `main("reset")` 1895-1913: the file is read (1896), and written back (1910) |
| `Crash`, `Tick`, `NextDay` | surroundings |

Abstractions. A transaction's fate is chosen when its receipt is read, since nothing the bot does
depends on it earlier. Accepted and ambiguous broadcasts are booked alike, as in the code. Whether
a target is liquidatable, profitable and routed is a free choice, and so are the balance gate and
`DRY_RUN`: they only withhold shots. The clock moves between iterations (the code reads it once
per iteration). Counters of messages and heartbeat stamps are left out, and so is the save of an
unchanged image after the start banner. `hist` and `ledger` are history fields of the image, kept
and rolled back with it.

The reset is another process and takes no lock. `resetting` and `held` are its place and the image
it has read; between its two steps the loop may do anything, a start, a save, its exit and a kill
included. If the loop runs when the reset writes, the loop's next save puts its memory back; if
not, what it saved in between is gone. `lost` remembers the transactions whose record nobody has
any more: those that a kill takes with it because the file does not hold them, and those that such
a reset drops. `OneLiveShot` excepts them, and says that nothing else frees a live shot.

### Sender

One life of the process. `cache` is `_nonce_cache`; `cur` the shot under way; `reply` what each
thread of the volley has been told; `wire`, `pool`, `held` and `mined` describe the network: posts
under way, mempools, whether any node ever took the shot, transactions mined. `Answer` is a node's
answer, which may be lost, or, on a reused connection, be replaced by a repeated post
(`rpc.py` 97-110). `Timeout` is the hard deadline or a transport error, the post itself lost or
still to arrive. Fees and calldata are left out. The node asked for the nonce never counts less
than what is mined.

### Watch

A position is `cold`, `edge` (below `HOT_HF`) or `under` (HF < 1); the market moves it freely once
the account has borrowed. The book is a set of numbers, and a borrower's index is his rank, so the
newcomers shift indexes as `sorted(...)` does. `HotIteration` reads hot set and chunk in one step;
any subset of the calls may fail; any subset of the targets may be fired at; price updates and open
probe windows may suppress the chunk. `Discover`, `SaveBook` and `SaveHotset` are separate steps,
and `Restart` may come between any two. `tick` counts modulo `SWEEP_EVERY`, the only use the code
makes of it. `cycle` and `swept` are history fields of the hot set.

`Discover(to, seen, ok)`: one endpoint names the head `to`, another serves the logs and has the
blocks up to `seen`; each may be `LogLag` behind. `lost` is a history field of the book: the blocks
that a successful discovery moved the checkpoint over without a way to read them (`Unread`), because
they were more than `INCR_WINDOW` behind `to` or after `seen`. It is not computed from the range the
code asks for (`From`), so a wrong range shows.

### Sizing and Pricing

`Sizing` translates `size_liquidation` and what it calls: `percent_mul`, `percent_div`, the close
factor, the three branches (whole debt, all of the collateral, a part of both with its floor
against leftovers), the bonus of the eMode category. `Pool` is the lending pool's own
`liquidationCall`, external, as the comments of `aave.py` describe it: its clamp to the collateral
is decided on the seized side, while the code decides on the debt side, so that the two round
differently. Values are whole numbers of the oracle's base unit, percentages parts of `PCT`.

| action of `Pricing` | code |
|---|---|
| `Init` | a row of `_build_row`: a target whose full size is not zero |
| `Skip`, `Stop`, `Try` | `evaluate` and `_chunk_fractions`: the next rung cannot be sized; none is left, or the time is up; it can, and goes to the same-asset exit, a PT's, the others', or is deeper than `EXIT_CAP_USD` |
| `Liqd`, `LiqdFails`, `LiqdHangs`, `Kyber`, `KyberFails` | `quote_for_seized_multi`: first LiquidSwap; Kyber when it fails or looks like garbage; the better of the two |
| `Leg1`, `Leg1Fails`, `Leg2`, `Leg2Fails` | `quote_pt_two_leg`: Pendle, then LiquidSwap unless the underlying is the debt asset; the second leg is told to sell `LEG2_HAIRCUT` less than the first is to give (`Mid`) |
| `Gate` | the end of `_evaluate_one`: impact, profit, premium |

A venue's answer is its output, about the gate's threshold, and its impact. The first of two legs
may give `SLIPPAGE` less than it promised. The token decimals are
equal, so that `UNIT` cancels out; which leg of a position `_best_pair` picks is left free.

### Probes and PriceWatch

`Probes` keeps no clock but the ages of arms, accounts, shots and windows, each up to where nothing
tells it from an older one. `Read` is a sweep; `ArmShot` and `QuotedShot` the reactive pass, with
`_prearm_get` (an arm in time, for the same close factor; `took` is how long the pass of quotes had
lasted when the arm was stored); `SpecPass` is `_spec_pass`, with the
queue or the fan-out; `StartQuoting`, `NoQuoting` are `prearm_tick`, and `QuoteArm`, `QuoteSkip`,
`QuoteEnd` the thread, which runs between any two steps of the loop. `Restart` keeps only the
journal. `Expect` makes `plan()` change its mind at any moment.

`PriceWatch` has the chain's stored prices beside the two caches that follow them. `TickGateway` and
`TickChain` bring any subset of the feeds, since a multicall entry or a package may be missing;
`Push` is the relayer; `ReadAccounts` is the sweep or the hot read that gives a target its `hf`, at
the prices `seen`. A position's health is linear in the prices, where the code's is a quotient of
products: ratios become differences, and 1 becomes 0. `Estimate` is built as `plan()` builds it:
from the health as it was read, moved by what the push changes of the pair of the planned shot and
of nothing else. It misses two things (`Unseen`): pushes since the accounts were read, and the
position's other assets (`more`, `owes`) that the same push moves; the interest accrued since the
read, a third one, is left out. For that `plan()` opens a window only below `SPEC_HF_FIRE` (0.998 by
default, `spec.py` 355, `config.py` 270-272), which is `MARGIN` below the line here.

### Reads

One call of `Rpc.call` is a sequence of attempts (`Try`, then `Tick`s, then `Fails`, `Answers` or
`Verdict`), each between 1 and `HARD` units of time, that ends with an answer (fast, or so slow that
its endpoint is benched), a verdict about the request, or `RETRIES` failures. The loop shares the
client with the pre-arm thread (executor 1437-1438, 1372), without a lock: at any moment of a call,
the thread may move the cursor (`TheyPick`, to anywhere) and bench an endpoint (`TheyBench`).
`get_logs_chunked` is read over it: `lo`, `chunk`, `fails`, and `got` counts how often a block was
taken. Between two ranges time may pass.

### Liquidator

A transaction runs through `push`, `lend`, `cover`, `swap`, `swap2`, `repay`, `pull`, `settle`; it
may be undone at each of them, which restores the image saved at its entry. The Pool and the venues
take any part of what they are allowed and give anything up to a bound. `_forceApprove` before and
after a call is one step with it (`AfterUse`), since the contract does not run in between and the
lock keeps out everybody else.

## 3. What the runs check

| run | instance | result |
|---|---|---|
| `kill` | 2 borrowers, 3 shots, 1 day roll, 1 kill | no second live shot (`OneLiveShot`), verdicts once (`SettledOnce`), both counters exact (`ConsecExact`, `GasExact`), no shot past the kill-switch (`KillSwitchHolds`) |
| `reset` | 1 borrower, 3 shots, a probe, a refused send, 1 kill, 1 reset that reads and writes at any two moments; no receipt need be read | types, no second live shot, revert counter exact, a pending record never blocks its borrower for ever (`PendingNotForever`) |
| `cast` | blocking path, wins charged, kill, reset, day roll | both counters exact |
| `volley` | 2 nodes, 2 shots, clock to 2 | types, `DeliveryKept` (refinement of `Delivery`), `NonceOwned`, `BackedByASend`, `NoGapSigned` |
| `cycle` | 2 borrowers, the first one new, cursor every second iteration, 2 blocks, a window of the head alone, logs up to a block behind, 2 kills | types, `CycleCoversBook`, `DiscoveryComplete`, who stays under water is read again and again (`AlwaysFoundAgain`) |
| `contract` | every entry, 2 units of debt and collateral, dust in every token | `AllOrNothing` (refinement of `Liquidation`), `NoDanglingAllowance` |
| `pricing` | 1911 positions around the thresholds, the ladder, all answers | the Pool does with each chunk what was planned (`SizedAsPool`), a drift before the shot lands neither reverts it nor leaves either router short (`SoldArrives`), each with its provisos, the contract's profit is there (`ProfitReal`), chunks come down (`Descends`), the search ends unless a call to Kyber or Pendle never does (`EvalEnds`) |
| `probes` | 2 borrowers, one of whom may cross, fan-out, restarts and failures at any step | types (the cap on probes is one), `SizedAfterReactive` |
| `arming` | 2 borrowers on the edge, queue, one place in a pass of quotes, fairness | `QueueServed`, `WindowsClose`, `EdgeArmed` |
| `gate` | 2 feeds on 2 adapters, 3 and 2 prices, 6 positions, 4 of them with an asset besides the pair | up to the margin, a target is probed only when the push of one adapter really sinks it, and whenever it sinks it far enough (`GateWithinMargin`) |
| `reads` | 3 endpoints, 3 attempts, 6 blocks in windows of 5 or less, the thread's calls at any moment | `ReadOnce`, `AllTried`, `ReadEnds` |
| `undelivered` | 1 node, 1 shot | a statement of the code's comments is violated, see below |

Every property is also checked against a mutant of the code it is about (the operators marked
"Variant"), which TLC finds to violate it.

### Bounds

Timers are scaled to one or two clock units; only their order matters to the code (dedup before the
stale wall before retention). Two borrowers let one shot's verdict change the guard for another;
three shots make two reverts in a row and a win after them; `MaxClock` lets a shot pass every timer.
`LastFire` ends the shots early enough for the last one to reach its wall. One kill or reset at any
step of any iteration meets every window between a broadcast and a save; two kills in `cycle` let a
file that was read back be written and lost again. Its window reaches back over the head alone, so
that one discovery that fails or comes late puts a block out of reach. Two nodes give every mix of
ack, refusal and silence; two shots an earlier owner of the nonce and a later one. A newcomer that
sorts first makes an index shift under a saved cursor.

`pricing` draws debts and collaterals around each place where the sizing changes its branch: below
and just above the least leftover, below and above its double, where all of the collateral is worth
less and more than the debt, where half of the debt binds, with another debt that makes the half
bind or not, with either bonus; and around the place where all of the collateral takes half of the
debt to the wei (`EdgesMC`), which `Roomy` excepts. A wei is worth ten base units, more than on the
chain, so that every rounding shows. The drift that `SoldArrives` allows before the shot lands is a
part in 499 of either price, half a per cent of interest, or an HF that passes 0.95. Two fractions
and two more halvings take the ladder through the list and below it. A venue's output is one wei
short of the gate, on it, or far above. The time budget is a choice to stop at any rung after a
result.

`probes` lets a pass of quotes take any time, and has the two cooling times differ (`DEDUP` after a
win or while pending, `REVERT_COOLDOWN` after a revert). The probe pass comes at least
every `MaxLag` units, which is the loop's cadence. In `gate`, `MIN_DEVIATION` is three,
so that one feed may move without being pushed, and the margin one, so that positions land inside
and outside of it on both sides. In `reads` a window of five leaves a single
block over, and is halved to the floor of two; the bench outlasts the attempts at the other
endpoints (`RotationAssumption`), as with the defaults of `config.py`. In `contract` two units of
debt can be covered in part or as a whole, and a token of each kind may lie in the contract
beforehand.

Deadlock is not checked where the system really may stop: a tripped kill-switch stops the bot, and
the bounds end the other behaviours of `Executor`, `Sender` and `Watch`. It is checked in the other
runs. Symmetry is used for borrowers in safety runs only.

### Fairness

`Executor`: the loop keeps stepping (`WF(Process)`, it is single-threaded and never waits without a
timeout) and time keeps passing between iterations (`SF(Tick)`). Nothing is assumed of receipts,
nodes or the operator. `Watch`: the loop keeps stepping; iterations do not throw for ever; and each
chunk is read in full if it comes up again and again. The last two are about the endpoints and the
price feed, not about the code: with a price update or an open probe window at every tick that would
sweep, the cursor stands still, and only the hot set is read. `Probes`: loop, thread and time go on,
and from some moment on nothing fails (`Fault`): no iteration throws, no guard trips, no quote is
lost. What the loop reads and whether a push is expected stays free. In particular no call of the
quoting thread hangs for ever; one to Pendle or Kyber can (see below), and then the thread's busy
flag stays set, nothing is armed any more, and `EdgeArmed` says nothing. `Reads`: an attempt in
progress ends, by the hard deadline at the latest (`WF(Tick)`, `WF(Step)`; `_run_with_deadline` in
`rpc.py`); nothing is assumed of what it brings. `Pricing`: fairness is assumed of the planner's own
steps and of LiquidSwap, whose calls have a wall (`QUOTE_WALL_SEC`), and of nothing else (`Walled`);
a call to Kyber or Pendle may stay open, which is why `EvalEnds` is a disjunction.

### Where the code and its comments disagree

One of these is a run, `undelivered`: a post that the transport repeats after its first delivery was
taken may be refused, and 897-899 says that a refused transaction is in no mempool. The others came
up while translating the code; the models contain the behaviour, and the properties say what still
holds with it.

- A record kept over a reset refunds its provisional charge out of what was charged after it; the
  comment at 1905-1906 says it cannot. On the raw path `GasExact` therefore holds until somebody
  resets (the run `kill` has no reset; `GasExactHolds` says so by `Unforgiven`); what holds after it
  is that nothing is charged twice (`NeverOverstated`).
- The comment at 1899-1906 says that a reset keeps the records in flight. It keeps those of the file
  as it read it: the reset reads (1896), the loop fires, saves and exits or is killed, the reset
  writes (1910), and the shot has no record any more, so that the next start may fire again while it
  is on the wire. `OneLiveShot` counts it among the `lost`, with those a kill takes along.
- A second shot at a borrower overwrites his stale record, which is then never polled; the docstring
  at 1234-1239 says stale records are polled until the purge.
- Probe numbers start over with the process while the journal they key persists; the comment at 1022
  calls the keys unique.
- Shots sent past a hole renew the window, so the local counter does not fall back to the chain
  within the two minutes of 690-691.
- An HTTP error other than 429 does not bench its endpoint (`rpc.py` 281-286), so that with the
  others benched one endpoint may take every attempt of a call; the module's header (14) has every
  failure rotate. `AllTried` excepts it (`unmarked`).
- Nor does "a single-endpoint hiccup rotates rather than dropping a pass" (`rpc.py` 14) hold for a
  call of the loop while the pre-arm thread makes its own. Of three endpoints the loop's call fails
  two, the thread's fails the third, the first comes off the bench before it, and the loop's last
  attempt goes to the first again; the third is never tried. `AllTried` counts what the thread
  benched during the call as tried (`theirs`): every endpoint has failed one of the two.
- The docstring at 1714-1716 says that when discovery fails "no Borrow event can be silently lost".
  The next one asks for no block more than `INCR_WINDOW` before the head (`monitor.py` 76), and
  moves the checkpoint to the head all the same. In the run, with a window of the head alone: the
  discovery at block 1 fails, the one at block 2 reads block 2 only, and who borrowed in block 1 is
  in no book. The same happens with no failure at all when the logs come from a node that is behind
  the one that named the head. `DiscoveryComplete` says that nothing is lost in any other way.
- `aave.py` 111-112 calls the reserve's bonus the conservative choice for an unknown eMode category.
  It is the larger one, and sells more collateral than arrives. A failed entry of the multicall
  counts as no category (`monitor.py` 176). `SizedAsPool` excepts both (`known`).
- `load_emodes` says its cache is rebuilt when a market is listed (`monitor.py` 135-137); nothing in
  it does.
- `aave.py` 16-17 and 185 call a full seizure of the collateral revert-free. The planner decides on
  the debt side that it fits, the Pool on the seized side: with a debt of 36438 wei at price 499 and
  collateral of 20001 at 500, in the units of the run and under the close factor of a half, it
  plans to seize all of it, and the Pool takes 20000, leaves one wei and reverts for it.
  `SizedAsPool` and `ProfitReal` hold where there is room for two wei (`Roomy`).
- `aave.py` 21-24 and 134-136 say that the overshoot makes a planned full close "immune to interest
  accrual / small oracle drift". It does not where the close factor of a half comes in. (a) The
  drift brings the position under it: a debt of 19999 at 499, worth 199590 against twice the least
  leftover of 200000, is liquidatable as a whole, and collateral of 20003 at 500 is to be seized for
  18221 (18403 sent); half a per cent of interest lifts the debt to 200578, at most some 10049 may
  be covered, a leftover below the minimum remains, and the Pool reverts. (b) It is under it
  already, and the overshoot does not fit: 36438 at 499 with 20001, where 18219 are to be pulled,
  which is half, and 18401 sent; any drift for the worse leaves a partial that reverts.
  `SoldArrives` excepts a drift that halves (`Halved`) and a full seizure whose overshoot does not
  fit (`Buffers`), and nothing else: a full seizure under the close factor of a half with place for
  its overshoot survives.
- "The per-recv socket timeout does NOT bound wall time", says `liqd.py` 41-46 of its own calls, and
  puts a wall around them. The calls to Pendle and Kyber (`routers.py` 101-112) have only that
  timeout; `_run_with_deadline` is imported there (33) and not used. An answer that trickles in
  holds the evaluation, and with it the single-threaded loop, for as long as it likes: `EvalEnds`
  has to except it.
- `HL_LEG2_HAIRCUT` may be set below what the first leg's slippage tolerates (one per cent,
  `routers.py` 63-65), and then the second leg can be told to sell what does not arrive.
  `DriftAssumption` rules it out, as the defaults do.
- A hang of LiquidSwap is not one of the failures for which Kyber is asked (`routers.py` 331), and a
  quote of LiquidSwap that looks like garbage is taken if it promises more than Kyber's (349).
- The fallback to the second leg waits for "no LiquidSwap route" (executor 1467), a text that
  `_evaluate_one` no longer returns (553).
- A used arm "must not outlive its shot" (1490); one that the thread read before the shot and stores
  after it does. `SizedAfterReactive` shows that it is not used as long as its pass of quotes took
  less than what the dedup leaves over `PREARM_TTL`: with the defaults (45 s of 60 s) 15 s, while
  the comment at 1383-1388 measures 30 to 40 s for six targets quoted one after the other. Nothing
  in the code compares the two.
- The docstring of `_spec_pass` (1516-1519) leaves the arm to its probes because the win itself
  closes window and arm. The arm lives on until it expires, and the keys of probes do not trip
  `recently_fired`: after a probe that landed, another shot may be sized on what was read before it.
  The HF gate of the next read is what stops it. `SizedAfterReactive` is about reactive shots for
  that reason, and about when the last one was sent: one that pends longer than the dedup may land
  after the read.
- `plan()` looks only for pushes that take HF below `SPEC_HF_FIRE` (`spec.py` 355): one that takes
  it into 0.998 to 1 really sinks the position and opens no window. That is deliberate (`config.py`
  270-272); `GateWithinMargin` says how much is given up for it.
- The docstring of `next_chunk` counts on one chunk per iteration; the loop takes one in
  `SWEEP_EVERY`, and none while prices move.

## 4. What is proved

All theorems hold for every value of the constants that meets the named assumptions (finite sets of
borrowers and positive limits; no relation between timers but
`PENDING_STALE_SEC <= SENT_RETENTION_SEC` in `Journal` and `RotationAssumption` in `Reads`;
`LeftoverAssumption` and, for `SoldArrivesHolds` alone, `DriftAssumption` in `Pricing`).

| theorem | argument |
|---|---|
| `TypeCorrect` | a lemma per operator of `Journal`: it keeps an image an image |
| `OneLiveShotHolds`, `SettledOnceHolds` | invariant `IInv`, below |
| `ConsecExactHolds`, `GasExactHolds`, `NeverOverstated` | `Books`, below |
| `KillSwitchAlways` | `GuardFresh` and `Books` |
| `SenderTypeCorrect` | per action |
| `DeliveryKeptHolds` | step by step refinement under `NetInv` |
| `BackedByASendHolds`, `NonceOwnedHolds` | invariant `NonceInv` |
| `NoGapSignedHolds` | invariant `GapInv`, which includes `NetInv` |
| `WatchTypeCorrect` | `WatchInv`: memory and book file differ by at most one save |
| `CycleCoversBookHolds` | `CycleInv` |
| `DiscoveryCompleteHolds` | `NothingElseLeftOut`, below |
| `LiquidatorTypeCorrect` | per action |
| `NoDanglingAllowanceHolds` | `AllowInv`: an allowance is open only between `repay` and `pull` |
| `AllOrNothingHolds` | step by step refinement under `TxInv` |
| `ProbesTypeCorrect` | per action |
| `SizedAfterReactiveHolds` | `InTime`, `ReadBefore`, below |
| `PriceWatchTypeCorrect`, `PushForeseenHolds` | `Current`: the cache of a feed not moved since it was read is what the chain stores |
| `GateWithinMarginHolds` | `PushForeseen` and linearity of the sums |
| `ReadsTypeCorrect`, `ReadOnceHolds` | per action, with the window inside the range (`Inside`) |
| `AllTriedHolds` | `RotInv`, `Spared`, below |
| `PricingTypeCorrect` | `Priced`, below |
| `DescendsHolds` | `Ladder`, below |
| `SizedAsPoolHolds`, `ProfitRealHolds` | `Cut`, `AsPlanned`, below; a full seizure with room (`Roomy`) |
| `SoldArrivesHolds` | `Near`, `HalfCovered`, `Haircut`, below; a shot of ten thousand wei of both tokens (`Substantial`) |
| `ProfitFollows` | `Priced`, under `[]SizedAsPool` |

`IInv`. `OneLiveShot` is not inductive: it says nothing of the journal. The strengthening says that
every record in flight is true of its transaction (key, time, past the wall if stale), in memory, on
disk and in the image a reset holds; that a transaction with a verdict is not in flight and has one
verdict; and that every live shot is guarded, that is, its key's record is the pending record of
that very shot. A new shot passes `RecentlyFired`, so its key is not pending, so no live shot is
guarded by it. A kill swaps memory for the file, a reset without a loop swaps both for what it held,
and either moves the shots whose records are gone into `lost`.

`Books`. In memory, in the file and in the image a reset holds, the revert counter is the number of
trailing reverts of the image's own history, and the gas counter what its own ledger makes due; a
record in flight carries the very charge that the ledger has for it, so that a refund takes back
what was charged; an image is never of a later day than the clock's. Every function of `Journal`
that books a verdict or a charge changes at most one entry of the ledger, and a day roll makes the
old ones due to nobody. On the raw path a reset breaks the last link: it zeroes the counter and
keeps the records. Until then equality is proved, after it an upper bound. The sums and counts are
of any size: what a fold computes is unfolded by choosing a smallest subset on which a claim fails
(`MinimalSubset`), which needs no induction over an operator.

`GuardFresh`. The guard that `EndSettle` took still describes memory: of the revert counter all
through both passes, of the budget until the first shot. Verdicts of the iteration are booked before
it, so `Books` turns the counter into the history's reverts.

`NetInv`. What a mempool holds was taken; a shot not yet signed, or refused without a repeated
post, is nowhere; a thread that heard "ok" heard it of a node that took the shot; a volley whose
threads have all heard "verdict" leaves nothing on the wire and nothing taken. `Delivery` reads the
refusal of a repeated post as `unknown`: without that the refinement fails, as `undelivered` shows.

`NonceInv`, `GapInv`. A shot inside its window is below the local counter, and its send time is not
after the cache's; below each number the next nonce may be taken from (local counter, chain view,
mined count, a node's pending count) every nonce has a shot that may fill it.

`CycleInv`. Of the book a cycle began with, whoever stands before the cursor has been passed over,
for hot set and book in memory and for the two files. A book only grows, so ranks only move up
(`PosUp`), so a cursor saved with an older book skips nobody in a newer one. At the wrap the rest
stands in the last chunk (`PosInside`).

`NothingElseLeftOut`. A block after the checkpoint and up to the new one is either in the range that
discovery reads or one it could not read. With it `DiscoveryComplete` holds for any lag, any outage
and any number of failures and kills: what is not in the book of those who borrowed up to the
checkpoint is in its `lost` blocks. That no borrower is born at or below a checkpoint that is already
there is `HeadInv`.

`TxInv`. Until it settles, a transaction has paid nobody, and its `balBefore` is what the contract
held when it began; the borrower's position is what it was up to `liquidationCall`, and smaller
after it; nothing is owed but between `Lend` and `Pull` of a flash loan. So the profit that `Settle`
demands is the owner's gain. By `AllowInv` no allowance survives the call it was made for, and that
of the repayment is used up by the Pool's pull to the wei.

`InTime`, `ReadBefore`. The thread may store an arm after the shot that dropped it. An arm that
still counts was read no longer ago than its age and what its pass of quotes took, so an account is
younger than `PREARM_TTL` plus that. A shot, reactive or a probe, goes only when the last reactive
one is older than its cooling time: if that is more, the arm was read after it. No relation between
the timers is assumed; the theorem has the one it needs, of this arm to this shot, as a proviso.

`RotInv`, `Spared`. As long as some endpoint has neither failed the call nor been benched by the
thread meanwhile, the failed ones are benched for longer than every such one, and those of the
thread for no less: the next one picked has not failed the call. As the attempts at the others take
less than a bench, none of the failed comes off in between, and with at least as many attempts as
endpoints none is left that neither of the two found bad. The thread's cursor does not matter:
`_pick_url` prefers what is not benched wherever it starts. That `_pick_url`'s minimum exists is a
lemma on well-founded orders (`LeastOf`).

`Ladder`. The size in hand was cut with a bound `m` at least as large as the share the next rung
allows. `SizeMono`: a larger bound never makes `size_liquidation` pull less, across its three
branches. This is not plain: a bound below the debt may leave the full branch for the partial one,
which the floor against leftovers and the safety factor shrink further. `ShareMono` and
`NextFraction` bring the fractions down with integer division.

`Priced`. A chunk is asked for only if it covers something; what it pulls is within what is lent,
what is sold within what is to arrive; a quote does not outlive its chunk; a shot has passed the
gate. From it `ProfitFollows` compares the premium that the code rounds up with the one Aave rounds
to the nearest, and the code's gate (profit and gas, by multiplication) with the contract's
`min_profit_wei` (profit, rounded down). What the Pool pulls is `SizedAsPool`.

`Cut`, `AsPlanned`. The size in hand was cut with some bound within the close factor, so
`SizedAsPool` is a fact about `size_liquidation` and the Pool for any such bound, whatever the
ladder does. Whole debt: if covering it were to seize more than the collateral, the debt that buys
all of it would be less than the debt (`WholeFits`). All of the collateral: covering two wei of
either token more than that takes clamps the Pool to the collateral (`AllClamped`). A part: the
floor of 105 per cent and the safety factor outweigh all roundings between values and wei
(`PartialBounds`, `KeepsDebt`, `KeepsColl`), for a least leftover of at least a hundred base units
and a thousand bonuses and wei-values (`LeftoverAssumption`; on the chain it is 10^11 units, and a
bonus is below twice the debt).

`Roomy`, a proviso of the property itself, is the two wei of room that the second case needs below
the close factor; section 3 has the position that has less and reverts. The branch at `aave.py` 230
has no margin there. Tokens with 18 decimals hardly meet it; what `SoldArrives` excepts by `Buffers`
is the wider side of the same edge. A chunk that is no full seizure needs no proviso.

`Near`, `Haircut`. A position is near another if its debt is the same or at most the buffer of one
per cent larger and its prices, and their ratio, are off by at most one part in 499; `DriftedNear`
puts every position of `Drifted` there, whatever its prices. An HF that passes 0.95 and a debt that
passes twice the least leftover change the close factor: `Halved` may cease, which only allows more;
that it does not begin is the proviso. What the planner counts on and what the Pool seizes at a near
position differ by 21 parts in 10,000 and a few wei at most (`SeizedMoved`, `AllMoved`), the haircut
is 30 parts in 10,000, and the fee neither stretches the first beyond the second (`SoldThere`): that
is where ten thousand wei are needed, since below them a wei of rounding counts as much as the
haircut. For the three ways to size: a whole debt is still covered because it was lent with the
buffer (`WholeLands`); a full seizure either clamps again or covers more than all of the collateral
was worth (`AllTaken`, `AllLands`); a part is still within the close factor, by the safety factor
(`PartialCovered`; where half of all debts is what binds, that half moves by at most the drift,
`HalvesNear`, `HalfCovered`), and still leaves enough of both legs (`PartialLeaves`, the lemma that
proves it for no drift at all). `Haircut`: whatever venue answered, the router is told to sell at
most 997 parts in a thousand of what the chunk in hand counts on, and that of a second leg no more
than the first gives at its worst (`MidThere`).

Only model-checked: all liveness properties, since liveness under fairness is out of the prover's
reach.

## 5. Not modelled

- Shadow telemetry (`bot/shadow.py`), the depeg watcher, deadman, heartbeat, telegram, deployment and
  the surveys: they observe and report, and nothing the bot decides depends on what they write.
- `bot/config.py` and `analysis/protocols.py`: constants; those that matter are CONSTANTS here.
- Byte encodings, keccak, RedStone payloads and signatures, multicall batching, calldata and fees:
  data without control. That `_validated` lets only genuine packages through is taken as given.
- `python3 -m bot.executor once` and the command-line scan of `analysis/monitor.py`, which write
  the same files without the lock; the one-time backfill from `HL_DEPLOY_BLOCK`; the reserve cache.
- A restart of the process in `Sender`: the nonce cache dies with it and nothing replaces it.
- The state file's temporary name, shared by loop and reset (134-138): each single save is atomic
  here.
- A thread that cannot be started: `_prearm_busy` stays set then (1436-1439).
- The choice of the leg to liquidate (`_best_pair`), tokens of different decimals, the tips that
  probes bid, the gas that receipts do not show.
- `setOwner` and `sweepNative` of the contract, and calls by anybody but owner and Pool, which its
  modifiers refuse.

The modules are not composed into one specification: each pair meets at an interface that one side
leaves free, so the free side has every behaviour the other could show it. What is lost by it are
statements about both, such as one that a quote of the thread ends in a transaction that lands.
