# Verification of wallet-adapter-btc

A TLA+ model of the Bitcoin adapter in `src/`: the scanner that walks the chain
and hands the host the rows of its accounts, the decoder that builds, replaces,
sweeps, signs and sends payments, and the access to nodes they share. TLC
checks the models on small instances; TLAPS proves, for every value of the
constants, the safety of the scan loop, of the scan of a block, of the cross
check, of reloading and of signing, and of payments from coin selection to the
host's books.

    ScanLoop ── refines ──> OrderedFeed            FeeRates <── TxBuild
    BlockData <── BlockScan ── refines ──> AtomicScan              ▲
                                                             FeeAccounting
    Servers <── CrossCheck ── refines ──> AtomicCheck              ▲
       ▲                                                      ExtractRows
    Connections <── Signing                                        ▲
                                                                Transfer

    proved about: ScanLoop, BlockScan, CrossCheck, Connections, Signing,
                  TxBuild, FeeAccounting, ExtractRows, Transfer

(`A <── B`: B extends A.)

## 1. Inventory

### 1.1 Parts, their state and their operations

| Part | Source | State | Operations |
|---|---|---|---|
| scan loop | `internal/scanner/blockscanner.go` 330-520 | `scanLoopCursor` (atomic), `priorityHeights` (under `priorityScanMu`), `scanBlockMu`, the pause of the framework's base scanner | `RunScanLoop`, `ResetScanHeight`, `ScanBlockPrioritize`, `ScanBlockOnce`, `Pause`, `Run` |
| block scan | `blockscanner.go`, `block_integrity.go`, `block_tx_load.go`, `scan_targets.go`, `scan_addresses.go` | `accountTargetCache` for the block (under `accountCacheMu`), prevout caches, everything else local to the call | `ScanBlockWithResult`, `VerifyTransactionByTxID`, `FindTransactionBlockHeight` |
| fee accounting | `fee_extract.go` | none; reads the host's trade order | `computePayerLegAccounting` and the rows built from it |
| transaction types | `scanner/tx_action.go`, `decoder/tx_action.go` | none | labels |
| cross check | `cross_check.go` | the generation of peers, references to it | `SetVerifyAPIs`, `VerifyBeforePromote` |
| payment builder | `decoder/transaction.go`, `utxo_select.go`, `utxo_filter.go`, `change_policy.go`, `payer_send_out.go`, `util/vsize.go` | none: coins come from the node at each call | `CreateRawTransaction` (transfer), `CreateSummaryRawTransaction` |
| replacement builder | `decoder/speed_up.go`, `manager/mempool.go`, `models/bip125.go` | none: the origin and its fee come from the node | speed-up, cancel |
| prevouts of a raw transaction | `decoder/prevout_cache.go` | carried in the raw transaction's ext | written at drafting, read at signing and replacing |
| signing and submission | `signed_build.go`, `sign_ext.go`, `decode_view.go`, `txbuild/`, `btc/signverify.go` | the raw transaction: `RawHex`, `Signatures`, `IsCompleted`, `TxID`, `IsSubmit` | `PrecomputeSubmitTxID`, `VerifyRawTransaction`, `SubmitRawTransaction` |
| addresses | `btcaddr/`, `decoder/address.go`, `chainparams/`, `util/addr.go` | none | encodings |
| wallet manager | `manager/manager.go` | `Client`, `ExplorerClient`, `Config`, replaced by `LoadAssetsConfig` | reads of the node, broadcast |
| fee rates | `manager/fee.go` | none | rate of `estimatesmartfee`, floor, bump |
| configuration | `config/` | `WalletConfig` | defaults, `LoadAssetsConfig` |
| node client | `rpc/client.go` | connection | JSON-RPC and explorer calls |
| chain records | `models/` | none | parsing of blocks, transactions, coins |
| public interface | `btc/`, `main.go` | the parts above | constructors, delegation |

Outside the repository: the **wallet-adapter framework** (base scanner with
pause and interruptible waits, decoder interfaces, records), the **node** (its
chain, its mempool, its answers) and the **host** (its handler, its address
book `scanTargetFunc`, its trade orders `GetTradeOrderOutbound`, its balances).
They are modelled only by how `src/` uses them and are marked external in the
map.

### 1.2 How they interact

* The scan loop is one goroutine. For each height it takes `scanBlockMu`, runs
  the block scan, gives the mutex back and calls the host's `HandleBlock` on the
  same goroutine. The handler, and any other goroutine, may call the loop's
  operations meanwhile.
* The block scan asks the node several times for one block, the host's
  `scanTargetFunc` for many addresses, and shares its per-block cache with any
  `VerifyTransactionByTxID` that runs at the time.
* For a block with a spend of the account it asks the host for the trade order
  the decoder's raw transaction was stored as. The one thing the two halves of
  the adapter share is therefore `payerSendOut`: the decoder computes it from
  inputs, change and payment; the scanner must find that it adds up with what
  the chain shows, or it fails the block, and the loop stays at it.
* The replacement builder takes inputs, outputs and fee of the origin from the
  node, at drafting time.
* `LoadAssetsConfig` and `SetVerifyAPIs` replace shared pointers while all of
  the above are running.

### 1.3 What is hard here

Interleavings of the loop with resets, priority requests, pauses and nested
scans; separate RPCs for what must be one block; a cache shared between calls;
a lookup or prevout that fails without failing the block; a trade order that is
stored after its payment is mined; rounding, dust and fee boundaries; sharing
a payment among several funding addresses; replacements of payments that were
legal themselves; peers swapped while in use; answers that are late or lost;
clients and settings replaced while they are read; a raw transaction that is
built again half way through its life. `PROJECT.json` lists every one of
them at its line under "hazards", with the properties that look at it.

### 1.4 What makes each part correct

* scan loop: no height passed over that the host did not take (`NoGap`), every
  priority height scanned once per request (`PriorityConserved`,
  `PriorityServed`), a pause that pauses (`PauseStopsScans`), progress
  (`CatchesUp`), all in all an ordered feed of heights (`FeedSpec`).
* block scan: all rows of one block for one set of addresses, or failure
  (`LooksAtomic`); nothing invented (`RowsAreReal`), no deposit lost
  (`DepositsKept`), no spend lost (`SpendsKept`), no cache beyond its block
  (`CacheEndsWithCall`).
* builder and accounting: the host's balances follow the chain by the rows it is
  handed (`LedgerMatchesChain`), recipients are said to get what the chain gave
  them (`RecipientsGetTheirs`), the reported fee is the fee
  (`FeeIsWhatIsPaid`), what is built can be booked (`OnePayerCanBeBooked`,
  `TwoPayersCanBeBooked`, `PayersWithRoomCanBeBooked`, `TransferCanBeBooked`,
  `ReplacementCanBeBooked`) and refused for one reason only
  (`RefusedIfOvercharged`), and is booked by its order (`OrderIsFollowed`),
  change does not credit a sibling
  (`ChangeFitsPayer`), the node takes replacements (`ReplacementAccepted`), and
  a late order delays but does not stop the scan (`MinedIsScanned`).
* cross check: a verdict is what one peer of the pool would say of the anchor at
  one moment (`LooksAtomic`), also when the deadline ends the walk.
* configuration: who has read the kind of server finds a client of it
  (`ReaderFindsClient`), also after a failed ping (`FailedPingKeepsClient`), and
  calls go to the node of the last load that succeeded (`SettledOnServed`).
* signing and submission: only verified bytes are sent (`SentIsVerified`), good
  signatures can always be merged (`SignedCanBeVerified`), and the ids the host
  knows, that of the raw transaction and the one precomputed for it, are those
  of what the network took (`TakenIsNamed`, `PrecomputedIsTaken`).

## 2. Plan

Done, in this order:

1. `OrderedFeed`, `ScanLoop`, `MCScanLoop`, `ScanLoopProofs`: the loop.
2. `FeeRates`, `TxBuild`, `FeeAccounting`, `ExtractRows`, `Transfer`,
   `MCTransfer`: payments, sweeps and replacements from draft to books.
3. `BlockData`, `AtomicScan`, `BlockScan`, `MCBlockScan`,
   `BlockScanProofs`: one block.
4. `Servers`, `AtomicCheck`, `CrossCheck`, `MCCrossCheck`, `CrossCheckProofs`:
   promotion checks against peers.
5. `Connections`, `ConnectionsProofs`: reloading of the manager; `Signing`,
   `MCSigning`, `SigningProofs`: a raw transaction from draft to network, beside
   reloads.

6. `SumProofs`, `TxBuildProofs`, `TransferProofs`: sums of satoshis, what the
   builders build, and what becomes of it in mempool, chain and books.

The project keeps to a dozen runs so that all can be repeated at each change.

Every safety property that passes is stated by a theorem (section 5); liveness is
left to TLC.

## 3. The models and the code

### 3.1 ScanLoop

`pc` is where the goroutine of `RunScanLoop` stands; each action is what it does
up to the next point where another goroutine can be seen. `next`, `scanTo`,
`latest`, `batch` and `result` are its locals, `cursor` is `scanLoopCursor`,
`queue` is `priorityHeights`, `mu` is `scanBlockMu`, `paused` the pause of the
base scanner.

| pc | code | actions |
|---|---|---|
| gate | `BlockIfPaused` of the outer loop and of the round | `Gate` |
| drain, prioGate, prioScan, prioScanning, prioHandle | `processPriorityScan`: copy and clear, then per height the gate, the scan, the handler | `DrainPriority`, `PriorityGate`, `BeginPriorityScan`, `EndPriorityScan`, `PriorityHandled` |
| tip, tipHandle | `GetGlobalMaxBlockHeightWithError`, `notifyTipRPCFailure` | `TipAnswers`, `TipFails`, `TipFailureHandled` |
| plan | the cursor is loaded, after the tip | `PlanNothing`, `PlanRound` |
| scan, scanning, handle, advance | `ScanBlockWithResult`, `HandleBlock`, the check of the result, `scanLoopCursor.Store(h)` | `BeginMainScan`, `EndMainScan`, `BlockHandled`, `Advance` |
| sleep | `WaitInterruptible` | `WakeUp` |

`ResetScanHeight`, `ScanBlockPrioritize`, `OnceBegins`/`OnceReturns` (a
`ScanBlockOnce` of the handler, "nested", or of another goroutine, "once"),
`Pause`, `Run` and `NodeTip` may happen at any step. The node's tip may fall. A
scan succeeds or fails freely; above the tip it fails.

Five variables are history only: what was delivered since the last rewind and
from where (`base`, `delivered`), requests accepted and served, and scans begun
since a pause. A rewind between two rounds begins the bookkeeping anew. A
rewind inside a round may be overwritten by the `Store` of the block that is
being handled; nothing in the code promises otherwise, so `NoGap` only asks
that even then nothing is passed over above the higher of the two starting
points.

`OrderedFeed` is what the host relies on: a position, and the height right after
it on offer. With `ResetsInRound = FALSE` the loop refines it.

### 3.2 BlockScan

`ScanBlockWithResult` from the call to its return, one action per RPC, lookup or
transaction. `best` is the node's best block at the height, `registered` the
host's address book: both may change between any two steps. `index`, `filled`,
`todo`, `left`, `params`, `rows`, `failed` are the call's locals; `caching`,
`hits`, `misses` are the cache under `accountCacheMu`. `VerifyQueries`,
`VerifyAsks` and `VerifyStores` are a verification of another goroutine that
reaches the same cache; asking happens outside the lock, so its answer may be
stored into the cache of a scan that began later. A verification may ask the
scanner's address book or one that its caller brings
(`VerifyTransactionByTxID`, `ExtractTransactionAndReceiptData`), which may
answer anything.

What may go wrong is a set, `Faults`: an RPC that fails ("rpc"), a malformed
answer to getblock ("response"), a trade order that is not there ("order"), a
prevout that does not come ("prevout"), an address lookup that fails
("lookup"), a verification whose answer is late ("late"), or is that of its
caller's own book and differs from the scanner's ("caller"). `MaxFaults` bounds
how many happen in one behaviour; each run says which it allows. A denial that is
stored late counts as "late", whoever gave it. `RowsAreReal` excuses a caller's wrong "yes",
which is the one way the scanner can invent a row.

A managed transaction without any row is an error of its own
(`NothingExtracted`). It takes a lookup that first says yes and then no, and so
two faults in one call: the theorems cover it, the runs, with one, do not
reach it.

`AtomicScan` is what a caller would like to believe: block and addresses read at
once. Its `since` and `knew` are the blocks that were best, and the addresses
known, since the call began; `BlockScan` carries them as history.

Abstractions: amounts are in `FeeAccounting`; the inputs of a transaction that
share an address are asked about at once; prevouts are distinct; a node that
leaves nTx out lists every transaction, and every block has one (the code takes
an answer with neither for an empty block); getblock's own height is not compared
with the one asked for because the hash is.

### 3.3 FeeRates, TxBuild, FeeAccounting, ExtractRows, Transfer

`FeeRates` is `fee.go` and the rate of a speed-up. `TxBuild` has the builders as
operators: coin selection (`SettledCount` is the loop that adds coins until the
fee of the coins taken is covered as well, over every order `sort.Sort` may leave
equal amounts in), fees and sizes with the code's constants, `ChangePolicy`
(dust, or change that its own output would eat) behind `CoversFee`, the error
for inputs that do not cover payment and fee, `SpeedUpOf`, `CancelOf`,
`CreateBTCSummary` with its batches, and `PayerSendOut` with its greedy and
proportional shares. Operators that can fail return a set, empty for an error.
Int64 products wrap at `Int64Half`. A rate of the host is `NotGiven` where the
code has an empty string; a given 0 is a rate for a payment and an error for a
speed-up.

`FeeAccounting` has the scanner's side: payer legs, self change, and whether a
trade order reconciles. `ExtractRows` has the rows: one for each managed address
a transaction touches, rewritten for payers whose order was found right (`SendRow`, `FeeRow`), with the share of each split
over the recipients (`TargetParts`, put over the item's own by `Written`) and
what was a payer's change taken out. `OutboundTargets` goes over the outputs in
their order, which is any order of them.
`Effect` is what rows do to a balance, as a host adds them up. `SharesFit` is
the condition on an order that is left of all the scanner's checks
(`RefusedIfOvercharged`), and `LeavesRoom` the one on a payment under which
`PayerSendOut` meets it.

`Transfer` composes them through node and host: drafts from the current coins
(also those of unconfirmed transactions, with or without the coins of other
drafts excluded), sweeps of addresses with at least `MinTransfer`, submission
with BIP125 replacement and eviction of descendants, mining in any order that
respects dependencies, deposits, orders stored at any time after submission, and
block-by-block scanning that stays where accounting fails. A failing scan
changes nothing and is a stutter. The scanner looks the order up twice; the
second lookup may fail alone, and `raw` keeps what was booked so.

The node is a mempool with BIP125: `Accepts` asks a replacement for more than
what it evicts pays in all, by at least a satoshi per virtual byte of its own,
and for a better rate than each transaction it conflicts with, and any
transaction for the minimum relay fee. The assumptions on the constants are
what decoder and network grant: finitely many addresses, coins and outputs of
at least a satoshi, rates and bumps that are integers. `Managed` is the account;
`Payments` and `Incoming` may pay to addresses in and outside of it.

### 3.4 CrossCheck

`SetVerifyAPIs` reads the manager's settings once, dials the peers one by one
(a dial may fail or find the wrong kind of server) and swaps the pool;
`VerifyBeforePromote` takes the pool at its beginning and walks it. Each call to
a peer is a step, and chains change between steps: `getrawtransaction`, on a
Core server once more, then the wallet; then the hash at the anchor's height.
A Core server without an index denies transactions it has in its chain, its
wallet's answer names no block (`BlockHash` is not read from it), an explorer
also tells the height. The code takes any error with "not found" in it for a
denial, so a peer in `Fronted`, one behind a proxy, may deny anything with its
404 page. `crossCheckMinConfirmations` is 1. The deadline is `Expire`: it is
looked at before a peer is asked and never again.

`AtomicCheck` is the promise: "ok" if some peer of the pool found at the
beginning has the anchor's block at its height, with the transaction in it, at
that moment; "no" if one lacks it, or is not able to tell. `Verdict` in the
refinement anticipates a denial: once `getrawtransaction` is denied the answer is
"no", though the wallet is still asked.

### 3.5 Connections and Signing

`Connections` is `LoadAssetsConfig` assignment by assignment: settings, the
client of the new kind, the other client to nil, the ping, the return to the
previous clients (two assignments). Readers read the kind of server and then use
the client of that kind, in two steps, as `SendRawTransaction` and its like do.
A nil Core client answers with an error, a nil explorer is dereferenced.
Loads do not overlap: one host goroutine makes them. `MaySwitch` says whether a
later load may ask for another kind of server.

`Signing` adds one raw transaction, on which the host makes one call at a time.
A draft is a number with the coins it spends, the hex a draft with its
signatures. The raw transaction carries scripts and amounts of coins in its
ExtParam (`prevouts`), those of its draft, of one that failed, or none.
`FromCache` is the comparison with the inputs, which looks at the coins and not
at what is said of them; where it fails the node is asked (`UsedPrevOuts`). The
code compares position by position: sets of coins stand for that, since the same
coins in another order only lead to the node. A signature is missing, bad, or one of two good ones. The
inputs in `Legacy` have theirs in the script, which is part of the id. The node
takes what is well signed, once per draft, and its answer may be lost, or come
without an id, which the code takes for success. Sending is a reader of
`Connections`, so that reloads come between its two reads. `resigned` is history
only: the drafts of which a legacy input got another signature after the one
before was used, for the precomputed id or in the verified hex.

## 4. The runs

| run | checks | shows |
|---|---|---|
| `scan_loop` | `TypeOK`, `NoGap`, `PriorityConserved`, `PauseStopsScans` | every interleaving of the loop with resets at any moment, requests, nested and foreign scans, pauses, moving tip, failures: 1.2 million states |
| `scan_loop_feed` | `FeedSpec`, `PriorityServed`, `CatchesUp` | with resets between rounds: refinement, and progress under fairness |
| `transfer` | `TypeOK`, `LedgerMatchesChain`, `RecipientsGetTheirs`, `FeeIsWhatIsPaid`, `ChangeFitsPayer`, `ReplacementAccepted`, `OnePayerCanBeBooked`, `TwoPayersCanBeBooked`, `RefusedIfOvercharged`, `PayersWithRoomCanBeBooked`, `MinedIsScanned` | up to three addresses that fund together: payments to one and two recipients, sweeps, speed-ups and cancels with either kind of rate, pinned change, a deposit |
| `transfer_greedy` | `TransferCanBeBooked` | **violated**, see below |
| `transfer_replaced` | `ReplacementCanBeBooked` | **violated** |
| `transfer_overflow` | `TwoPayersCanBeBooked` | **violated** where int64 overflows |
| `transfer_asked_twice` | `OrderIsFollowed` | **violated** when the second lookup fails |
| `block_scan` | `TypeOK`, `CacheEndsWithCall`, `RowsAreReal`, `DepositsKept`, `LooksAtomic` | any one fault beside reorganisations, registrations and verifications: 9 million states; refinement of `AtomicScan` |
| `block_scan_prevouts` | `SpendsKept` | **violated** when one prevout does not come |
| `cross_check` | `TypeOK`, `LooksAtomic` | Core nodes with and without index, an explorer, one behind a proxy, two pools, two reorganisations: 4 million states; refinement of `AtomicCheck` |
| `signing` | `TypeOK`, `ReaderFindsClient`, `SettledOnServed`, `SentIsVerified`, `SignedCanBeVerified`, `TakenIsNamed`, `PrecomputedIsTaken` | two drafts of one raw transaction, a witness and a legacy input, two loads of the manager, lost answers and answers without an id: 10 million states |
| `signing_switched` | `FailedPingKeepsClient` | **violated** when a load changes the kind of server and fails |

### 4.1 What is violated

* `transfer_greedy`: `assignPayable` (`payer_send_out.go:124`) charges the whole
  payment to one address whenever its inputs cover it, without taking off the
  change it gets back. Its share may then exceed `vin - change`; the scanner
  refuses it, and the block, for ever. Three coins of two addresses suffice.
* `transfer_replaced`: `resolveRBFChangeAddress` (`speed_up.go:102`) returns the
  change of a replacement to the address of the first input, the smallest coin,
  where the builder of the origin took the largest coin on purpose
  (`utxo_select.go:88-89`). The change may credit a sibling with more than it put
  in, which the scanner refuses.
* `transfer_overflow`: `ext * gross[i]` (`payer_send_out.go:192`) leaves int64
  from about 30 BTC paid and 30 BTC contributed on. Shares come out negative or
  wrong and are dropped or do not reconcile. The run scales 2^63 down with the
  amounts, because TLC computes in 32 bits.
* `block_scan_prevouts`: `resolveVinPrevoutTx` (`blockscanner.go:861`) answers
  nil when its RPC fails and the input is passed over: the block counts as
  scanned with Success, and a spend of the account is missing.

* `transfer_asked_twice`: `appendBTCTransactionFeeItems` looks the trade order up
  at `fee_extract.go:902`, to see whether the transaction may pass, and again at
  912, for the rows. When the second lookup fails, the rows stay as the chain
  has them, without fee rows, and the block succeeds; the comment at 87 speaks
  of one query per transaction. The balances stay right all the same
  (`LedgerMatchesChain` holds); shares and fees of that payment are never handed
  over.
* `signing_switched`: a load that fails restores the clients, not the settings
  (`manager.go:36`, 62-63). After a load that changed `rpcServerType` there is
  no client of the kind the settings name, though there was one before.

Seen while modelling and proving, without a run:

* With `OmitChangeBelowDust` off, a speed-up that cannot pay for a change slot
  computes its fee without one and emits the change all the same: its fee is
  below what BIP125 asks for the larger transaction (`speed_up.go:351-357`). A
  coin of 9000, a payment of 8720 with 139 of change and a rate of 1000 per
  1000 vbytes do it. So does a dust limit below the size of an output, which
  `config.go:187` lets through. The defaults (on, 546) are safe, and
  `ReplacementTaken` is proved from what they have in common.
* A payment to an address of the account that also gets the change has one
  output for both. Its replacement returns the change to the first input's
  address, has one output more, and may pay less per byte than the origin: the
  node refuses it. `ReplacementAccepted` is about payments to others.
* Shares of three or more addresses: the last takes all remainders and may be
  given more than it gave (`payer_send_out.go:190`); then no share is written and
  the payment is never booked. Coins of 8000 and 11200, a larger one of a third
  address and a payment of 18992 at a satoshi per byte have a fee of 277, of
  which 69 satoshis less change come from the third; the first two are charged
  7884 and 11038, which leaves 70 for it. A sweep of 20000, 20000 and 300
  satoshis at 500 satoshis per 1000 vbytes is the same. `LeavesRoom` tells
  when it cannot happen.
* A payment to one of its own funding addresses, a sweep to an address that also
  funds it, a speed-up or cancel with its change pinned to an address that funds
  nothing: none can be booked.
* Coins of a sweep that are not spendable become inputs but not amount
  (`transaction.go:331`).
* A replacement does not count the origin's descendants; the node refuses it.
* A lookup that fails counts as "not ours" for that question
  (`scan_targets.go:90`), a late verification may put an old answer into the
  cache of a scan (94), and one that brings its own address book (326) the
  answers of that book: `DepositsKept` and `SpendsKept` ask that lookups worked.
  No document promises more.
* An answer to a submission without a txid sets `IsSubmit`
  (`transaction.go:79-86`), and `SendRawTransaction` gives one when an explorer
  leaves it out (`manager.go:179`): the raw transaction counts as submitted and
  nothing shows that it was taken. `docs/CORE_CAPABILITIES.md:29` speaks of
  "local txid verify" without a word on this case.
* While a load of a known kind is under way calls go to a node whose ping is not
  answered yet; only between loads is `SettledOnServed` promised. A failed load
  leaves the new settings (fees, dust limit, network) in force.
* A cross check of a Core node without an index says "no" of what the node has;
  so does one of a peer behind a proxy whose error page says "not found"
  (`cross_check.go:190`).

### 4.2 Bounds

* `scan_loop`: `MaxHeight` 3, `BatchLimit` 2: a chain of more than one round with
  a full and a short round, a reset below, inside and above the round, a tip
  that falls under the cursor. One accepted request per height lets all three
  be queued at once; `scan_loop_feed` allows two, so that a height is asked for
  again while it is being scanned. One reset: a second one meets the same
  states, since a reset leaves nothing but cursor and bookkeeping behind.
* `transfer`: `MaxTxs` 3 is a payment, its replacement and the replacement's
  replacement, or two drafts on the same coins and a deposit. Amounts are small
  but sizes, dust limit and marginal output fee are the real ones, and the
  amounts lie on either side of each. Three coins of two addresses give one
  coin, two coins of one address and two coins of two, with greedy shares and with
  those in proportion; with the coin of a third address, which takes the change,
  three fund together. The node
  has only the older estimate, below the floor, so that both branches of the
  rate are taken. The violations need one or two transactions.
* `block_scan*`: two rival blocks that share a transaction at different places;
  a transaction that spends an output of its own block; inputs of a managed
  address and of one that is registered meanwhile. `MaxFaults` 1: with two the
  second only hides the first, since each ends the call or is excused.
* `cross_check`: one call, because calls share nothing but the pool and chains,
  which change freely around it (`CrossCheckProofs` has any number of calls);
  two pools so that one is swapped while used; two reorganisations so that a
  chain leaves a block and comes back. The transaction is in a block of height 1
  or 2, and one anchor has the hash of one with the height of the other.
* `signing`: two drafts are a draft and its rebuild or replacement; two loads
  are one that succeeds and one that fails or changes the node. One coin of
  either kind, spent by a draft alone or together: inputs are treated alike.

Deadlock is checked but for `Transfer`, `CrossCheck` and `Signing`, where bounds
(`MaxTxs`; all calls decided; drafts and loads used up) end the behaviour.

### 4.3 Fairness

* `SF(Loop)`: the goroutine is repeatedly, not continuously, able to go on while
  others take `scanBlockMu` or pause it; Go's mutex hands over to a waiter
  after 1 ms, and `BlockIfPaused` wakes on `Run`. `SF(TipAnswers)` and
  `SF(EndMainScan(TRUE))`: a node asked again and again answers in the end, and a
  block scanned again and again is scanned (that a late trade order does not
  prevent it for ever is `MinedIsScanned`). `WF(OnceReturns)`: RPCs time out.
  `WF(Run)`: a host that pauses resumes; without it nothing is to be expected.
* `Transfer`: `WF(ScanBlock)` is the loop's progress, `WF(RecordOrder)` that the
  host stores the order of what it submitted. Nothing obliges the node to mine.
* `BlockScan`, `CrossCheck` and `Signing` have no liveness property: each loop of
  a call is bounded by the block or the pool, and nothing is retried.

## 5. What is proved

With tlapm, for every value of the constants under the named assumptions of the
modules. Each safety theorem rests on an inductive invariant that is stronger
than what it proves.

`ScanLoopProofs`, for every `MaxHeight`, `BatchLimit` in `Nat \ {0}`, every
`MaxRequests`, `MaxResets` in `Nat` and both values of `ResetsInRound`:

| theorem | says | argument |
|---|---|---|
| `TypeCorrect` | `Spec => []TypeOK` | `TypeOK` is not inductive: `Head(batch)` needs a batch, `next` a round. `LocalsOK` ties the locals to the place of the goroutine |
| `GapFree` | `Spec => []NoGap` | `NoGap` is not inductive: `Advance` stores the round's own height, whatever a reset made of the cursor, so `RoundInv` adds that everything between `base` and the round's height is delivered, and the height itself at "advance" |
| `PauseBound` | `Spec => []PauseStopsScans` | `PauseInv` counts, for each place, the scans that can have begun since the pause |
| `PriorityKept` | `Spec => []PriorityConserved` | counting heights in sequences works while these have no repetition: `PriorityInv` adds it for queue and batch; `AppendFacts` and `TailFacts` are the lemmas on sequences |
| `LoopIsFeed` | `~ResetsInRound` implies `Spec => FeedSpec` | `FeedInv`: the height of a round is the one after the cursor; every step is a step of the feed or leaves position and offer |

`LoopIsFeed` assumes resets between rounds because the refinement is false
without: `Advance` undoes a reset, which `OrderedFeed` has no step for.

`BlockScanProofs`, for every set of blocks without an empty one, all
transactions, any first addresses and every choice and number of faults:

| theorem | says | argument |
|---|---|---|
| `TypeCorrect` | `Spec => []TypeOK` | `BlockInv`: the transactions loaded one by one are the first ones of a block without repetition, so the next is one of them; `Genuine`: of all answers only the block asked for passes the checks |
| `CacheEnds` | `Spec => []CacheEndsWithCall` | the cache is there just from the accepted block to the return (`RealInv`) |
| `NothingInvented` | `Spec => []RowsAreReal` | what the cache takes for managed was registered, also when the answer came late; addresses are only added (`RealInv`, `LegsGrow`) |
| `NoDepositLost` | `Spec => []DepositsKept` | `TruthInv`: of each place of the call, which addresses have been denied and which are still to be asked; a transaction that is done is `Settled`: each of its addresses was denied or has its row. A denial is true of all that was known when the call began |
| `ScanIsAtomic` | `Spec => LooksAtomic` | the addresses are what the call was told to be managed and what was managed before it: nothing of them was denied, so `AllRows` gives every row; `PrevoutInv` adds that inputs have their address |

Of the faults, only a failed or late lookup is excused in `NoDepositLost`, and a
lost prevout besides in `ScanIsAtomic`: the inductive invariant makes no claim of
completeness once one of them has happened, and keeps `RealInv` all the same.

`CrossCheckProofs`, for every set of nodes, index, wallets, chains, pools,
anchors and concurrent calls:

| theorem | says | argument |
|---|---|---|
| `TypeCorrect` | `Spec => []TypeOK` | a peer that is asked is one of the pool the call began with |
| `CrossCheckIsAtomic` | `Spec => LooksAtomic` | `CallInv`: a call that is on its way is open; one that is at the hash holds an answer that names the anchor's block, so the block holds the transaction; a denial was true when it was given (`Denies`), or of a node that is not exact. Of the assumptions, that a block has one height decides that an "ok" holds when the hash is read, and that a "no" for want of the right height is true of the chain read last |

`ConnectionsProofs` and `SigningProofs`, for every set of nodes, readers, coins
and every number of loads and drafts:

| theorem | says | argument |
|---|---|---|
| `ClientFound`, `SenderFindsClient` | `~MaySwitch => (Spec => []ReaderFindsClient)` | `IInv`: with one kind of server, from the first success on, the client of that kind is never nil, and what a load would restore is not nil either |
| `ServedStays`, `SenderSettled` | `Spec => []SettledOnServed` | the clients a load found, which it restores, are those of the last success |
| `SignedVerifies` | `Spec => []SignedCanBeVerified` | `CacheInv`: of whatever coins ExtParam holds, it holds the true prevouts, so that comparing coins is enough |
| `SentVerified`, `TakenNamed`, `SigningTyped` | `Spec => []` each property of `Signing` they name | `SignInv`: the hex is unsigned or all of it is good (`HexInv`); whatever was taken of the draft goes by its id, and the id is that of the hex where it matters (`TakenInv`). Two signatures of a witness input give one id, two of a legacy input give two, hence `LegacyPart` |
| `PrecomputedTaken` | `Spec => []PrecomputedIsTaken` | the property says nothing of what is not taken yet. `SameSignatures`: until a draft is signed anew, the precomputed id, the verified hex and whatever was taken of it have the legacy signatures that the raw transaction has now; `DraftInv`: what is taken has signatures, and a new draft is none of those |

`SenderFindsClient` and `SenderSettled` follow from the theorems of `Connections`
because a step of `Signing` is a step of it or leaves its variables alone.

`TxBuildProofs` and `TransferProofs`, for every set of addresses, coins,
payments, deposits, rates, speed-ups and settings, and every `MaxTxs`:

| theorem | says | argument |
|---|---|---|
| `SettledIsShortest` | the loop of `selectUTXOsForPayment` ends with the fewest coins that pay for the payment and for taking them | the cover of an amount grows with it, and a cover that pays for itself is where the loop stands still; no cover shorter than one that was passed over can pay |
| `PaymentsInvariant` | `Spec => []PaymentsInv` | below |
| `PaymentsTyped` | `Spec => []TypeOK` | from `PaymentsInv` and `BooksInv` |
| `FeePaid` | `Spec => []FeeIsWhatIsPaid` | every builder's result is `Balanced`: `CreateBTCTransferFacts`, `SweepFacts`, `SpeedUpFacts`, `CancelFacts` |
| `ChangeFits` | `Spec => []ChangeFitsPayer` | coins are taken in ascending order and the last of them was needed, so the change is less than the last, which is the largest, and goes to its address |
| `ReplacementTaken` | `OmitChangeBelowDust /\ DustLimit >= 31 => (Spec => []ReplacementAccepted)` | the origin is all that conflicts with its replacement, what it spends is there (`LiveInv`), it pays the origin's fee and for its own relay, and with no more outputs than the origin it pays more per byte |
| `OverchargeAlone` | `Spec => []RefusedIfOvercharged` | shares, when written, add up to the payment: those of the greedy rule cover it in order (`GreedyAddsUp`), in those in proportion the last takes the rest (`ProportionalAddsUp`). What the payers give less change is payment and fee, because inputs and outputs can be summed by address (`VinsAddUp`, `OutsSplit`, `NetAddsUp`), so the fees the scanner finds add up too: a positive share no larger than what was given passes all its checks (`FittingReconciles`), and nothing else does (`ReconcilingFits`) |
| `OnePayerBooked` | `Spec => []OnePayerCanBeBooked` | with one payer the share is the whole payment, which is less than what was given by the fee (`NetAddsUp`, `FittingReconciles`) |
| `ManyPayersBooked` | `Spec => [](ProductsFit => PayersWithRoomCanBeBooked)` | if the first address covers the payment it is charged all of it, and by `LeavesRoom` gave as much. Else each is charged in proportion to what it gave, rounded down, and the last the rest. All others' roundings together are less than a satoshi each; of the fee's share of the last, `LeavesRoom` says that it makes up for all but one of them, and whole numbers for that one (`RestFits`, `ProportionOfMany`, `SharesOfMany`) |
| `TwoPayersBooked` | `Spec => [](ProductsFit => TwoPayersCanBeBooked)` | from the former: the change goes to the second address (`ReturnsToLast`), so the first gets nothing back, and with two there is one rounding. Two addresses with a coin each always leave room |
| `BooksFollowChain` | `Spec => []LedgerMatchesChain` | `BooksInv`: of any transaction the `Effect` of its rows on an address is its output less its inputs there, whether or not its order was found right; and a coin is spent by one mined transaction only (`ChainInv`), so that the coins of the chain change by the same |
| `RecipientsServed` | `Spec => []RecipientsGetTheirs` | each payer's part for a recipient is rounded down by less than a satoshi, the last recipient takes what all parts leave; summed over payers the error is at most one for each payer and further recipient, and one for `Tolerance`. `BookedInv`: what was scanned by its order adds up, and no output changes afterwards |

`PaymentsInv` has four parts. `TxsInv`: each transaction balances, spends
distinct coins of earlier transactions, and a replacement has its origin's
inputs and payment, and a fee that pays for its own relay on top. `StatusInv`:
what is mined is the chain, without repetition. `LiveInv`: no two pending or
mined transactions spend a coin, and none spends a coin of one that is gone. It
is what eviction has to keep: `WithDescendants` is shown to be the smallest set
closed under spending, so that taking it out leaves no orphan. `ChainInv`: the
chain spends only what was mined before. None of the properties is inductive
without them: that the books follow the chain needs that a mined coin is not
spent twice, and that needs the mempool's rules from submission on.

`ProductsFit` says that payment times contribution fits an int64;
`transfer_overflow` shows what happens where it does not. It is a condition on
the state and not on the constants, as the code has no limit for it: the
theorem says of every behaviour that up to the first larger product all is
well. `LeavesRoom` is a condition on a payment and excludes what can go wrong:
`transfer_greedy` is a payment that fails its first part, the coins of 8000 and
11200 in section 4.1 one that fails its second and would meet it with 70 for 69.
Most payments meet it: the second part asks of the last address only that its
part of the fee be a satoshi for each address but two.

`TxBuild` sums with `SumFunction` and folds. The library's induction theorems take an
operator as parameter, which the provers cannot instantiate, so `SumProofs` and
`TxBuildProofs` go around them: a fold is the entry of a table that satisfies
its recursion (`TableExists`, `FoldTableExists`); that there is one, and
only one, is shown by a smallest counterexample, for which `SmallestSubset`
uses the well-foundedness of strict subsets. From the recursion follow what the
other proofs need: `SumTakeOut`, `SumUnion`, `SumMonotone`, `SumImage`,
`SumGrouped`, and of the builders' loops `SettledIsTable`, `PayerOrderIsTable`, `SummaryIsTable`.

Only model-checked: liveness, which is out of the prover's reach (`CatchesUp`,
`PriorityServed`, `MinedIsScanned`).

## 6. What is not modelled

* Encodings of addresses, scripts and keys, the mathematics of signatures,
  serialization, and the signature check for hosts (`signverify.go`), which is
  pure: a signature is good or bad here. Views of raw transactions for display.
* HTTP and JSON, the choice among wallet endpoints, redaction of peer URLs, the
  grace `SetVerifyAPIs` grants an old pool (nothing is closed after it).
* `FindTransactionBlockHeight`, `GetBalanceByAddress`, `GetBlockHeaderByHeight`
  and the result of `VerifyTransactionByTxID` only read. `EstimateChildFeeRate`
  and `EstimateFeeRateWithBump` have no caller here.
* Several accounts in one transaction, several outputs to one address.
* Settings other than the kind of server and its URL are constants; a load that
  changes dust limits or the network under a draft is not modelled.
* Memory visibility: locks and atomics are sequentially consistent, as Go's
  memory model grants. The fields of the manager are neither; `Connections`
  takes each assignment as atomic and visible at once, which is what 64-bit
  builds do with pointers.
