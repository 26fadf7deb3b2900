# BitCrystal in TLA+

This directory models the consensus core of BitCrystal 2.0, a descendant of
Bitcoin 0.8: which chain a node follows, what that does to the coins, what
survives a crash, what happens to transactions that are not in the chain yet
and how they are fetched; and, around that core, the wallet's keys and the
table of known peers.  Modules are model-checked with TLC on small instances; the results that
matter most are proved with TLAPS for every value of the constants.

Paths are relative to the repository; the program's own code is in `src/src/`.

## 1. The system

### Components

| Component | Source | State | Operations | What makes it correct |
|---|---|---|---|---|
| Script check queue | `checkqueue.h`, `ThreadScriptCheck` and `ConnectBlock` in `main.cpp` | `queue`, `nIdle`, `nTotal`, `nTodo`, `fAllOk` | `Add`, `Loop`, `Wait`, control's constructor and destructor | the answer is the conjunction of all checks; no check outlives its block; no lost wake-up |
| Ledger rules | `main.h` (`CCoins`, undo), `main.cpp` (`CheckInputs`, `UpdateCoins`, `ConnectBlock`, `DisconnectBlock`) | a coins view | connect, disconnect | no double spend, no inflation, maturity; undo is an exact inverse |
| Block reward | `main.cpp` (`GetBlockValue`) | none | one function | the schedule is the documented one |
| Chain selection | `main.cpp` (`ProcessBlock` ... `SetBestChain`), `init.cpp` | block index, `setBlockIndexValid`, `pnext`, `pindexBest`, orphan blocks | arrival of a block, reorganisation, start, shutdown | most work among the valid chains; invalid chains never; recoverable at every write |
| Coins views | `main.cpp` (`CCoinsViewCache`), `txdb.cpp` | database, global cache, temporary view | get, set, spend, flush, drop | behaves as if there were no caches |
| Memory pool, block assembly | `main.cpp` (`CTxMemPool`, `CreateNewBlock`) | `mapTx`, `mapNextTx` | accept, remove, conflicts, resurrection, template | maps agree; nothing the chain has spent stays; templates connect |
| Orphan transactions | `main.cpp` (`AddOrphanTx`, ..., the `tx` message) | two maps | add, erase, limit, retry | exact index, bounded, nobody missed |
| Wallet | `wallet.cpp`, `wallet.h`, `rpcwallet.cpp`, `keystore.cpp` | transactions, key pool and its records, lock state, relocking threads | reserve, keep, return and top up keys, encrypt, lock, unlock, change the passphrase; coin selection, commit, re-accept | a key is handed out once and never lost; an unlocked wallet is locked again |
| Difficulty | `main.cpp` (`GetNextWorkRequired`, `ComputeMinWork`), `bignum.h` | none | pure functions | bounded retargeting, agreement with the compact form |
| Block files | `main.cpp` (`FindBlockPos`, `FlushBlockFile`) | file table, positions | allocate, write, sync | nothing referenced that was not written, also after loss of power |
| Message processing, connections | `main.cpp` (`ProcessMessages`, `SendMessages`), `net.cpp`, `net.h`, `limitedmap.h` | nodes, `mapAskFor`, `mapAlreadyAskedFor`, inventory | inv, tx, getdata, retries, handshake | every wanted item is asked for again; requests are spaced; buffers bounded |
| Address manager | `addrman.cpp`, `addrman.h` | entries, an index by address, a random order, new and tried buckets, `peers.dat` | add, good, get, evict, save and load | cross references and counts agree; buckets bounded; tried entries are never deleted |
| Alerts, checkpoints | `alert.cpp`, `checkpoints.cpp` | alert map; a table | cancel, expire, relay | |
| Keys, wallet database | `key.cpp`, `crypter.cpp`, `db.cpp`, `walletdb.cpp` | keys, open handles | sign, decrypt, flush | |
| Script, bloom filters, Merkle branches, serialisation | `script.cpp`, `bloom.cpp`, `main.h`, `serialize.h` | none | pure functions | round trips |
| RPC, GUI, translations, vendored code | `bitcoinrpc.cpp`, `rpc*.cpp`, `qt/`, `leveldb/`, `json/`, hash functions | | | presentation, data or third-party |

### How they interact

Almost everything runs under one lock, `cs_main`: message handlers, RPC calls,
miners and the wallet take turns, and a handler is atomic for all of them.
Five things are not covered by that lock, and they are where the model cuts an
operation into steps:

* the script check threads, which work for the thread that holds `cs_main` and
  have their own mutex;
* the disk: a process may end between any two writes, and the block index, the
  undo files and the coins database are written separately;
* interruption points inside a handler (`boost::this_thread`), which unwind a
  thread in the middle of its work;
* loops that hand one transaction at a time to another component (orphans,
  resurrection, the wallet), whose intermediate states the other component's
  rules are applied to;
* the wallet's lock state: commands and the pool hold `cs_wallet`, the threads
  that lock the wallet after a timeout do not, and an object that has reserved
  a key holds nothing at all until it keeps or returns it.

`ConnectBlock` (ledger) reads and writes a temporary coins view, hands its
scripts to the check queue, and is called by `SetBestChain` (chain selection),
which flushes the view into the global cache, the cache into the database, and
then tells the memory pool which transactions to take back and which to
delete.  The memory pool and `CreateNewBlock` read the global cache.
`AlreadyHave` looks into the pool, the orphans and the coins to decide what is
asked of a peer; the `tx` handler's answer settles the request.  Miners and RPC
commands reserve keys from the wallet's pool, which `EncryptWallet` replaces and
the process reads again when it starts.

### What is hard here

Reorganisations that fail half way; undo data that has to be applied in exactly
the opposite order; crashes between writes, with coins that are only in memory
during the initial download; candidates that fail and their descendants; blocks
and transactions that arrive before their parents; cached entries that say
"spent" where the database says "unknown"; transactions put back into the pool
while their children and rivals are in it; counters read without a lock;
shifts wider than a word; peers that are asked and never answer; keys reserved
by threads that die; a wallet that is locked under the hands of a thread that
makes keys; indexes that point into each other.  `PROJECT.json` lists these hazards line by line with
the properties that would catch them.

## 2. Modules and the code they model

`PROJECT.json` maps each definition to its lines.  Definitions whose names end
in `Bug` are mutations used to show that a property can fail.

**ScriptCheckSession / CheckQueue** (`checkqueue.h`).  `ScriptCheckSession` is
what `ConnectBlock` relies on: open, add checks, wait, get one answer that is
true exactly if no check of the session failed, or leave without one.  `CheckQueue`
is the threaded implementation.  A thread is at a program counter; `Enter`/`CleanUp`/`WakeUp`
take the mutex, `Sleep`/`Take`/`Return` release it, `Execute` runs outside it.
The critical section is cut in two because the control's constructor reads the
counters without the mutex.  Spurious wake-ups and interruptions are actions.
Checks are model values, and a script's result is membership in `Valid`.
`Loop(true)` has three callers: `ConnectBlock` (`CallWait`) and the destructor of the
control, when `ConnectBlock` returns early and when an exception unwinds it
(`LeaveEarly`).  An interruption of the first leads to the destructor, which waits
again.  One that reaches the destructor's wait leaves it (`Interrupted`, the master
is then `"thrown"`) or ends the process (`Terminate`: always while another exception
is on its way, and since C++11 in any case).  After that the workers may hold checks of
a block that is gone, whose result is arbitrary (`Verdicts`) or a crash
(`ExecuteDangling`), and the next control finds the counters as they were left; its
assertions (`Unused`) then fail (`Dies`) unless the workers are done by then.

**Coins / Ledger** (`main.h`, `main.cpp`).  `Coins` has no variables: it
defines `UpdateCoins`, `CheckInputs`, `ConnectBlock`, `DisconnectBlock` and
their helpers on transactions that are records of inputs and output values.
`Ledger` applies them to a view in any order a chain of blocks can.  Scripts
and signature counts are left out.

**Subsidy** (`GetBlockValue`).  The reward as a function of the height, with a
shift count taken modulo 64, along a growing chain.

**ChainState** (`main.cpp`, `init.cpp`).  `ProcessBlock` / `ProcessOrphan`
receive a block; `NothingBetter`, `MarkFailedChildren`, `SelectBest` and
`Attach` are the loops of `ConnectBestBlock`; `DisconnectNext`, `ConnectNext`,
`InvalidBlockFound`, `BestFlushed`, `BestCached`, `DiskFull` and `Abort` are
`SetBestChain`; `AcceptOrphan`, `DropOrphan` and `OrphansDone` are the work queue
at the end of `ProcessBlock`; `Start`, `ShutDown`, `Crash`, `CrashWhileMarking`
and `Interrupt` are the environment.  What a block does to the coins is a
parameter (`Connects`, `ConnectedCoins`, `UndoOf`, `DisconnectedCoins`); the
instances checked take it from `Coins`.

**FlatCoins / CoinsView** (`CCoinsViewCache`, `CCoinsViewDB`).  `FlatCoins` is
three complete sets of coins: on disk, current, pending.  `CoinsView` is the
stack of a database and two caches that fetch lazily, keep pruned entries and
ask the layer below for the best block when they have none.

**MemPool** (`CTxMemPool`, the tail of `SetBestChain`,
`CWallet::ReacceptWalletTransactions`, `CreateNewBlock`).  The chain moves
along a tree of blocks that connect; the pool follows, one transaction at a
time.  `Template` is `CreateNewBlock` for one order of the priority queue and
one choice of transactions that fit; sizes and priorities appear only as that
choice, and the fees also go into its `Coinbase`, which takes the whole reward.  The
path that "should never happen" is in it: a transaction with a missing input is left out
(`MissingInputs`), and if it had a parent in the pool before that input (`Recorded`)
`mapDependers` keeps a pointer to a `COrphan` that has been popped (`Dangling`).
`Woken` reads such an object as it was (`stray`) or as another one's; with `-debug` the
node stops at the assertion, and a read of freed memory or beyond the end of a pruned
entry's `vout` (`main.cpp:4349`) may end it too: then no block is made, and otherwise the
value read changes the order alone.  What the ledger guarantees of every chain of blocks that connect is
an assumption on the constants (`ChainAssumption`), which `LedgerProofs` justifies;
`Fork` is where two chains part and `Unchecked` what the wallet may put back without
a look at the inputs.

**OrphanTx** (`AddOrphanTx`, `EraseOrphanTx`, `LimitOrphanTxSize`, the `tx`
message).  The retry loop is taken one orphan at a time.  `silent` is a history
variable: transactions that became known without the handler.

**Requests** (the `inv` and `tx` messages, `AlreadyHave`, the getdata part of
`SendMessages`, `CNode::AskFor`, `limitedmap`).  Time is in ticks of a minute
relative to now, so that only differences matter.  `SendMessages` only tries to take
`cs_main`, which a rescan or a reorganisation may hold for minutes, so that time passes
while requests are due (`Tick`, up to `MaxLate`), and what has fallen due for several
peers may then go out in one pass: `AskFor` spaces the times scheduled, and so does
`RequestsSpaced`.  What `accept` says is open,
and so is which orphans go.  `waiting`, `elapsed` and `lapsed` are history
variables: announcements not settled yet, the time since that of the last request that
went out, and ids whose entry left `mapAlreadyAskedFor` while requests were outstanding.

**KeyPool / WalletLock** (`wallet.cpp`, `keystore.cpp`, `rpcwallet.cpp`).  `KeyPool`
has `setKeyPool`, the pool records of `wallet.dat`, and the `CReserveKey` objects;
an operation is one step, because it holds `cs_wallet`, except that a lock may cut
a top-up short.  `Restart` loses what is only in memory, `EncryptCut` is a crash
between the two halves of `EncryptWallet`.  `WalletLock` adds who locks and unlocks:
`walletpassphrase` and its two threads, `walletlock`, and a passphrase change in
its four steps.  Time is left out: a thread that sleeps may wake at any moment.
History variables: `used` and `reissued` (keys kept; an index given out while held),
`escaped` (a passphrase change unlocked the wallet after the relocking thread
was done).

**AddrMan** (`addrman.cpp`, `addrman.h`).  The object as one record with the
fields of the class.  Times, attempts and random numbers only decide which
entry an eviction takes, so any may be taken; the bucket hashes are constants.
`SelectTried` returns the position from before its swap, as the code does.
`AMRestart` writes `peers.dat` and reads it back: ids are written in ascending order
(`Ascending`, the order of a `std::map`), the new entries first, and numbered afresh.
The two shuffles, `Shuffled` and `Reordered`, are recursive functions over the number
of swaps made.

How they compose:

    Coins ----------> Ledger              its rules on one chain
      |  \----------> MemPool             which transactions may be in a block
      v
    ChainState   (MCChainState gives its parameters the operators of Coins)
      ^    ^
      |    \--------- CoinsView => FlatCoins    why flat coins are enough
      \-------------- CheckQueue => ScriptCheckSession   why a block has one verdict

    KeyPool --------> WalletLock          who locks while the pool is used
    OrphanTx, MemPool  <---->  Requests   each leaves the other's choices open

`Ledger`'s `UndoRestores` and `UtxoExact` are what `ChainState` assumes of its
parameters (`LedgerAssumption`); `CoinsView`'s refinement is why `ChainState` may
treat a view as a plain set of coins that is committed as a whole; the
difference between "spent" and "unknown" that the refinement hides is visible to
one caller, `HaveCoins`, and is `spentCache` in `MemPool`.

## 3. Runs

| Run | Instance | Shows |
|---|---|---|
| `checkqueue` | 2 workers, 4 checks (one fails), batches of up to 2, an interruption of any threads | `NoDanglingChecks`, `QuiescentUnderLock`, refinement of `ScriptCheckSession`, `WaitReturns` |
| `checkqueue_raii` | the same | finding 4 |
| `checkqueue_asserts` | the same without interruption | finding 1 |
| `parts`: Ledger | chains of up to 5 blocks over 6 coinbases and 5 spenders | `UtxoExact`, `NoDoubleSpend`, `CoinbaseMatures`, `NoInflation`, `UndoRestores` |
| `parts`: CoinsView | 2 transactions, 3 values, 2 blocks | refinement of `FlatCoins` |
| `parts`: OrphanTx | 6 transactions, a limit of 3 | index exact, nobody missed |
| `parts`: AddrMan | 4 addresses from 2 sources, 2 new buckets of 1, a tried bucket of 2, up to 5 entries made | indexes, tables and counts agree, buckets bounded, `ReloadFaithful`, `TriedNeverDeleted` |
| `ledger_bip30` | Ledger with repeated coinbases | finding 2 |
| `chain` | 7 blocks on three branches: one that fails half way, a refused and a light block, orphans | coins, undo data, marks, links and work, with crashes and failures at every step; `ValidSetExact`, `MostWork`, `NoStrandedOrphan`, `CallEnds` |
| `mempool` | 14 blocks on three branches, 9 loose transactions | the maps agree, nothing that was checked conflicts with the chain, templates connect, nothing leaves without cause |
| `mempool_inputs` | the same | finding 5 |
| `requests` | a transaction, a peer that answers and a silent one, a retry interval of 2, requests up to 2 minutes late | `RequestsSpaced`, `Fetched` |
| `wallet` | 2 holders, 2 relocking threads, a pool of 1, up to 4 keys | keys are neither lost nor used twice, `RelockPending` |
| `wallet_relock` | the same | finding 6 |
| `subsidy` | 100000 blocks | finding 3 |

`parts` checks four sequential components with safety properties only in one run of TLC.
They share no variable, and each moves only while the other three are in their
initial states, so that the run has exactly the states and steps of the four side by side.
Their symbols have prefixes (`CV`, `OT`, `AM`) for that.

What the passing runs except is what the runs of findings show.  `NoDanglingChecks`,
`QuiescentUnderLock` and `SessionSpec` speak of controls that were left in order, not of
one whose destructor was interrupted (`"thrown"`): then the guarantee is broken
(finding 4), and what is left to say is that it is broken in no other way.  `WaitReturns`
excepts nothing.  In the same way `RelockPending` says that the race of finding 6
(`escaped`) is the only way for a wallet to stay unlocked, and `TemplateConnects` that
blocks connect in the states of finding 5 too, if one is made.

The type invariants are proved (section 4) and mostly not run again.  That of `Ledger`
is part of `UtxoExact`, that of `AddrMan` part of `IndexesExact`.

`NoChainConflict` leaves out the transactions that hang on one the wallet put back.
`accept` with `fCheckInputs = false` takes a transaction that is in the chain already;
once the chain has spent all its outputs and the cache is written, `CCoinsViewMemPool`
finds no coins for it, turns to the pool and shows the outputs as unspent, so that
another spender of them is accepted and stays.  Block templates leave it out, because
its parent cannot be connected again (`TemplateConnects`).

### Why the bounds are enough

* *Check queue.*  Two workers are needed for one to sleep while the other
  works; with four checks the first thread takes a batch of two and leaves some
  in the queue; one call of `interrupt_all` reaches a worker that dies in `cond.wait` and a
  master that is unwound into the destructor, or out of it when it was left early.  Safety is proved for all values.
* *Ledger.*  Five blocks with a maturity of two let a coinbase mature, be spent,
  and be restored by a reorganisation.  The spenders contain one transaction
  with two inputs from one parent (the undo order), a chain inside one block, a
  double spend, one that pays more than it takes, and coinbases that claim one
  or two fees.  Proved for all blocks, heights and reward schedules.
* *Chain.*  The tree has a branch that fails after one block (so that a
  reorganisation stops between blocks) and has a block above the failing one, one
  with more work than the first, a refused block, one that is spam when it comes
  as an orphan, and real undo data.  Safety is proved for every tree.
* *Memory pool.*  A transaction with a child, a rival, one with two parents, one
  that spends a coinbase which a reorganisation removes, one that is not
  standard, and a branch shorter than the one it replaces (more work per
  block), so that maturity can be lost.  `sweep` spends all of `chg`, which the
  wallet may put back, and `late` spends an output of it again.  The genesis block's
  coinbase is not in the coins.  Proved for every tree.
* *Coins views.*  The layers only compare and copy entries; two transactions and
  two blocks tell a stale value from a fresh one.  The refinement is proved for
  all values.
* *Orphans.*  Six transactions with a diamond (an orphan with two parents), an
  invalid and a large one, and a limit below the number of orphans.  Proved for
  all values.
* *Requests.*  With an interval of 2, times up to 2 ahead and up to 2 late, three
  requests for a transaction can be there at once, at a peer that answers and at one that
  does not, and two of them be due together; both can be announced to again, answer late
  and disconnect.  Ids only meet in the limit of `mapAlreadyAskedFor`, which is `Overflow`,
  so that one is enough.  `RequestsSpaced` is proved for all values.
* *Wallet.*  A pool size of 1 makes a pool of up to two free keys, so that two
  holders can empty it and a third request tops it up while both are held; four
  keys allow encryption after that.  Two timers let one find the time set or
  cleared by the other; the race of finding 6 needs one.  Safety is proved for all values.
* *Addresses.*  With one place per new bucket each addition evicts; three
  addresses fill the tried bucket of two and one is evicted to a bucket that may
  be full; an address can be in two buckets.  Five ids with four addresses allow
  one to be deleted and come back.
* *Subsidy.*  The bound passes height 92160, where the shift count reaches 64.

`MaxInterrupts`, `MaxHeight`, `MaxKeys`, `MaxIds`, `MaxAhead`, `MaxLate` and the constants above are the only bounds;
no state constraint is used.

### Fairness

* `checkqueue`: strong fairness of the steps of each thread inside `Loop`.
  Weak fairness of the threads is what a scheduler gives; strong fairness is
  needed for the mutex, which spurious wake-ups of other threads could otherwise
  take again and again.  Nothing is assumed of the caller: a master need not
  open a session or call `Wait`, and nobody has to be interrupted.
* `chain`: weak fairness of the steps of the thread that holds `cs_main`.
  Blocks need not arrive, and crashes need not happen.
* `requests`: weak fairness of `SendMessages` for each peer and of the answers of
  the peers that answer; `ThreadMessageHandler` comes to every peer each 100 ms, and
  nobody keeps `cs_main` for ever.
  Strong fairness of `Tick`, because new announcements may make something due
  again and again, but time passes all the same.  Nothing is assumed of the
  other peers.
* `wallet_relock`: weak fairness of the commands that hold `cs_wallet`, of the start and
  the sleep of each relocking thread, and of the restart of a process that an
  uncaught exception ended.  Nobody has to use the pool or to unlock the wallet.

Deadlock is checked except in `mempool` (the node may be at the last block of
the tree with nothing to accept) and `subsidy` (the chain ends at its bound).

## 4. Proofs

| Theorem | States | Inductive invariant |
|---|---|---|
| `CheckQueueProofs!TypeCorrect`, `NoDangling`, `Quiescent` | `TypeOK`, `NoDanglingChecks`, `QuiescentUnderLock` | `nTodo` is the number of pending checks; `nTotal` exceeds `nIdle` by the threads awake inside `Loop`; each check is in one place; what `fAllOk` and each `fOk` say of the checks done so far |
| `CheckQueueProofs!ImplementsSession` | `SessionSpec` | the same |
| `ChainStateProofs!TypeCorrect`, `CoinsConsistent`, `CrashSafe`, `CandidatesExact`, `FailureSound`, `OnlyValidChains` | `TypeOK`, `CoinsMatchTip`, `Recoverable`, `ValidSetExact`, `FailedSound`, `MainBranchValid` | layers `Typed` and `Sound` |
| `ChainStateProofs!LinksExact`, `WorkRises` | `MainChainLinks`, `WorkNeverDecreases` | `Rising`: the blocks to attach lie on one chain above the best block |
| `ChainStateProofs!BestChain`, `OrphansServed` | `MostWork`, `NoStrandedOrphan` | `Choice`: every known block is settled (no more work than the best one, or a failed ancestor), except the one being accepted |
| `CoinsViewProofs!TypeCorrect`, `ImplementsFlat` | `CVTypeOK`, `FlatSpec` | `CVTypeOK` |
| `LedgerProofs!UtxoIsExact`, `NothingSpentTwice`, `CoinbasesMature`, `DisconnectInverts`, `UniqueCoinbasesNeverOverwrite` | `UtxoExact`, `NoDoubleSpend`, `CoinbaseMatures`, `UndoRestores`, `NoOverwrite` | `LInv`: every view on the way to the tip was exact for its chain, and every block leads back to the view before it |
| `LedgerProofs!NothingFromNothing` | `NoInflation` | `VInv`: every view on the way was worth no more than the subsidies up to it |
| `MemPoolProofs!IndexExact` | `NextTxExact` | itself; all it needs of `accept` is the conflict test |
| `MemPoolProofs!PoolTyped`, `PoolFitsChain`, `NothingLeavesInVain` | `TypeOK`, `NoChainConflict`, `LeavesForCause` | `PoolInv`: what the loops have left to do (`Loops`), and that a checked transaction competes with the chain only through a parent that is in the pool (`Checked`) |
| `MemPoolProofs!TemplatesConnect` | `TemplateConnects` | `PoolInv` for the pool and `Sane` for the loop that fills the block: ConnectBlock on a new view has come as far with the same fees and a view that agrees with the template's (`Joined`), and that view has no output the chain has spent (`Spent`) |
| `OrphanTxProofs!TypeCorrect`, `IndexExact`, `NoneMissed`, `Bounded` | `OTTypeOK`, `OrphanIndexExact`, `OrphansRetried`, `OrphansBounded` | `Promised`: an orphan that could be accepted is about to be erased, or waits under an id in the work queue |
| `WalletProofs!TypeCorrect`, `RecordsAreExact`, `KeysUsedOnce`, `KeysNotLost` | `TypeOK`, `RecordsExact`, `KeyUsedOnce`, `KeyNotLost` | these, with `Backed` (a record whose index is not free belongs to an object that holds its key) and `Holding` |
| `WalletProofs!ImplementsPool`, `KeysSafe` | `WalletLock` implements `KeyPool`, so these hold of the composition | the same |
| `WalletProofs!RelockUnderWay` | `RelockPending` | `Armed`: a set unlock time has a sleeping thread; `Pending`: `RelockPending` also inside a passphrase change that will not lock |
| `NetProofs!AreSpaced` | `RequestsSpaced` | `RInv`: while an entry is in `mapAlreadyAskedFor`, all times scheduled are at or before it (`Counted`) and apart (`AllApart`); those left are apart from the last one that went out (`Clear`), which the entry remembers for an interval (`Recent`) |
| `NetProofs!IndexesStayExact`, `TablesStayExact`, `BucketsStayBounded`, `ReloadsStayFaithful`, `TriedStayKnown` | `IndexesExact`, `TablesExact`, `BucketsBounded`, `ReloadFaithful`, `TriedNeverDeleted` | `Sound`: the first three together, stated so that each part can be carried through an operation alone (`Found`, `Listed`, `InTried`, `InNew`, `Tallied`, `Small`), and every id is below `nIdCount` |

Why the strengthenings are needed.  `QuiescentUnderLock` says nothing of threads
that are awake; that the counters agree when the master returns rests on how
far they differ at every other moment, and after an interrupted destructor too: a control
that follows it is only made when its assertions hold, and they imply that nothing is left.  `Recoverable` speaks of the chain on
disk only; that undo data is right there rests on it being right for every
block it was ever written for, because a later flush may adopt any of them.
`MostWork` holds between calls; during a call the new block is the one exception,
and the candidate with the most work is among the blocks left to attach.
`NoStrandedOrphan` needs that an orphan with a known parent is still ahead in the
work queue.  `OrphansRetried` needs the exact index, without which the visit under
the head of the queue could miss an orphan.  `UndoRestores` speaks of the tip; after it is gone
the block below must come off as well, so `LInv` keeps the claim for every height,
and its proof for one block rests on the view being exact: the undo entry that
carries height and coinbase flag is the one of the last output to be spent, whatever
the order of the inputs.  In the middle of `SetBestChain` the pool still holds what the
new branch confirmed; `Checked` says that until `vDelete` is worked off every conflict
has a parent in the pool that the loop has not come to, and `Settled` that the blocks
below the fork do not depend on those above it.  `TemplateConnects` speaks of a
finished block; the view of the loop and that of `ConnectBlock` differ in the coinbase
alone, which was not in the first when its transactions were checked.  That no transaction of
the chain is in the block follows from the view: its inputs are spent, the first one to
be taken would have to find them, and only a transaction taken before could have put them
there.  So the template is right even where the pool is not.  `RequestsSpaced` is about times that are left
and the last one used; when one goes out late others are due as well, so that it
needs all of them to be apart from the first on, not only from the last one sent.

For the address manager none of the three table invariants is inductive without the others.
`ShrinkNew` takes the erased entry out of `vRandom` by the position it stores, so the
indexes stay right only if those positions are; whether an entry is erased at all depends on
its count being exact; and the comment "there is certainly place there" in `MakeTried` is
true because the entry that leaves the bucket was in it (`nOrigin`) and buckets were
bounded before.  In the middle of `Add_` an entry has a count and no bucket yet;
`ExactWith(t, N)` is the invariant for the tables `N` the step is about to write, and
`Insertion` carries it over the making of room and the insertion.  The shuffles are carried
by the least-number principle (`ShuffleArranged`, `ReorderSound`): each swap keeps a
bucket an arrangement of the same entries, and keeps positions and `vRandom` inverse.
`ReloadSound` rests on the rank of an id among the ids of its kind (`RankOnce`, `RankAll`):
it numbers the new entries `0..nNew-1` and the tried ones from `nNew` on, one to one, so
the numbers written in the buckets are those the reader gives the entries.

What the recursive functions of `Coins` compute is proved by the least-number
principle (`Least`, from the well-foundedness of `<` on the naturals): a function with
the defining equation exists for every length, the claim holds at 0, and the least
index at which it fails has a predecessor at which it holds.  Sums over sets of
transactions (`FoldFunctionOnSet`) are treated the same way over the size of the set
(`Smallest`), which makes them independent of the order in which `CHOOSE` takes the
elements (`SumPick`).  One block is then a balance (`Balanced`): what its transactions
left in the view and in fees was there before or is paid by the coinbase.

Assumptions.  `ThreadsAssumption`, `FiniteAssumption`, `BoundsAssumption`
(CheckQueue): the threads are distinct and finite in number.  `TreeAssumption`,
`WorkAssumption` (ChainState): blocks form a tree, work rises along it, and a
non-empty set of blocks has one with the most work.  `LedgerAssumption`
(ChainState): connecting a block that passes and disconnecting it with its undo
data gives back the coins before it.  This is `Ledger`'s `UndoRestores`, proved as
`DisconnectInverts`, and like it presumes that no coinbase occurs twice in a chain
(finding 2).  `LedgerAssumption` (Ledger): a hash identifies its transaction and there
are finitely many; the theorems about `Ledger` assume `UniqueCoinbases`, without which
finding 2 refutes them, and derive from it that no transaction occurs twice.
`NothingFromNothing` also assumes `RewardPlusFees`: the reward is a subsidy, with the
fees or without; `RewardSchedule` proves it of `Subsidy`'s `GetBlockValue`.
`PathAssumption` and `ChainAssumption` (MemPool): the blocks are a tree, work does not
fall along it, and in each chain transactions are in it once and after those they spend
from, no output is spent twice and none that is spent is available, which is
`UtxoExact` and `NoDoubleSpend` of `Ledger`.  `CoinsAssumption` (MemPool): a hash identifies
its transaction, there are finitely many, a new coinbase is none of them, and the coins are
of transactions of the chain, again part of `UtxoExact`.  `TemplatesConnect` also assumes
`RewardIsNat`, that the reward is a natural number, which `RewardSchedule` shows of `Subsidy`.
`PoolAssumption` (MemPool), `CoinsViewAssumption`, `OrphanAssumption`,
`KeyPoolAssumption`, `RequestsAssumption` and `AddrManAssumption` say what the constants are.  TLC evaluates all of them in the runs.

Only model-checked: liveness (`WaitReturns`, `CallEnds`, `Fetched`), which
is outside what the installed provers do; every invariant and
action property of the passing runs has a theorem.

## 5. Findings

1. *`checkqueue_asserts`* (`checkqueue.h:167`).  The control's constructor asserts
   `nTotal == nIdle` without the mutex.  A worker that starts, or that was
   notified too late and finds the queue empty, changes the two counters one
   after the other inside its critical section, and a control made in between
   fails the assertion.  `QuiescentUnderLock` shows that it holds when read
   under the mutex.
2. *`ledger_bip30`* (`main.cpp:1669`).  The comment says that blocks which
   overwrite unspent transactions are refused.  The test is made only for block
   templates, never for a received block.
3. *`subsidy`* (`main.cpp:1111`).  From height 92160 on the reward is shifted
   by 64 or more; the schedule starts again from 9766 coins.

4. *`checkqueue_raii`* (`checkqueue.h:188`).  The control "guarantees the passed queue
   is finished before continuing".  When `ConnectBlock` returns early and its thread
   is interrupted in the destructor's wait, the exception leaves the destructor while
   workers still run checks that point into the block and its view.
5. *`mempool_inputs`* (`main.cpp:734`, `4322`).  "All transactions in the memory pool
   should connect to either transactions in the chain or other transactions in the memory
   pool", says `CreateNewBlock` and asserts it with `-debug`.  A transaction whose block is
   disconnected is not taken back while its spent entry is still cached; its child stays
   in the pool, and when the cache has been written the child's input is nowhere.
   The wallet's transactions, which are put into the pool without a look at their inputs, are
   not counted.
6. *`wallet_relock`* (`wallet.cpp:114`).  `walletpassphrase` "stores the wallet decryption
   key in memory for <timeout> seconds".  A passphrase change that found the wallet
   unlocked unlocks it again after the relocking thread has locked it and ended, and
   nothing locks it any more.

Two more disagreements have no run.  `rpcwallet.cpp:2056` tells the user of
`encryptwallet` that "The keypool has been flushed": a key that was reserved at that moment
can return to the pool (`NewKeyPool`, `ReturnKey`), and a crash between the commit and
`NewKeyPool` (`EncryptCut`) leaves the whole old pool on offer.  `addrman.h:115-116` and
`210` say that `SelectTried` returns the position of the entry to evict, with a bias for
the less recently tried: it returns the position from before its swap (`f[k]` in
`MakeTried`), where another entry is by then.

Seen on the way, and no findings, because nothing in the repository promises otherwise:
every transaction accepted by the handler leaves an empty entry in
`mapOrphanTransactionsByPrev`; a top-up may give out an index that is still reserved;
after `cs_main` was held for minutes several peers may be asked for a transaction at once.

## 6. What is not modelled, and the plan

Left out for good: hash functions, LevelDB, JSON and other vendored code; the
GUI, option parsing, logging and RPC formatting; sockets; signatures and the
script interpreter's stack machine (its result is a Boolean).  The `.ts` files
under `src/src/qt/locale` are Qt Linguist catalogues of translated messages, XML
data without state or control; there is nothing in them a module could model.
The program is the C++ code, and every definition maps to that.

Inside modelled components: `-reindex` and `-loadblock`, the transaction index,
signature-operation limits, fees and the rate limit of free transactions, the
disabled replacement of pool transactions, the `nBestInvalidWork` warning; what
the `inv` and `tx` handlers do to announce transactions to other peers
(`setInventoryKnown`, `vInventoryToSend`, `mapRelay`), blocks as inventory;
`AddReserveKey`, which nothing calls; a `WriteBlockIndex` that fails in
`AddToBlockIndex` (`main.cpp:1997`); the clock test of `CheckBlock` (`main.cpp:2148`), which
`ConnectBlock` runs again and which could fail there only if the clock was set back
(`Connects` does not depend on time); the error returns of `ChangeWalletPassphrase`
after it has unlocked (`wallet.cpp:143-146`), which need a failure of the crypto library;
locking and unlocking from the GUI.

Order of the work, most important behaviour first:

1. Done: `CheckQueue`, `Coins`, `Ledger`, `ChainState`, `CoinsView`, `MemPool`,
   `OrphanTx`, `Subsidy`, `Requests`, `KeyPool`, `WalletLock`, `AddrMan`, and the proofs
   above.
2. Theorems about the next modules, with their first runs; every invariant and action
   property of today's is proved.
3. `BlockStore`: `FindBlockPos`, `FindUndoPos`, `FlushBlockFile` and the order of
   syncs, with loss of power (what was not synced may be gone), as a refinement
   of the index and undo data of `ChainState`.
4. `Difficulty`: `GetNextWorkRequired`, `ComputeMinWork` and the compact form of
   targets; the bound on one retarget.
5. `Net`: connection slots, `nRefCount` and the deletion of nodes; announcements
   and `ProcessGetData`.
6. Coin selection and commitment in the wallet.
7. Pure algorithms against reference definitions: `CompressAmount`, the partial
   Merkle tree, `mruset`; alerts and their cancellation.
