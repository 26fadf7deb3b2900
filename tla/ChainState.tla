----------------------------- MODULE ChainState -----------------------------
(***************************************************************************)
(* How a node chooses its chain: ProcessBlock, AcceptBlock,                *)
(* AddToBlockIndex, ConnectBestBlock, SetBestChain and InvalidBlockFound   *)
(* of src/src/main.cpp, with the coins cache, the databases, crashes,      *)
(* shutdown and the start-up of src/src/init.cpp.                          *)
(*                                                                         *)
(* The handlers run under cs_main, so that one runs at a time; they are    *)
(* cut into steps because a crash or an interruption may come between two  *)
(* writes.  What a block does to the coins is a parameter (Connects ...    *)
(* DisconnectedCoins), given by the module Coins in the instances checked. *)
(* Writes of the block index, of undo data and of the coins database       *)
(* survive a crash of the process; loss of power is not considered here.   *)
(***************************************************************************)
EXTENDS Naturals, FiniteSets

CONSTANTS Blocks, Genesis, NoBlock,
          prev,          \* [Blocks -> parent], NoBlock for Genesis
          nChainWork,    \* [Blocks and NoBlock -> total work], 0 for NoBlock
          Chain,         \* [Blocks and NoBlock -> the block and its ancestors]
          Rejected,      \* blocks that AcceptBlock's contextual tests refuse
          Spam,          \* blocks too light to be taken when off the best chain
          NoUndo,
          Connects(_, _),              \* ConnectBlock(b) succeeds on a view
          ConnectedCoins(_, _),        \* the view it leaves
          UndoOf(_, _),                \* the undo data it writes
          DisconnectedCoins(_, _, _),  \* DisconnectBlock(b) with undo data
          \* What replaying the whole tree gives:
          CoinsAt,       \* [Blocks and NoBlock -> coins after that block]
          UndoAt,        \* [Blocks but Genesis -> undo data of that block]
          Good           \* the blocks that connect to the coins of their parent

Nodes == Blocks \cup {NoBlock}

ASSUME TreeAssumption ==
  /\ NoBlock \notin Blocks /\ Genesis \in Blocks
  /\ prev \in [Blocks -> Nodes] /\ \A b \in Blocks : prev[b] = NoBlock <=> b = Genesis
  /\ nChainWork \in [Nodes -> Nat] /\ nChainWork[NoBlock] = 0
  /\ \A b \in Blocks : nChainWork[prev[b]] < nChainWork[b]
  /\ Chain \in [Nodes -> SUBSET Blocks] /\ Chain[NoBlock] = {}
  /\ \A b \in Blocks : Chain[b] = Chain[prev[b]] \cup {b}
  /\ \A b \in Blocks : \A a \in Chain[b] : Chain[a] \subseteq Chain[b] /\ nChainWork[a] <= nChainWork[b]
  /\ \A b \in Blocks : \A x, y \in Chain[b] : x \in Chain[y] \/ y \in Chain[x]

\* A set of blocks has one with the most work (there are finitely many).
ASSUME WorkAssumption ==
  \A S \in SUBSET Blocks : S # {} => \E b \in S : \A c \in S : nChainWork[c] <= nChainWork[b]

\* The coins of a block are those of its parent with the block connected, and
\* its undo data takes them back: for blocks without repeated transaction
\* hashes this is what Ledger checks of ConnectBlock and DisconnectBlock.
ASSUME LedgerAssumption ==
  /\ Good = {b \in Blocks : b = Genesis \/ Connects(b, CoinsAt[prev[b]])}
  /\ CoinsAt[Genesis] = CoinsAt[NoBlock]
  /\ \A b \in Blocks \ {Genesis} :
        LET c == CoinsAt[prev[b]] IN
        /\ Connects(b, c) \in BOOLEAN
        /\ UndoOf(b, c) = UndoAt[b]
        /\ Connects(b, c) => /\ ConnectedCoins(b, c) = CoinsAt[b]
                             /\ DisconnectedCoins(b, CoinsAt[b], UndoAt[b]) = c

VARIABLES
  \* block index, in memory and in the block tree database alike
  nStatus,             \* [Blocks -> set of flags]; {} when not in mapBlockIndex
  undo,                \* [Blocks -> undo data in the rev files]
  \* memory
  setBlockIndexValid, pindexBest, pnext, mapOrphanBlocks,
  tip, coins,          \* pcoinsTip: best block and coins
  \* coins database
  dbTip, dbCoins,
  \* the call in progress
  pc,
  accepting,           \* the block AcceptBlock works on; NoBlock during start-up
  vWorkQueue,          \* blocks whose orphans ProcessBlock still has to look at
  vAttach, target,     \* of ConnectBestBlock and of SetBestChain
  viewTip, view,       \* the temporary view of SetBestChain
  fDisturbed           \* a call was interrupted or aborted since the start

index  == <<nStatus, undo>>
memory == <<setBlockIndexValid, pindexBest, pnext, mapOrphanBlocks, tip, coins>>
db     == <<dbTip, dbCoins>>
call   == <<accepting, vWorkQueue, vAttach, target, viewTip, view>>
vars   == <<index, memory, db, pc, call, fDisturbed>>

Flags == {"TRANSACTIONS", "SCRIPTS", "UNDO", "FAILED_VALID", "FAILED_CHILD"}

IsFailed(b) == nStatus[b] \cap {"FAILED_VALID", "FAILED_CHILD"} # {}
mapBlockIndex == {b \in Blocks : nStatus[b] # {}}

\* A node that was never started.
Init == /\ nStatus = [b \in Blocks |-> {}] /\ undo = [b \in Blocks |-> NoUndo]
        /\ setBlockIndexValid = {} /\ pindexBest = NoBlock
        /\ pnext = [b \in Blocks |-> NoBlock] /\ mapOrphanBlocks = {}
        /\ tip = NoBlock /\ coins = CoinsAt[NoBlock]
        /\ dbTip = NoBlock /\ dbCoins = CoinsAt[NoBlock]
        /\ pc = "down" /\ accepting = NoBlock /\ vWorkQueue = {}
        /\ vAttach = {} /\ target = NoBlock /\ viewTip = NoBlock /\ view = CoinsAt[NoBlock]
        /\ fDisturbed = FALSE

\* The temporary view is gone.
DropView == viewTip' = NoBlock /\ view' = CoinsAt[NoBlock] /\ target' = NoBlock

-----------------------------------------------------------------------------
(* Start and stop.                                                         *)

\* The pnext pointers of the chain that ends in b.
Links(b) == [x \in Blocks |-> IF \E y \in Chain[b] : prev[y] = x
                              THEN CHOOSE y \in Chain[b] : prev[y] = x ELSE NoBlock]

\* LoadBlockIndexDB: which indexed blocks may become the best one.
Loadable == {b \in mapBlockIndex : ~IsFailed(b)}

\* AppInit2: LoadBlockIndexDB, InitBlockIndex (which adds the genesis block to an
\* empty index), VerifyDB (see Recoverable), then ConnectBestBlock.
Start == /\ pc = "down"
         /\ nStatus' = IF nStatus[Genesis] = {} THEN [nStatus EXCEPT ![Genesis] = {"TRANSACTIONS"}]
                                                ELSE nStatus
         /\ setBlockIndexValid' = Loadable \cup (mapBlockIndex' \ mapBlockIndex)
         /\ pindexBest' = dbTip /\ pnext' = Links(dbTip)
         /\ tip' = dbTip /\ coins' = dbCoins
         /\ mapOrphanBlocks' = {}
         /\ pc' = "best" /\ accepting' = NoBlock /\ vWorkQueue' = {}
         /\ fDisturbed' = FALSE
         /\ UNCHANGED <<undo, db, vAttach, target, viewTip, view>>

\* Nothing in memory survives (the values left behind are arbitrary but fixed).
ForgetMemory == /\ setBlockIndexValid' = {} /\ pindexBest' = NoBlock
                /\ pnext' = [b \in Blocks |-> NoBlock] /\ mapOrphanBlocks' = {}
                /\ tip' = NoBlock /\ coins' = CoinsAt[NoBlock]
                /\ pc' = "down" /\ accepting' = NoBlock /\ vWorkQueue' = {} /\ vAttach' = {}
                /\ fDisturbed' = FALSE
                /\ DropView

Crash == pc # "down" /\ ForgetMemory /\ UNCHANGED <<index, db>>

\* Shutdown(): pcoinsTip->Flush(), between two calls or after a failed start.
ShutDown == /\ pc \in {"idle", "failed"}
            /\ dbTip' = tip /\ dbCoins' = coins
            /\ ForgetMemory /\ UNCHANGED index

-----------------------------------------------------------------------------
(* Blocks arrive.                                                          *)

\* AcceptBlock stores the block and AddToBlockIndex enters it in the index and
\* among the candidates; ConnectBestBlock follows.
AddToBlockIndex(b) == /\ nStatus' = [nStatus EXCEPT ![b] = {"TRANSACTIONS"}]
                      /\ setBlockIndexValid' = setBlockIndexValid \cup {b}
                      /\ accepting' = b
                      /\ pc' = "best"

\* ProcessBlock of a new block whose parent is known.
ProcessBlock(b) == /\ pc = "idle"
                   /\ b \notin mapBlockIndex \cup mapOrphanBlocks
                   /\ b \in Spam => prev[b] = pindexBest
                   /\ prev[b] \in mapBlockIndex /\ b \notin Rejected
                   /\ AddToBlockIndex(b)
                   /\ UNCHANGED <<undo, pindexBest, pnext, mapOrphanBlocks, tip, coins, db,
                                  vWorkQueue, vAttach, target, viewTip, view, fDisturbed>>

\* ProcessBlock of a block whose parent is unknown.
ProcessOrphan(b) == /\ pc = "idle"
                    /\ b \notin mapBlockIndex \cup mapOrphanBlocks
                    /\ b \in Spam => prev[b] = pindexBest
                    /\ prev[b] \notin mapBlockIndex /\ b # Genesis
                    /\ mapOrphanBlocks' = mapOrphanBlocks \cup {b}
                    /\ UNCHANGED <<index, setBlockIndexValid, pindexBest, pnext, tip, coins, db,
                                   pc, call, fDisturbed>>

\* The orphans that ProcessBlock's loop looks at: children of accepted blocks.
Unlocked == {o \in mapOrphanBlocks : prev[o] \in vWorkQueue}

\* One orphan: AcceptBlock.  (The order of the children of one block follows the
\* multimap and is left open.)
Refused(o) == o \in Rejected \/ o \in mapBlockIndex

AcceptOrphan(o) == /\ pc = "orphans" /\ o \in Unlocked /\ ~Refused(o)
                   /\ AddToBlockIndex(o)
                   /\ UNCHANGED <<undo, pindexBest, pnext, mapOrphanBlocks, tip, coins, db,
                                  vWorkQueue, vAttach, target, viewTip, view, fDisturbed>>

DropOrphanBug(o) == /\ pc = "orphans" /\ o \in Unlocked /\ Refused(o)
                    /\ UNCHANGED vars
DropOrphan(o) == /\ pc = "orphans" /\ o \in Unlocked /\ Refused(o)
                 /\ mapOrphanBlocks' = mapOrphanBlocks \ {o}
                 /\ UNCHANGED <<index, setBlockIndexValid, pindexBest, pnext, tip, coins, db,
                                pc, call, fDisturbed>>

OrphansDone == /\ pc = "orphans" /\ Unlocked = {}
               /\ pc' = "idle" /\ vWorkQueue' = {}
               /\ UNCHANGED <<index, memory, db, accepting, vAttach, target, viewTip, view, fDisturbed>>

\* Where control goes when ConnectBestBlock returns fOk to AcceptBlock: to the
\* orphans, unless the block ProcessBlock was called with is refused.  A block
\* that does not become the best one unlocks its orphans as well.
ContinueAfterBug(fOk) == IF vWorkQueue # {} \/ (fOk /\ pindexBest = accepting) THEN "orphans" ELSE "idle"
ContinueAfter(fOk) == IF vWorkQueue # {} \/ fOk THEN "orphans" ELSE "idle"

\* ConnectBestBlock returns.  At start-up (accepting = NoBlock) a failure is an
\* InitError, after which the process shuts down.
ReturnBest(fOk) ==
  /\ accepting' = NoBlock /\ vAttach' = {} /\ DropView
  /\ pc' = IF accepting # NoBlock THEN ContinueAfter(fOk) ELSE IF fOk THEN "idle" ELSE "failed"
  /\ vWorkQueue' = IF accepting # NoBlock /\ fOk THEN vWorkQueue \cup {accepting} ELSE vWorkQueue
  /\ mapOrphanBlocks' = mapOrphanBlocks \ {accepting}

-----------------------------------------------------------------------------
(* ConnectBestBlock.                                                       *)

\* The last element of setBlockIndexValid; equal work is ordered by hash, which
\* is left open.
MostWorkCandidates == {b \in setBlockIndexValid :
                         \A c \in setBlockIndexValid : nChainWork[c] <= nChainWork[b]}

Better == {b \in MostWorkCandidates : nChainWork[b] # nChainWork[pindexBest]}

NothingBetter == /\ pc = "best" /\ Better = {}
                 /\ ReturnBest(TRUE)
                 /\ UNCHANGED <<index, setBlockIndexValid, pindexBest, pnext, tip, coins, db, fDisturbed>>

\* The blocks the ancestry check of candidate b looks at: down to the first one
\* with a pnext pointer, or to the genesis block.
Ancestry(b) == {a \in Chain[b] : \A y \in Chain[b] \ Chain[a] : pnext[y] = NoBlock}

\* f is the first failed block the check of candidate b meets.
FirstFailed(b, f) == /\ f \in Ancestry(b) /\ IsFailed(f)
                     /\ \A y \in Chain[b] \ Chain[f] : ~IsFailed(y)

WithFailedChildren(S) == [x \in Blocks |-> IF x \in S THEN nStatus[x] \cup {"FAILED_CHILD"} ELSE nStatus[x]]

\* Its descendants below the candidate are marked, and the next candidate is
\* tried.  (Were b itself failed, nothing would change and the loop not end.)
MarkFailedChildren(b, f) ==
  /\ pc = "best" /\ b \in Better /\ FirstFailed(b, f)
  /\ nStatus' = WithFailedChildren(Chain[b] \ Chain[f])
  /\ setBlockIndexValid' = setBlockIndexValid \ (Chain[b] \ Chain[f])
  /\ UNCHANGED <<undo, pindexBest, pnext, mapOrphanBlocks, tip, coins, db, pc, call, fDisturbed>>

\* The marks are written one by one from b downwards; a crash after x.
CrashWhileMarking(b, f, x) ==
  /\ pc = "best" /\ b \in Better /\ FirstFailed(b, f) /\ x \in Chain[b] \ Chain[f]
  /\ nStatus' = WithFailedChildren(Chain[b] \ Chain[prev[x]])
  /\ ForgetMemory /\ UNCHANGED <<undo, db>>

SelectBestBug(b) ==
  /\ pc = "best" /\ b \in Better /\ \A a \in Ancestry(b) : ~IsFailed(a)
  /\ vAttach' = Ancestry(b)
  /\ pc' = "attach"
  /\ UNCHANGED <<index, memory, db, accepting, vWorkQueue, target, viewTip, view, fDisturbed>>
SelectBest(b) ==
  /\ pc = "best" /\ b \in Better /\ \A a \in Ancestry(b) : ~IsFailed(a)
  /\ vAttach' = {a \in Ancestry(b) : nChainWork[a] > nChainWork[pindexBest]}
  /\ pc' = "attach"
  /\ UNCHANGED <<index, memory, db, accepting, vWorkQueue, target, viewTip, view, fDisturbed>>

\* The blocks to attach are made the best one in turn, from the lowest.
AttachBug(a) ==
  /\ pc = "attach" /\ a \in vAttach
  /\ \A c \in vAttach : nChainWork[a] <= nChainWork[c]
  /\ target' = a /\ vAttach' = {}
  /\ viewTip' = tip /\ view' = coins
  /\ pc' = "disconnect"
  /\ UNCHANGED <<index, memory, db, accepting, vWorkQueue, fDisturbed>>
Attach(a) ==
  /\ pc = "attach" /\ a \in vAttach
  /\ \A c \in vAttach : nChainWork[a] <= nChainWork[c]
  /\ target' = a /\ vAttach' = vAttach \ {a}
  /\ viewTip' = tip /\ view' = coins
  /\ pc' = "disconnect"
  /\ UNCHANGED <<index, memory, db, accepting, vWorkQueue, fDisturbed>>

AllAttached == /\ pc = "attach" /\ vAttach = {}
               /\ ReturnBest(TRUE)
               /\ UNCHANGED <<index, setBlockIndexValid, pindexBest, pnext, tip, coins, db, fDisturbed>>

\* The interruption point of that loop: the thread (a miner's, or any when the
\* node is about to stop) leaves ProcessBlock.  The main thread, which runs the
\* start-up, is never interrupted.
Interrupt == /\ pc = "attach" /\ vAttach # {} /\ accepting # NoBlock
             /\ pc' = "idle" /\ accepting' = NoBlock /\ vWorkQueue' = {} /\ vAttach' = {}
             /\ fDisturbed' = TRUE
             /\ UNCHANGED <<index, memory, db, target, viewTip, view>>

-----------------------------------------------------------------------------
(* SetBestChain(target).                                                   *)

\* Disconnect the shorter branch, from the tip of the view to the fork.
DisconnectNext ==
  /\ pc = "disconnect" /\ viewTip \notin Chain[target] \cup {NoBlock}
  /\ "UNDO" \in nStatus[viewTip]
  /\ view' = DisconnectedCoins(viewTip, view, undo[viewTip])
  /\ viewTip' = prev[viewTip]
  /\ UNCHANGED <<index, memory, db, pc, accepting, vWorkQueue, vAttach, target, fDisturbed>>

AtFork == /\ pc = "disconnect" /\ viewTip \in Chain[target] \cup {NoBlock}
          /\ pc' = "connect"
          /\ UNCHANGED <<index, memory, db, call, fDisturbed>>

\* The block of the longer branch that ConnectBlock takes next.
NextToConnectBug(b) == pc = "connect" /\ b = target /\ viewTip # target
NextToConnect(b) == pc = "connect" /\ b \in Chain[target] /\ prev[b] = viewTip /\ viewTip # target

\* The genesis block's transactions are not connected.
ConnectGenesis ==
  /\ NextToConnect(Genesis)
  /\ viewTip' = Genesis
  /\ UNCHANGED <<index, memory, db, pc, accepting, vWorkQueue, vAttach, target, view, fDisturbed>>

\* The undo data is written the first time; the status says that scripts hold.
WriteUndoBug(b) == undo[b]
WriteUndo(b) == IF "UNDO" \in nStatus[b] THEN undo[b] ELSE UndoOf(b, view)

ConnectedStatus(b) == (nStatus[b] \ {"TRANSACTIONS"}) \cup {"SCRIPTS", "UNDO"}

ConnectNextBug(b) ==
  /\ NextToConnect(b) /\ b # Genesis
  /\ view' = ConnectedCoins(b, view) /\ viewTip' = b
  /\ undo' = [undo EXCEPT ![b] = WriteUndo(b)]
  /\ nStatus' = [nStatus EXCEPT ![b] = ConnectedStatus(b)]
  /\ UNCHANGED <<memory, db, pc, accepting, vWorkQueue, vAttach, target, fDisturbed>>
ConnectNext(b) ==
  /\ NextToConnect(b) /\ b # Genesis /\ Connects(b, view)
  /\ view' = ConnectedCoins(b, view) /\ viewTip' = b
  /\ undo' = [undo EXCEPT ![b] = WriteUndo(b)]
  /\ nStatus' = [nStatus EXCEPT ![b] = ConnectedStatus(b)]
  /\ UNCHANGED <<memory, db, pc, accepting, vWorkQueue, vAttach, target, fDisturbed>>

\* InvalidBlockFound.  (It would reorganise away from b if b had a pnext pointer;
\* MainBranchValid shows that such a block never fails.)
StillCandidatesBug(b) == setBlockIndexValid
StillCandidates(b) == setBlockIndexValid \ {b}

InvalidBlockFoundBug(b) ==
  /\ NextToConnect(b) /\ b # Genesis /\ ~Connects(b, view)
  /\ nStatus' = [nStatus EXCEPT ![b] = @ \cup {"FAILED_VALID"}]
  /\ setBlockIndexValid' = StillCandidates(b)
  /\ ReturnBest(FALSE)
  /\ coins' = view
  /\ UNCHANGED <<undo, pindexBest, pnext, tip, db, fDisturbed>>
InvalidBlockFound(b) ==
  /\ NextToConnect(b) /\ b # Genesis /\ ~Connects(b, view)
  /\ nStatus' = [nStatus EXCEPT ![b] = @ \cup {"FAILED_VALID"}]
  /\ setBlockIndexValid' = StillCandidates(b)
  /\ ReturnBest(FALSE)
  /\ UNCHANGED <<undo, pindexBest, pnext, tip, coins, db, fDisturbed>>

\* pcoinsTip takes the view over ...
FlushView == pc = "connect" /\ viewTip = target /\ tip' = target /\ coins' = view

\* ... and the memory structures follow.
NewLinksBug == [x \in Blocks |->
  IF \E y \in Chain[tip] \ Chain[target] : prev[y] = x THEN NoBlock
  ELSE IF \E y \in Chain[target] \ Chain[tip] : prev[y] = x
  THEN CHOOSE y \in Chain[target] \ Chain[tip] : prev[y] = x
  ELSE pnext[x]]
NewLinks == [x \in Blocks |->
  IF \E y \in Chain[target] \ Chain[tip] : prev[y] = x
  THEN CHOOSE y \in Chain[target] \ Chain[tip] : prev[y] = x
  ELSE IF \E y \in Chain[tip] \ Chain[target] : prev[y] = x THEN NoBlock
  ELSE pnext[x]]

NewBest ==
  /\ pnext' = NewLinks
  /\ pindexBest' = target
  /\ pc' = "attach" /\ DropView

\* With the cache written to the database, or kept (initial block download).
BestFlushed == /\ FlushView /\ NewBest
               /\ dbTip' = target /\ dbCoins' = view
               /\ UNCHANGED <<index, setBlockIndexValid, mapOrphanBlocks, accepting, vWorkQueue,
                              vAttach, fDisturbed>>

BestCached == /\ FlushView /\ NewBest
              /\ UNCHANGED <<index, setBlockIndexValid, mapOrphanBlocks, db, accepting, vWorkQueue,
                             vAttach, fDisturbed>>

\* The disk is full: pcoinsTip is ahead of pindexBest when SetBestChain returns.
DiskFull == /\ FlushView /\ ReturnBest(FALSE)
            /\ fDisturbed' = TRUE
            /\ UNCHANGED <<index, setBlockIndexValid, pindexBest, pnext, db>>

\* A block cannot be read, or its undo data not be written: SetBestChain gives up
\* without a mark, and the temporary view is dropped.
Abort == /\ pc \in {"disconnect", "connect"} /\ viewTip # target
         /\ ReturnBest(FALSE)
         /\ fDisturbed' = TRUE
         /\ UNCHANGED <<index, setBlockIndexValid, pindexBest, pnext, tip, coins, db>>

-----------------------------------------------------------------------------
Step == \/ \E b \in Blocks : AcceptOrphan(b) \/ DropOrphan(b)
        \/ OrphansDone
        \/ NothingBetter \/ AllAttached
        \/ \E b \in Better : SelectBest(b) \/ \E f \in Chain[b] : MarkFailedChildren(b, f)
        \/ \E b \in vAttach : Attach(b)
        \/ DisconnectNext \/ AtFork
        \/ ConnectGenesis
        \/ \E b \in Blocks : ConnectNext(b) \/ InvalidBlockFound(b)
        \/ BestFlushed \/ BestCached

Next == \/ Start \/ ShutDown
        \/ \E b \in Blocks : ProcessBlock(b) \/ ProcessOrphan(b)
        \/ Step
        \/ Crash \/ \E b \in Better : \E f, x \in Chain[b] : CrashWhileMarking(b, f, x)
        \/ Interrupt \/ DiskFull \/ Abort

Spec == Init /\ [][Next]_vars

\* The thread that holds cs_main goes on.
FairSpec == Spec /\ WF_vars(Step)

-----------------------------------------------------------------------------
(* Properties.                                                             *)

\* Every block of the chain that ends in b connects.
ValidChain(b) == Chain[b] \subseteq Good

\* Types; a block has one level of validity (BLOCK_VALID_MASK).
TypeOK ==
  /\ nStatus \in [Blocks -> SUBSET Flags]
  /\ \A b \in Blocks : "SCRIPTS" \in nStatus[b] => "TRANSACTIONS" \notin nStatus[b]
  /\ undo = [b \in Blocks |-> undo[b]]
  /\ setBlockIndexValid \in SUBSET Blocks /\ mapOrphanBlocks \in SUBSET Blocks
  /\ pindexBest \in Nodes /\ tip \in Nodes /\ dbTip \in Nodes /\ viewTip \in Nodes
  /\ target \in Nodes /\ accepting \in Nodes
  /\ pnext \in [Blocks -> Nodes]
  /\ vWorkQueue \in SUBSET Blocks /\ vAttach \in SUBSET Blocks
  /\ pc \in {"down", "failed", "idle", "orphans", "best", "attach", "disconnect", "connect"}
  /\ fDisturbed \in BOOLEAN

\* The coins cache, the coins database and the temporary view always hold the
\* coins of the chain that ends in their best block: SetBestChain moves coins and
\* best block together, through every failed reorganisation, crash and full disk.
CoinsMatchTip == /\ coins = CoinsAt[tip] /\ dbCoins = CoinsAt[dbTip]
                 /\ view = CoinsAt[viewTip]

\* At every point where the process may end, the databases pass VerifyDB at the
\* next start: each block of the chain in the coins database is indexed as
\* valid and its undo data is the one that takes it back.
Recoverable == \A b \in Chain[dbTip] \ {Genesis} :
                 /\ nStatus[b] = {"SCRIPTS", "UNDO"}
                 /\ undo[b] = UndoAt[b]

\* "must contain those who aren't failed" (the comment of setBlockIndexValid), and
\* no others, so that ConnectBestBlock's loop comes to an end.
ValidSetExact == pc # "down" => setBlockIndexValid = {b \in mapBlockIndex : ~IsFailed(b)}

\* A block is only marked failed if it, or an ancestor of it, does not connect.
FailedSound == \A b \in Blocks : IsFailed(b) => ~ValidChain(b)

\* Only chains that connect as a whole are ever made the best one, in memory or
\* on disk; a block with a pnext pointer has such a chain.
MainBranchValid == /\ ValidChain(tip) /\ ValidChain(dbTip) /\ ValidChain(pindexBest)
                   /\ \A b \in Blocks : pnext[b] # NoBlock => ValidChain(b)

\* Unless a call was cut short, pnext points along the best chain and nowhere
\* else, and the coins cache is at the best block.
MainChainLinks == ~fDisturbed => tip = pindexBest /\ pnext = Links(pindexBest)

\* Unless a call was cut short, the best block of an idle node has the most work
\* of all blocks it knows whose chains connect.
MostWork == pc = "idle" /\ ~fDisturbed =>
              \A b \in mapBlockIndex : ValidChain(b) => nChainWork[b] <= nChainWork[pindexBest]

\* Unless a call was cut short, an orphan that waits for a known parent has a
\* failed ancestor: ProcessBlock unlocks every other orphan.
NoStrandedOrphan == pc = "idle" /\ ~fDisturbed =>
                      \A o \in mapOrphanBlocks : prev[o] \in mapBlockIndex => ~ValidChain(prev[o])

\* While the process runs, its best block only ever gives way to one with more
\* work, whatever reorganisations fail on the way.
WorkNeverDecreases ==
  [][pc # "down" /\ pc' # "down" => \/ pindexBest' = pindexBest
                                    \/ nChainWork[pindexBest'] > nChainWork[pindexBest]]_vars

\* Every call of ProcessBlock, and every start-up, comes to an end.
CallEnds == pc \notin {"down", "failed", "idle"} ~> pc \in {"down", "failed", "idle"}
=============================================================================
