-------------------------- MODULE ChainStateProofs --------------------------
(***************************************************************************)
(* Proofs about ChainState, for every tree of blocks.  The inductive       *)
(* invariant IInv is built in layers, each proved on top of those before:  *)
(*   Typed    types, and what the call in progress has set up;             *)
(*   Sound    coins, undo data, failure marks and candidates mean what     *)
(*            they should;                                                 *)
(*   MainChainLinks, Rising                                                *)
(*            pnext follows the best chain, and attaching only adds work;  *)
(*   Choice   no known valid block is left out of the choice.              *)
(* The proof of each layer has one step per action.                        *)
(***************************************************************************)
EXTENDS ChainState, TLAPS

\* What the call in progress has set up at each point of its control.
Control ==
  /\ pc \in {"down", "failed", "idle", "orphans"} => accepting = NoBlock /\ vAttach = {}
  /\ accepting = NoBlock /\ pc # "orphans" => vWorkQueue = {}
  /\ pc \in {"down", "failed", "idle"} => vWorkQueue = {}
  /\ pc \notin {"disconnect", "connect"} => target = NoBlock /\ viewTip = NoBlock /\ view = CoinsAt[NoBlock]
  /\ pc \in {"disconnect", "connect"} => target \in Blocks

Typed == TypeOK /\ Control

\* The candidates are blocks.
LEMMA BetterBlocks == TypeOK => Better \subseteq Blocks /\ vAttach \subseteq Blocks
BY DEF TypeOK, Better, MostWorkCandidates

\* The part of the assumptions that types need.
LEMMA TreeTypes == /\ NoBlock \notin Blocks /\ Genesis \in Blocks /\ NoBlock \in Nodes /\ Blocks \subseteq Nodes
                   /\ prev \in [Blocks -> Nodes] /\ Chain \in [Nodes -> SUBSET Blocks]
BY TreeAssumption DEF Nodes

\* The first layer holds before the first start ...
LEMMA TypedInit == Init => Typed
<1> SUFFICES ASSUME Init PROVE Typed
  OBVIOUS
<1> USE TreeAssumption DEF Init, Nodes
<1>1. nStatus \in [Blocks -> SUBSET Flags] /\ undo = [b \in Blocks |-> undo[b]]
  BY DEF Flags
<1>2. TypeOK
  BY <1>1 DEF TypeOK
<1>3. Control
  BY DEF Control
<1> QED
  BY <1>2, <1>3 DEF Typed

\* ... and every step of the node keeps it.
LEMMA TypedNext == Typed /\ [Next]_vars => Typed'
<1> SUFFICES ASSUME Typed, [Next]_vars PROVE Typed'
  OBVIOUS
<1> USE TreeTypes DEF Typed, TypeOK, Control, Flags, Nodes, index, memory, db, call
<1>1. CASE Start
  <2>1. nStatus' \in [Blocks -> SUBSET Flags]
    BY <1>1 DEF Start
  <2>2. \A b \in Blocks : "SCRIPTS" \in nStatus'[b] => "TRANSACTIONS" \notin nStatus'[b]
    BY <1>1 DEF Start
  <2>3. setBlockIndexValid' \in SUBSET Blocks
    BY <1>1 DEF Start, mapBlockIndex, Loadable
  <2>4. pnext' \in [Blocks -> Nodes]
    BY <1>1 DEF Start, Links
  <2> QED
    BY <1>1, <2>1, <2>2, <2>3, <2>4 DEF Start
<1>2. CASE ShutDown
  BY <1>2 DEF ShutDown, ForgetMemory, DropView
<1>3. ASSUME NEW b \in Blocks, ProcessBlock(b) PROVE Typed'
  BY <1>3 DEF ProcessBlock, AddToBlockIndex
<1>4. ASSUME NEW b \in Blocks, ProcessOrphan(b) PROVE Typed'
  BY <1>4 DEF ProcessOrphan
<1>5. ASSUME NEW b \in Blocks, AcceptOrphan(b) PROVE Typed'
  BY <1>5 DEF AcceptOrphan, AddToBlockIndex
<1>6. ASSUME NEW b \in Blocks, DropOrphan(b) PROVE Typed'
  BY <1>6 DEF DropOrphan
<1>7. CASE OrphansDone
  BY <1>7 DEF OrphansDone
<1>8. CASE NothingBetter
  BY <1>8 DEF NothingBetter, ReturnBest, ContinueAfter, DropView
<1>9. CASE AllAttached
  BY <1>9 DEF AllAttached, ReturnBest, ContinueAfter, DropView
<1>10. ASSUME NEW b \in Better, SelectBest(b) PROVE Typed'
  BY <1>10, BetterBlocks DEF SelectBest, Ancestry
<1>11. ASSUME NEW b \in Better, NEW f \in Chain[b], MarkFailedChildren(b, f) PROVE Typed'
  BY <1>11, BetterBlocks DEF MarkFailedChildren, WithFailedChildren
<1>12. ASSUME NEW b \in vAttach, Attach(b) PROVE Typed'
  BY <1>12 DEF Attach
<1>13. CASE DisconnectNext
  BY <1>13 DEF DisconnectNext
<1>14. CASE AtFork
  BY <1>14 DEF AtFork
<1>15. CASE ConnectGenesis
  BY <1>15 DEF ConnectGenesis, NextToConnect
<1>16. ASSUME NEW b \in Blocks, ConnectNext(b) PROVE Typed'
  <2>0. undo' = [c \in Blocks |-> undo'[c]]
    BY <1>16 DEF ConnectNext
  <2>1. nStatus' \in [Blocks -> SUBSET Flags]
    BY <1>16 DEF ConnectNext, ConnectedStatus
  <2>2. \A c \in Blocks : "SCRIPTS" \in nStatus'[c] => "TRANSACTIONS" \notin nStatus'[c]
    BY <1>16 DEF ConnectNext, ConnectedStatus
  <2> QED
    BY <1>16, <2>0, <2>1, <2>2 DEF ConnectNext, NextToConnect
<1>17. ASSUME NEW b \in Blocks, InvalidBlockFound(b) PROVE Typed'
  <2>1. nStatus' \in [Blocks -> SUBSET Flags]
    BY <1>17 DEF InvalidBlockFound
  <2>2. \A c \in Blocks : "SCRIPTS" \in nStatus'[c] => "TRANSACTIONS" \notin nStatus'[c]
    BY <1>17 DEF InvalidBlockFound
  <2>3. setBlockIndexValid' \in SUBSET Blocks
    BY <1>17 DEF InvalidBlockFound, StillCandidates
  <2>4. Control'
    BY <1>17 DEF InvalidBlockFound, NextToConnect, ReturnBest, ContinueAfter, DropView
  <2> QED
    BY <1>17, <2>1, <2>2, <2>3, <2>4 DEF InvalidBlockFound, ReturnBest, ContinueAfter, DropView
<1>18. CASE BestFlushed
  BY <1>18 DEF BestFlushed, FlushView, NewBest, NewLinks, DropView
<1>19. CASE BestCached
  BY <1>19 DEF BestCached, FlushView, NewBest, NewLinks, DropView
<1>20. CASE Crash
  BY <1>20 DEF Crash, ForgetMemory, DropView
<1>21. ASSUME NEW b \in Better, NEW f \in Chain[b], NEW x \in Chain[b], CrashWhileMarking(b, f, x)
       PROVE Typed'
  <2>1. nStatus' \in [Blocks -> SUBSET Flags]
    BY <1>21 DEF CrashWhileMarking, WithFailedChildren
  <2>2. \A c \in Blocks : "SCRIPTS" \in nStatus'[c] => "TRANSACTIONS" \notin nStatus'[c]
    BY <1>21 DEF CrashWhileMarking, WithFailedChildren
  <2> QED
    BY <1>21, <2>1, <2>2 DEF CrashWhileMarking, ForgetMemory, DropView
<1>22. CASE Interrupt
  BY <1>22 DEF Interrupt
<1>23. CASE DiskFull
  BY <1>23 DEF DiskFull, FlushView, ReturnBest, ContinueAfter, DropView
<1>24. CASE Abort
  BY <1>24 DEF Abort, ReturnBest, ContinueAfter, DropView
<1>25. CASE UNCHANGED vars
  BY <1>25 DEF vars
<1> QED
  BY <1>1, <1>2, <1>3, <1>4, <1>5, <1>6, <1>7, <1>8, <1>9, <1>10, <1>11, <1>12, <1>13, <1>14, <1>15,
     <1>16, <1>17, <1>18, <1>19, <1>20, <1>21, <1>22, <1>23, <1>24, <1>25 DEF Next, Step
-----------------------------------------------------------------------------
\* Chain[x] is known and connects; its undo data is on disk.
Tested(x) == \A b \in Chain[x] : /\ b \in Good /\ nStatus[b] # {}
                                 /\ b # Genesis => "SCRIPTS" \in nStatus[b] /\ "UNDO" \in nStatus[b]

\* The index is closed under parents and holds what the call works on.
Indexed == /\ \A b \in mapBlockIndex : Chain[b] \subseteq mapBlockIndex
           /\ vAttach \subseteq mapBlockIndex /\ vWorkQueue \subseteq mapBlockIndex
           /\ target # NoBlock => target \in mapBlockIndex
           /\ accepting # NoBlock => accepting \in mapBlockIndex

\* Undo data, once written, is right for the rest of the block's life.
UndoExact == \A b \in Blocks : "UNDO" \in nStatus[b] => b # Genesis /\ undo[b] = UndoAt[b]

\* Every best block the node holds on to has a tested chain.
AllTested == Tested(tip) /\ Tested(dbTip) /\ Tested(viewTip) /\ Tested(pindexBest)

\* A pnext pointer, even a stale one, leaves from a valid chain.
LinksValid == \A b \in Blocks : pnext[b] # NoBlock => ValidChain(b)

Sound == Indexed /\ UndoExact /\ AllTested /\ CoinsMatchTip /\ LinksValid /\ FailedSound /\ ValidSetExact

\* The second layer holds before the first start ...
LEMMA SoundInit == Init => Sound
<1> SUFFICES ASSUME Init PROVE Sound
  OBVIOUS
<1> QED
  BY TreeAssumption DEF Init, Sound, Indexed, UndoExact, AllTested, Tested, CoinsMatchTip,
     LinksValid,
     FailedSound, ValidSetExact, mapBlockIndex, IsFailed

\* No block, no chain.
LEMMA ChainNone == Chain[NoBlock] = {}
BY TreeAssumption

\* ... and every step keeps it: ConnectBlock and DisconnectBlock work on the coins
\* of viewTip, and only a block that does not connect to them gets a mark.
LEMMA SoundNext == Typed /\ Sound /\ [Next]_vars => Sound'
<1> SUFFICES ASSUME TypeOK, Control, Indexed, UndoExact, AllTested, CoinsMatchTip, LinksValid, FailedSound,
                    ValidSetExact, [Next]_vars
             PROVE  Sound'
  BY DEF Sound, Typed
<1> USE TreeTypes DEF index, memory, db, call
<1>1. CASE Start
  <2>1. Indexed'
    BY <1>1, TreeAssumption DEF Start, Indexed, mapBlockIndex, Control
  <2>2. UndoExact'
    BY <1>1 DEF Start, UndoExact
  <2>3. AllTested'
    BY <1>1 DEF Start, AllTested, Tested
  <2>4. CoinsMatchTip'
    BY <1>1 DEF Start, CoinsMatchTip
  <2>5. LinksValid'
    BY <1>1, TreeAssumption DEF Start, LinksValid, ValidChain, Links, AllTested, Tested, Nodes,
       TypeOK
  <2>6. FailedSound'
    BY <1>1 DEF Start, FailedSound, IsFailed, ValidChain
  <2>7. ValidSetExact'
    BY <1>1 DEF Start, ValidSetExact, mapBlockIndex, IsFailed, Loadable
  <2> QED
    BY <2>1, <2>2, <2>3, <2>4, <2>5, <2>6, <2>7 DEF Sound
<1>2. CASE ShutDown
  <2>1. Indexed'
    BY <1>2 DEF ShutDown, ForgetMemory, DropView, Indexed, mapBlockIndex
  <2>2. UndoExact'
    BY <1>2 DEF ShutDown, ForgetMemory, DropView, UndoExact
  <2>3. AllTested'
    BY <1>2, ChainNone DEF ShutDown, ForgetMemory, DropView, AllTested, Tested
  <2>4. CoinsMatchTip'
    BY <1>2 DEF ShutDown, ForgetMemory, DropView, CoinsMatchTip
  <2>5. LinksValid'
    BY <1>2 DEF ShutDown, ForgetMemory, DropView, LinksValid, ValidChain
  <2>6. FailedSound'
    BY <1>2 DEF ShutDown, ForgetMemory, DropView, FailedSound, IsFailed, ValidChain
  <2>7. ValidSetExact'
    BY <1>2 DEF ShutDown, ForgetMemory, DropView, ValidSetExact, mapBlockIndex, IsFailed
  <2> QED
    BY <2>1, <2>2, <2>3, <2>4, <2>5, <2>6, <2>7 DEF Sound
<1>3. ASSUME NEW b \in Blocks, ProcessBlock(b) PROVE Sound'
  <2>1. Indexed'
    BY <1>3, TreeAssumption DEF ProcessBlock, AddToBlockIndex, Indexed, mapBlockIndex, TypeOK,
       Control
  <2>2. UndoExact'
    BY <1>3 DEF ProcessBlock, AddToBlockIndex, UndoExact, TypeOK
  <2>3. AllTested'
    BY <1>3 DEF ProcessBlock, AddToBlockIndex, AllTested, Tested, TypeOK, mapBlockIndex
  <2>4. CoinsMatchTip'
    BY <1>3 DEF ProcessBlock, AddToBlockIndex, CoinsMatchTip
  <2>5. LinksValid'
    BY <1>3 DEF ProcessBlock, AddToBlockIndex, LinksValid, ValidChain
  <2>6. FailedSound'
    BY <1>3 DEF ProcessBlock, AddToBlockIndex, FailedSound, IsFailed, ValidChain, TypeOK
  <2>7. ValidSetExact'
    BY <1>3 DEF ProcessBlock, AddToBlockIndex, ValidSetExact, mapBlockIndex, IsFailed, TypeOK
  <2> QED
    BY <2>1, <2>2, <2>3, <2>4, <2>5, <2>6, <2>7 DEF Sound
<1>4. ASSUME NEW b \in Blocks, ProcessOrphan(b) PROVE Sound'
  <2>1. Indexed'
    BY <1>4 DEF ProcessOrphan, Indexed, mapBlockIndex
  <2>2. UndoExact'
    BY <1>4 DEF ProcessOrphan, UndoExact
  <2>3. AllTested'
    BY <1>4 DEF ProcessOrphan, AllTested, Tested
  <2>4. CoinsMatchTip'
    BY <1>4 DEF ProcessOrphan, CoinsMatchTip
  <2>5. LinksValid'
    BY <1>4 DEF ProcessOrphan, LinksValid, ValidChain
  <2>6. FailedSound'
    BY <1>4 DEF ProcessOrphan, FailedSound, IsFailed, ValidChain
  <2>7. ValidSetExact'
    BY <1>4 DEF ProcessOrphan, ValidSetExact, mapBlockIndex, IsFailed
  <2> QED
    BY <2>1, <2>2, <2>3, <2>4, <2>5, <2>6, <2>7 DEF Sound
<1>5. ASSUME NEW b \in Blocks, AcceptOrphan(b) PROVE Sound'
  <2>1. Indexed'
    BY <1>5, TreeAssumption DEF AcceptOrphan, Refused, Unlocked, AddToBlockIndex, Indexed,
       mapBlockIndex, TypeOK, Control
  <2>2. UndoExact'
    BY <1>5 DEF AcceptOrphan, Refused, Unlocked, AddToBlockIndex, UndoExact, TypeOK
  <2>3. AllTested'
    BY <1>5 DEF AcceptOrphan, Refused, Unlocked, AddToBlockIndex, AllTested, Tested, TypeOK,
       mapBlockIndex
  <2>4. CoinsMatchTip'
    BY <1>5 DEF AcceptOrphan, Refused, Unlocked, AddToBlockIndex, CoinsMatchTip
  <2>5. LinksValid'
    BY <1>5 DEF AcceptOrphan, Refused, Unlocked, AddToBlockIndex, LinksValid, ValidChain
  <2>6. FailedSound'
    BY <1>5 DEF AcceptOrphan, Refused, Unlocked, AddToBlockIndex, FailedSound, IsFailed,
       ValidChain, TypeOK
  <2>7. ValidSetExact'
    BY <1>5 DEF AcceptOrphan, Refused, Unlocked, AddToBlockIndex, ValidSetExact, mapBlockIndex,
       IsFailed, TypeOK
  <2> QED
    BY <2>1, <2>2, <2>3, <2>4, <2>5, <2>6, <2>7 DEF Sound
<1>6. ASSUME NEW b \in Blocks, DropOrphan(b) PROVE Sound'
  <2>1. Indexed'
    BY <1>6 DEF DropOrphan, Indexed, mapBlockIndex
  <2>2. UndoExact'
    BY <1>6 DEF DropOrphan, UndoExact
  <2>3. AllTested'
    BY <1>6 DEF DropOrphan, AllTested, Tested
  <2>4. CoinsMatchTip'
    BY <1>6 DEF DropOrphan, CoinsMatchTip
  <2>5. LinksValid'
    BY <1>6 DEF DropOrphan, LinksValid, ValidChain
  <2>6. FailedSound'
    BY <1>6 DEF DropOrphan, FailedSound, IsFailed, ValidChain
  <2>7. ValidSetExact'
    BY <1>6 DEF DropOrphan, ValidSetExact, mapBlockIndex, IsFailed
  <2> QED
    BY <2>1, <2>2, <2>3, <2>4, <2>5, <2>6, <2>7 DEF Sound
<1>7. CASE OrphansDone
  <2>1. Indexed'
    BY <1>7 DEF OrphansDone, Indexed, mapBlockIndex
  <2>2. UndoExact'
    BY <1>7 DEF OrphansDone, UndoExact
  <2>3. AllTested'
    BY <1>7 DEF OrphansDone, AllTested, Tested
  <2>4. CoinsMatchTip'
    BY <1>7 DEF OrphansDone, CoinsMatchTip
  <2>5. LinksValid'
    BY <1>7 DEF OrphansDone, LinksValid, ValidChain
  <2>6. FailedSound'
    BY <1>7 DEF OrphansDone, FailedSound, IsFailed, ValidChain
  <2>7. ValidSetExact'
    BY <1>7 DEF OrphansDone, ValidSetExact, mapBlockIndex, IsFailed
  <2> QED
    BY <2>1, <2>2, <2>3, <2>4, <2>5, <2>6, <2>7 DEF Sound
<1>8. CASE NothingBetter
  <2>1. Indexed'
    BY <1>8 DEF NothingBetter, ReturnBest, DropView, Indexed, mapBlockIndex, Control
  <2>2. UndoExact'
    BY <1>8 DEF NothingBetter, ReturnBest, DropView, UndoExact
  <2>3. AllTested'
    BY <1>8, ChainNone DEF NothingBetter, ReturnBest, DropView, AllTested, Tested
  <2>4. CoinsMatchTip'
    BY <1>8 DEF NothingBetter, ReturnBest, DropView, CoinsMatchTip
  <2>5. LinksValid'
    BY <1>8 DEF NothingBetter, ReturnBest, DropView, LinksValid, ValidChain
  <2>6. FailedSound'
    BY <1>8 DEF NothingBetter, ReturnBest, DropView, FailedSound, IsFailed, ValidChain
  <2>7. ValidSetExact'
    BY <1>8 DEF NothingBetter, ReturnBest, DropView, ValidSetExact, mapBlockIndex, IsFailed
  <2> QED
    BY <2>1, <2>2, <2>3, <2>4, <2>5, <2>6, <2>7 DEF Sound
<1>9. CASE AllAttached
  <2>1. Indexed'
    BY <1>9 DEF AllAttached, ReturnBest, DropView, Indexed, mapBlockIndex
  <2>2. UndoExact'
    BY <1>9 DEF AllAttached, ReturnBest, DropView, UndoExact
  <2>3. AllTested'
    BY <1>9, ChainNone DEF AllAttached, ReturnBest, DropView, AllTested, Tested
  <2>4. CoinsMatchTip'
    BY <1>9 DEF AllAttached, ReturnBest, DropView, CoinsMatchTip
  <2>5. LinksValid'
    BY <1>9 DEF AllAttached, ReturnBest, DropView, LinksValid, ValidChain
  <2>6. FailedSound'
    BY <1>9 DEF AllAttached, ReturnBest, DropView, FailedSound, IsFailed, ValidChain
  <2>7. ValidSetExact'
    BY <1>9 DEF AllAttached, ReturnBest, DropView, ValidSetExact, mapBlockIndex, IsFailed
  <2> QED
    BY <2>1, <2>2, <2>3, <2>4, <2>5, <2>6, <2>7 DEF Sound
<1>10. ASSUME NEW b \in Better, SelectBest(b) PROVE Sound'
  <2>1. Indexed'
    BY <1>10 DEF SelectBest, Indexed, mapBlockIndex, Ancestry, Better, MostWorkCandidates,
       ValidSetExact
  <2>2. UndoExact'
    BY <1>10 DEF SelectBest, UndoExact
  <2>3. AllTested'
    BY <1>10 DEF SelectBest, AllTested, Tested
  <2>4. CoinsMatchTip'
    BY <1>10 DEF SelectBest, CoinsMatchTip
  <2>5. LinksValid'
    BY <1>10 DEF SelectBest, LinksValid, ValidChain
  <2>6. FailedSound'
    BY <1>10 DEF SelectBest, FailedSound, IsFailed, ValidChain
  <2>7. ValidSetExact'
    BY <1>10 DEF SelectBest, ValidSetExact, mapBlockIndex, IsFailed
  <2> QED
    BY <2>1, <2>2, <2>3, <2>4, <2>5, <2>6, <2>7 DEF Sound
<1>11. ASSUME NEW b \in Better, NEW f \in Chain[b], MarkFailedChildren(b, f) PROVE Sound'
  <2>a. b \in mapBlockIndex /\ Chain[b] \subseteq mapBlockIndex /\ b \in Blocks
    BY <1>11 DEF Better, MostWorkCandidates, ValidSetExact, Indexed, mapBlockIndex,
       MarkFailedChildren
  <2>b. /\ \A c \in Blocks : nStatus[c] \subseteq nStatus'[c] /\ (nStatus'[c] # {} => nStatus[c] # {})
        /\ \A c \in Blocks : "UNDO" \in nStatus'[c] => "UNDO" \in nStatus[c]
        /\ mapBlockIndex' = mapBlockIndex
    BY <1>11, <2>a DEF MarkFailedChildren, WithFailedChildren, TypeOK, mapBlockIndex
  <2>c. ASSUME NEW c \in Chain[b] \ Chain[f] PROVE ~ValidChain(c)
    <3>1. f \in Chain[c] /\ f \in Blocks /\ c \in Blocks
      BY <2>a, TreeAssumption DEF Nodes
    <3>2. Chain[f] \subseteq Chain[c] /\ ~ValidChain(f)
      BY <1>11, <3>1, TreeAssumption DEF MarkFailedChildren, FirstFailed, FailedSound
    <3> QED
      BY <3>2 DEF ValidChain
  <2>1. Indexed'
    BY <1>11, <2>b DEF MarkFailedChildren, WithFailedChildren, Indexed, mapBlockIndex
  <2>2. UndoExact'
    BY <1>11, <2>b DEF MarkFailedChildren, WithFailedChildren, UndoExact
  <2>3. AllTested'
    BY <1>11, <2>b DEF MarkFailedChildren, WithFailedChildren, AllTested, Tested, TypeOK, Nodes
  <2>4. CoinsMatchTip'
    BY <1>11 DEF MarkFailedChildren, WithFailedChildren, CoinsMatchTip
  <2>5. LinksValid'
    BY <1>11 DEF MarkFailedChildren, WithFailedChildren, LinksValid, ValidChain
  <2>6. FailedSound'
    BY <1>11, <2>c DEF MarkFailedChildren, WithFailedChildren, FailedSound, IsFailed,
       ValidChain, TypeOK
  <2>7. ValidSetExact'
    BY <1>11, <2>a DEF MarkFailedChildren, WithFailedChildren, ValidSetExact, mapBlockIndex,
       IsFailed, TypeOK
  <2> QED
    BY <2>1, <2>2, <2>3, <2>4, <2>5, <2>6, <2>7 DEF Sound
<1>12. ASSUME NEW b \in vAttach, Attach(b) PROVE Sound'
  <2>1. Indexed'
    BY <1>12 DEF Attach, Indexed, mapBlockIndex
  <2>2. UndoExact'
    BY <1>12 DEF Attach, UndoExact
  <2>3. AllTested'
    BY <1>12 DEF Attach, AllTested, Tested
  <2>4. CoinsMatchTip'
    BY <1>12 DEF Attach, CoinsMatchTip
  <2>5. LinksValid'
    BY <1>12 DEF Attach, LinksValid, ValidChain
  <2>6. FailedSound'
    BY <1>12 DEF Attach, FailedSound, IsFailed, ValidChain
  <2>7. ValidSetExact'
    BY <1>12 DEF Attach, ValidSetExact, mapBlockIndex, IsFailed
  <2> QED
    BY <2>1, <2>2, <2>3, <2>4, <2>5, <2>6, <2>7 DEF Sound
<1>13. CASE DisconnectNext
  <2>a. viewTip \in Blocks /\ viewTip # Genesis
    BY <1>13 DEF DisconnectNext, UndoExact, TypeOK, Nodes
  <2>b. Chain[prev[viewTip]] \subseteq Chain[viewTip]
    BY <2>a, TreeAssumption
  <2>1. Indexed'
    BY <1>13 DEF DisconnectNext, Indexed, mapBlockIndex
  <2>2. UndoExact'
    BY <1>13 DEF DisconnectNext, UndoExact
  <2>3. AllTested'
    BY <1>13, <2>b DEF DisconnectNext, AllTested, Tested
  <2>4. CoinsMatchTip'
    BY <1>13, <2>a, TreeAssumption, LedgerAssumption DEF DisconnectNext, CoinsMatchTip,
       UndoExact, AllTested, Tested
  <2>5. LinksValid'
    BY <1>13 DEF DisconnectNext, LinksValid, ValidChain
  <2>6. FailedSound'
    BY <1>13 DEF DisconnectNext, FailedSound, IsFailed, ValidChain
  <2>7. ValidSetExact'
    BY <1>13 DEF DisconnectNext, ValidSetExact, mapBlockIndex, IsFailed
  <2> QED
    BY <2>1, <2>2, <2>3, <2>4, <2>5, <2>6, <2>7 DEF Sound
<1>14. CASE AtFork
  <2>1. Indexed'
    BY <1>14 DEF AtFork, Indexed, mapBlockIndex
  <2>2. UndoExact'
    BY <1>14 DEF AtFork, UndoExact
  <2>3. AllTested'
    BY <1>14 DEF AtFork, AllTested, Tested
  <2>4. CoinsMatchTip'
    BY <1>14 DEF AtFork, CoinsMatchTip
  <2>5. LinksValid'
    BY <1>14 DEF AtFork, LinksValid, ValidChain
  <2>6. FailedSound'
    BY <1>14 DEF AtFork, FailedSound, IsFailed, ValidChain
  <2>7. ValidSetExact'
    BY <1>14 DEF AtFork, ValidSetExact, mapBlockIndex, IsFailed
  <2> QED
    BY <2>1, <2>2, <2>3, <2>4, <2>5, <2>6, <2>7 DEF Sound
<1>15. CASE ConnectGenesis
  <2>1. Indexed'
    BY <1>15 DEF ConnectGenesis, NextToConnect, Indexed, mapBlockIndex
  <2>2. UndoExact'
    BY <1>15 DEF ConnectGenesis, NextToConnect, UndoExact
  <2>3. AllTested'
    BY <1>15, TreeAssumption, LedgerAssumption DEF ConnectGenesis, NextToConnect, AllTested,
       Tested, Indexed, mapBlockIndex, Nodes, TypeOK
  <2>4. CoinsMatchTip'
    BY <1>15, TreeAssumption, LedgerAssumption DEF ConnectGenesis, NextToConnect, CoinsMatchTip
  <2>5. LinksValid'
    BY <1>15 DEF ConnectGenesis, NextToConnect, LinksValid, ValidChain
  <2>6. FailedSound'
    BY <1>15 DEF ConnectGenesis, NextToConnect, FailedSound, IsFailed, ValidChain
  <2>7. ValidSetExact'
    BY <1>15 DEF ConnectGenesis, NextToConnect, ValidSetExact, mapBlockIndex, IsFailed
  <2> QED
    BY <2>1, <2>2, <2>3, <2>4, <2>5, <2>6, <2>7 DEF Sound
<1>16. ASSUME NEW b \in Blocks, ConnectNext(b) PROVE Sound'
  <2>a. b \in Good /\ view = CoinsAt[prev[b]] /\ b # Genesis
    BY <1>16, LedgerAssumption DEF ConnectNext, NextToConnect, CoinsMatchTip
  <2>b. nStatus[b] # {} /\ Chain[b] = Chain[viewTip] \cup {b}
    BY <1>16, TreeAssumption DEF ConnectNext, NextToConnect, Indexed, mapBlockIndex, Control
  <2>c. /\ "SCRIPTS" \in nStatus'[b] /\ "UNDO" \in nStatus'[b]
        /\ \A c \in Blocks : c # b => nStatus'[c] = nStatus[c]
        /\ (IsFailed(b))' <=> IsFailed(b)
    BY <1>16 DEF ConnectNext, ConnectedStatus, IsFailed, TypeOK
  <2>d. mapBlockIndex' = mapBlockIndex
    BY <2>b, <2>c DEF mapBlockIndex
  <2>e. undo'[b] = UndoAt[b] /\ \A c \in Blocks : c # b => undo'[c] = undo[c]
    BY <1>16, <2>a, LedgerAssumption DEF ConnectNext, WriteUndo, UndoExact, TypeOK
  <2>1. Indexed'
    BY <1>16, <2>d DEF ConnectNext, NextToConnect, Indexed, mapBlockIndex
  <2>2. UndoExact'
    BY <1>16, <2>a, <2>c, <2>e DEF ConnectNext, NextToConnect, UndoExact
  <2>3. AllTested'
    BY <1>16, <2>a, <2>b, <2>c DEF ConnectNext, NextToConnect, AllTested, Tested, TypeOK, Nodes
  <2>4. CoinsMatchTip'
    BY <1>16, <2>a, LedgerAssumption, TreeAssumption DEF ConnectNext, NextToConnect, CoinsMatchTip
  <2>5. LinksValid'
    BY <1>16 DEF ConnectNext, NextToConnect, LinksValid, ValidChain
  <2>6. FailedSound'
    BY <1>16, <2>c DEF ConnectNext, NextToConnect, FailedSound, IsFailed, ValidChain, TypeOK
  <2>7. ValidSetExact'
    BY <1>16, <2>c, <2>d DEF ConnectNext, NextToConnect, ValidSetExact, mapBlockIndex, IsFailed,
       TypeOK
  <2> QED
    BY <2>1, <2>2, <2>3, <2>4, <2>5, <2>6, <2>7 DEF Sound
<1>17. ASSUME NEW b \in Blocks, InvalidBlockFound(b) PROVE Sound'
  <2>a. b \notin Good /\ b \in Chain[b] /\ nStatus[b] # {}
    BY <1>17, LedgerAssumption, TreeAssumption DEF InvalidBlockFound, NextToConnect,
       CoinsMatchTip, Indexed, mapBlockIndex, Control
  <2>b. /\ "FAILED_VALID" \in nStatus'[b] /\ nStatus[b] \subseteq nStatus'[b]
        /\ "UNDO" \in nStatus'[b] => "UNDO" \in nStatus[b]
        /\ \A c \in Blocks : c # b => nStatus'[c] = nStatus[c]
    BY <1>17 DEF InvalidBlockFound, TypeOK
  <2>c. mapBlockIndex' = mapBlockIndex
    BY <2>a, <2>b DEF mapBlockIndex
  <2>1. Indexed'
    BY <1>17, <2>c DEF InvalidBlockFound, NextToConnect, ReturnBest, DropView, Indexed,
       mapBlockIndex, Control
  <2>2. UndoExact'
    BY <1>17, <2>b DEF InvalidBlockFound, NextToConnect, ReturnBest, DropView, UndoExact
  <2>3. AllTested'
    BY <1>17, ChainNone, <2>b DEF InvalidBlockFound, NextToConnect, ReturnBest, DropView,
       AllTested, Tested, TypeOK, Nodes
  <2>4. CoinsMatchTip'
    BY <1>17 DEF InvalidBlockFound, NextToConnect, ReturnBest, DropView, CoinsMatchTip
  <2>5. LinksValid'
    BY <1>17 DEF InvalidBlockFound, NextToConnect, ReturnBest, DropView, LinksValid, ValidChain
  <2>6. FailedSound'
    BY <1>17, <2>a, <2>b DEF InvalidBlockFound, NextToConnect, ReturnBest, DropView,
       FailedSound, IsFailed, ValidChain
  <2>7. ValidSetExact'
    BY <1>17, <2>b, <2>c DEF InvalidBlockFound, NextToConnect, ReturnBest, DropView,
       ValidSetExact, mapBlockIndex, IsFailed, StillCandidates, ContinueAfter, Control
  <2> QED
    BY <2>1, <2>2, <2>3, <2>4, <2>5, <2>6, <2>7 DEF Sound
<1>18. CASE BestFlushed
  <2>1. Indexed'
    BY <1>18 DEF BestFlushed, FlushView, NewBest, DropView, Indexed, mapBlockIndex
  <2>2. UndoExact'
    BY <1>18 DEF BestFlushed, FlushView, NewBest, DropView, UndoExact
  <2>3. AllTested'
    BY <1>18, ChainNone DEF BestFlushed, FlushView, NewBest, DropView, AllTested, Tested
  <2>4. CoinsMatchTip'
    BY <1>18 DEF BestFlushed, FlushView, NewBest, DropView, CoinsMatchTip
  <2>5. LinksValid'
    BY <1>18, TreeAssumption DEF BestFlushed, FlushView, NewBest, DropView, LinksValid,
       ValidChain, NewLinks, AllTested, Tested, Nodes, TypeOK
  <2>6. FailedSound'
    BY <1>18 DEF BestFlushed, FlushView, NewBest, DropView, FailedSound, IsFailed, ValidChain
  <2>7. ValidSetExact'
    BY <1>18 DEF BestFlushed, FlushView, NewBest, DropView, ValidSetExact, mapBlockIndex, IsFailed
  <2> QED
    BY <2>1, <2>2, <2>3, <2>4, <2>5, <2>6, <2>7 DEF Sound
<1>19. CASE BestCached
  <2>1. Indexed'
    BY <1>19 DEF BestCached, FlushView, NewBest, DropView, Indexed, mapBlockIndex
  <2>2. UndoExact'
    BY <1>19 DEF BestCached, FlushView, NewBest, DropView, UndoExact
  <2>3. AllTested'
    BY <1>19, ChainNone DEF BestCached, FlushView, NewBest, DropView, AllTested, Tested
  <2>4. CoinsMatchTip'
    BY <1>19 DEF BestCached, FlushView, NewBest, DropView, CoinsMatchTip
  <2>5. LinksValid'
    BY <1>19, TreeAssumption DEF BestCached, FlushView, NewBest, DropView, LinksValid,
       ValidChain, NewLinks, AllTested, Tested, Nodes, TypeOK
  <2>6. FailedSound'
    BY <1>19 DEF BestCached, FlushView, NewBest, DropView, FailedSound, IsFailed, ValidChain
  <2>7. ValidSetExact'
    BY <1>19 DEF BestCached, FlushView, NewBest, DropView, ValidSetExact, mapBlockIndex, IsFailed
  <2> QED
    BY <2>1, <2>2, <2>3, <2>4, <2>5, <2>6, <2>7 DEF Sound
<1>20. CASE Crash
  <2>1. Indexed'
    BY <1>20 DEF Crash, ForgetMemory, DropView, Indexed, mapBlockIndex
  <2>2. UndoExact'
    BY <1>20 DEF Crash, ForgetMemory, DropView, UndoExact
  <2>3. AllTested'
    BY <1>20, ChainNone DEF Crash, ForgetMemory, DropView, AllTested, Tested
  <2>4. CoinsMatchTip'
    BY <1>20 DEF Crash, ForgetMemory, DropView, CoinsMatchTip
  <2>5. LinksValid'
    BY <1>20 DEF Crash, ForgetMemory, DropView, LinksValid, ValidChain
  <2>6. FailedSound'
    BY <1>20 DEF Crash, ForgetMemory, DropView, FailedSound, IsFailed, ValidChain
  <2>7. ValidSetExact'
    BY <1>20 DEF Crash, ForgetMemory, DropView, ValidSetExact, mapBlockIndex, IsFailed
  <2> QED
    BY <2>1, <2>2, <2>3, <2>4, <2>5, <2>6, <2>7 DEF Sound
<1>21. ASSUME NEW b \in Better, NEW f \in Chain[b], NEW x \in Chain[b], CrashWhileMarking(b, f, x)
       PROVE Sound'
  <2>a. b \in mapBlockIndex /\ Chain[b] \subseteq mapBlockIndex /\ b \in Blocks
    BY <1>21 DEF Better, MostWorkCandidates, ValidSetExact, Indexed, mapBlockIndex,
       CrashWhileMarking
  <2>b. /\ \A c \in Blocks : nStatus[c] \subseteq nStatus'[c] /\ (nStatus'[c] # {} => nStatus[c] # {})
        /\ \A c \in Blocks : "UNDO" \in nStatus'[c] => "UNDO" \in nStatus[c]
        /\ mapBlockIndex' = mapBlockIndex
    BY <1>21, <2>a DEF CrashWhileMarking, WithFailedChildren, TypeOK, mapBlockIndex
  <2>c. ASSUME NEW c \in Chain[b] \ Chain[f] PROVE ~ValidChain(c)
    <3>1. f \in Chain[c] /\ f \in Blocks /\ c \in Blocks
      BY <2>a, TreeAssumption DEF Nodes
    <3>2. Chain[f] \subseteq Chain[c] /\ ~ValidChain(f)
      BY <1>21, <3>1, TreeAssumption DEF CrashWhileMarking, FirstFailed, FailedSound
    <3> QED
      BY <3>2 DEF ValidChain
  <2>d. Chain[b] \ Chain[prev[x]] \subseteq Chain[b] \ Chain[f]
    <3>1. x \in Chain[b] \ Chain[f] /\ x \in Blocks /\ f \in Blocks
      BY <1>21, <2>a DEF CrashWhileMarking, Nodes
    <3>2. f \in Chain[x] /\ f # x
      BY <3>1, <2>a, TreeAssumption
    <3>3. f \in Chain[prev[x]]
      BY <3>1, <3>2, TreeAssumption
    <3>4. prev[x] \in Blocks /\ Chain[f] \subseteq Chain[prev[x]]
      BY <3>1, <3>3, TreeAssumption DEF Nodes
    <3> QED
      BY <3>4
  <2>1. Indexed'
    BY <1>21, <2>b DEF CrashWhileMarking, WithFailedChildren, ForgetMemory, DropView, Indexed,
       mapBlockIndex
  <2>2. UndoExact'
    BY <1>21, <2>b DEF CrashWhileMarking, WithFailedChildren, ForgetMemory, DropView, UndoExact
  <2>3. AllTested'
    BY <1>21, <2>b, ChainNone DEF CrashWhileMarking, WithFailedChildren, ForgetMemory, DropView,
       AllTested, Tested, TypeOK, Nodes
  <2>4. CoinsMatchTip'
    BY <1>21 DEF CrashWhileMarking, WithFailedChildren, ForgetMemory, DropView, CoinsMatchTip
  <2>5. LinksValid'
    BY <1>21 DEF CrashWhileMarking, WithFailedChildren, ForgetMemory, DropView, LinksValid,
       ValidChain
  <2>6. FailedSound'
    BY <1>21, <2>c, <2>d DEF CrashWhileMarking, WithFailedChildren, ForgetMemory, DropView,
       FailedSound, IsFailed, ValidChain, TypeOK
  <2>7. ValidSetExact'
    BY <1>21 DEF CrashWhileMarking, WithFailedChildren, ForgetMemory, DropView, ValidSetExact,
       mapBlockIndex, IsFailed
  <2> QED
    BY <2>1, <2>2, <2>3, <2>4, <2>5, <2>6, <2>7 DEF Sound
<1>22. CASE Interrupt
  <2>1. Indexed'
    BY <1>22 DEF Interrupt, Indexed, mapBlockIndex
  <2>2. UndoExact'
    BY <1>22 DEF Interrupt, UndoExact
  <2>3. AllTested'
    BY <1>22 DEF Interrupt, AllTested, Tested
  <2>4. CoinsMatchTip'
    BY <1>22 DEF Interrupt, CoinsMatchTip
  <2>5. LinksValid'
    BY <1>22 DEF Interrupt, LinksValid, ValidChain
  <2>6. FailedSound'
    BY <1>22 DEF Interrupt, FailedSound, IsFailed, ValidChain
  <2>7. ValidSetExact'
    BY <1>22 DEF Interrupt, ValidSetExact, mapBlockIndex, IsFailed
  <2> QED
    BY <2>1, <2>2, <2>3, <2>4, <2>5, <2>6, <2>7 DEF Sound
<1>23. CASE DiskFull
  <2>1. Indexed'
    BY <1>23 DEF DiskFull, FlushView, ReturnBest, DropView, Indexed, mapBlockIndex
  <2>2. UndoExact'
    BY <1>23 DEF DiskFull, FlushView, ReturnBest, DropView, UndoExact
  <2>3. AllTested'
    BY <1>23, ChainNone DEF DiskFull, FlushView, ReturnBest, DropView, AllTested, Tested
  <2>4. CoinsMatchTip'
    BY <1>23 DEF DiskFull, FlushView, ReturnBest, DropView, CoinsMatchTip
  <2>5. LinksValid'
    BY <1>23 DEF DiskFull, FlushView, ReturnBest, DropView, LinksValid, ValidChain
  <2>6. FailedSound'
    BY <1>23 DEF DiskFull, FlushView, ReturnBest, DropView, FailedSound, IsFailed, ValidChain
  <2>7. ValidSetExact'
    BY <1>23 DEF DiskFull, FlushView, ReturnBest, DropView, ValidSetExact, mapBlockIndex, IsFailed
  <2> QED
    BY <2>1, <2>2, <2>3, <2>4, <2>5, <2>6, <2>7 DEF Sound
<1>24. CASE Abort
  <2>1. Indexed'
    BY <1>24 DEF Abort, ReturnBest, DropView, Indexed, mapBlockIndex
  <2>2. UndoExact'
    BY <1>24 DEF Abort, ReturnBest, DropView, UndoExact
  <2>3. AllTested'
    BY <1>24, ChainNone DEF Abort, ReturnBest, DropView, AllTested, Tested
  <2>4. CoinsMatchTip'
    BY <1>24 DEF Abort, ReturnBest, DropView, CoinsMatchTip
  <2>5. LinksValid'
    BY <1>24 DEF Abort, ReturnBest, DropView, LinksValid, ValidChain
  <2>6. FailedSound'
    BY <1>24 DEF Abort, ReturnBest, DropView, FailedSound, IsFailed, ValidChain
  <2>7. ValidSetExact'
    BY <1>24 DEF Abort, ReturnBest, DropView, ValidSetExact, mapBlockIndex, IsFailed
  <2> QED
    BY <2>1, <2>2, <2>3, <2>4, <2>5, <2>6, <2>7 DEF Sound
<1>25. CASE UNCHANGED vars
  <2>1. Indexed'
    BY <1>25 DEF vars, Indexed, mapBlockIndex
  <2>2. UndoExact'
    BY <1>25 DEF vars, UndoExact
  <2>3. AllTested'
    BY <1>25 DEF vars, AllTested, Tested
  <2>4. CoinsMatchTip'
    BY <1>25 DEF vars, CoinsMatchTip
  <2>5. LinksValid'
    BY <1>25 DEF vars, LinksValid, ValidChain
  <2>6. FailedSound'
    BY <1>25 DEF vars, FailedSound, IsFailed, ValidChain
  <2>7. ValidSetExact'
    BY <1>25 DEF vars, ValidSetExact, mapBlockIndex, IsFailed
  <2> QED
    BY <2>1, <2>2, <2>3, <2>4, <2>5, <2>6, <2>7 DEF Sound
<1> QED
  BY <1>1, <1>2, <1>3, <1>4, <1>5, <1>6, <1>7, <1>8, <1>9, <1>10, <1>11, <1>12, <1>13, <1>14,
     <1>15, <1>16, <1>17, <1>18, <1>19, <1>20, <1>21, <1>22, <1>23, <1>24, <1>25 DEF Next, Step
-----------------------------------------------------------------------------
(* The order of the chain.                                                 *)

\* A chain has no two children of one block, and work grows along it.
LEMMA Path ==
  ASSUME NEW c \in Nodes, NEW y \in Chain[c], NEW z \in Chain[c]
  PROVE  /\ prev[y] = prev[z] => y = z
         /\ y # z => nChainWork[y] # nChainWork[z]
<1>1. c \in Blocks /\ y \in Blocks /\ z \in Blocks
  BY TreeAssumption DEF Nodes
<1>2. ASSUME NEW u \in Blocks, NEW v \in Blocks, u \in Chain[v], u # v
      PROVE  nChainWork[u] <= nChainWork[prev[v]] /\ nChainWork[prev[v]] < nChainWork[v] /\ nChainWork[u] \in Nat
             /\ nChainWork[v] \in Nat /\ nChainWork[prev[v]] \in Nat /\ nChainWork[prev[u]] \in Nat
             /\ nChainWork[prev[u]] < nChainWork[u]
  <2>1. u \in Chain[prev[v]] /\ prev[v] \in Nodes
    BY <1>2, TreeAssumption
  <2>2. prev[v] \in Blocks
    BY <2>1, TreeAssumption DEF Nodes
  <2> QED
    BY <2>1, <2>2, <1>2, TreeAssumption DEF Nodes
<1>3. y \in Chain[z] \/ z \in Chain[y]
  BY <1>1, TreeAssumption
<1>4. CASE y \in Chain[z]
  BY <1>1, <1>2, <1>4
<1>5. CASE z \in Chain[y]
  BY <1>1, <1>2, <1>5
<1> QED
  BY <1>3, <1>4, <1>5

\* SetBestChain's updates of pnext turn the links of one chain into those of the
\* other.
LEMMA Relink ==
  ASSUME tip \in Nodes, target \in Nodes, pnext = Links(tip)
  PROVE  NewLinks = Links(target)
<1>1. ASSUME NEW x \in Blocks PROVE NewLinks[x] = Links(target)[x]
  <2>1. CASE \E y \in Chain[target] \ Chain[tip] : prev[y] = x
    <3>1. PICK y \in Chain[target] \ Chain[tip] : prev[y] = x
      BY <2>1
    <3>2. NewLinks[x] = y
      BY <3>1, Path DEF NewLinks
    <3>3. Links(target)[x] = y
      BY <3>1, Path DEF Links
    <3> QED
      BY <3>2, <3>3
  <2>2. CASE /\ ~\E y \in Chain[target] \ Chain[tip] : prev[y] = x
             /\ \E y \in Chain[tip] \ Chain[target] : prev[y] = x
    <3>1. PICK y \in Chain[tip] \ Chain[target] : prev[y] = x
      BY <2>2
    <3>2. ~\E z \in Chain[target] : prev[z] = x
      BY <2>2, <3>1, Path
    <3> QED
      BY <2>2, <3>2 DEF NewLinks, Links
  <2>3. CASE /\ ~\E y \in Chain[target] \ Chain[tip] : prev[y] = x
             /\ ~\E y \in Chain[tip] \ Chain[target] : prev[y] = x
    <3>1. NewLinks[x] = Links(tip)[x]
      BY <2>3 DEF NewLinks
    <3>2. CASE \E y \in Chain[tip] : prev[y] = x
      <4>1. PICK y \in Chain[tip] : prev[y] = x
        BY <3>2
      <4>2. y \in Chain[target]
        BY <4>1, <2>3
      <4>3. Links(tip)[x] = y
        BY <4>1, Path DEF Links
      <4>4. Links(target)[x] = y
        BY <4>1, <4>2, Path DEF Links
      <4> QED
        BY <3>1, <4>3, <4>4
    <3>3. CASE ~\E y \in Chain[tip] : prev[y] = x
      <4>1. ~\E y \in Chain[target] : prev[y] = x
        BY <3>3, <2>3
      <4> QED
        BY <3>1, <3>3, <4>1 DEF Links
    <3> QED
      BY <3>2, <3>3
  <2> QED
    BY <2>1, <2>2, <2>3
<1>2. NewLinks = [x \in Blocks |-> NewLinks[x]] /\ Links(target) = [x \in Blocks |-> Links(target)[x]]
  BY DEF NewLinks, Links
<1> QED
  BY <1>1, <1>2

\* A node without a best block has no pnext pointers.
LEMMA LinksNone == Links(NoBlock) = [b \in Blocks |-> NoBlock]
BY ChainNone DEF Links

\* Every step keeps pnext along the best chain, unless it disturbs the call.
LEMMA LinksNext == Typed /\ MainChainLinks /\ [Next]_vars => MainChainLinks'
<1> SUFFICES ASSUME Typed, MainChainLinks, [Next]_vars PROVE MainChainLinks'
  OBVIOUS
<1> USE DEF MainChainLinks, index, memory, db, call
<1>1. CASE Start
  BY <1>1 DEF Start
<1>2. CASE ShutDown
  BY <1>2, LinksNone DEF ShutDown, ForgetMemory
<1>3. ASSUME NEW b \in Blocks, ProcessBlock(b) PROVE MainChainLinks'
  BY <1>3 DEF ProcessBlock, AddToBlockIndex
<1>4. ASSUME NEW b \in Blocks, ProcessOrphan(b) PROVE MainChainLinks'
  BY <1>4 DEF ProcessOrphan
<1>5. ASSUME NEW b \in Blocks, AcceptOrphan(b) PROVE MainChainLinks'
  BY <1>5 DEF AcceptOrphan, AddToBlockIndex
<1>6. ASSUME NEW b \in Blocks, DropOrphan(b) PROVE MainChainLinks'
  BY <1>6 DEF DropOrphan
<1>7. CASE OrphansDone
  BY <1>7 DEF OrphansDone
<1>8. CASE NothingBetter
  BY <1>8 DEF NothingBetter, ReturnBest, ContinueAfter, DropView
<1>9. CASE AllAttached
  BY <1>9 DEF AllAttached, ReturnBest, ContinueAfter, DropView
<1>10. ASSUME NEW b \in Better, SelectBest(b) PROVE MainChainLinks'
  BY <1>10 DEF SelectBest
<1>11. ASSUME NEW b \in Better, NEW f \in Chain[b], MarkFailedChildren(b, f) PROVE MainChainLinks'
  BY <1>11 DEF MarkFailedChildren
<1>12. ASSUME NEW b \in vAttach, Attach(b) PROVE MainChainLinks'
  BY <1>12 DEF Attach
<1>13. CASE DisconnectNext
  BY <1>13 DEF DisconnectNext
<1>14. CASE AtFork
  BY <1>14 DEF AtFork
<1>15. CASE ConnectGenesis
  BY <1>15 DEF ConnectGenesis, NextToConnect
<1>16. ASSUME NEW b \in Blocks, ConnectNext(b) PROVE MainChainLinks'
  BY <1>16 DEF ConnectNext, NextToConnect
<1>17. ASSUME NEW b \in Blocks, InvalidBlockFound(b) PROVE MainChainLinks'
  BY <1>17 DEF InvalidBlockFound, NextToConnect, ReturnBest, ContinueAfter, DropView
<1>18. CASE BestFlushed
  <2>1. tip \in Nodes /\ target \in Nodes
    BY TreeTypes DEF Typed, TypeOK
  <2> QED
    BY <1>18, <2>1, Relink DEF BestFlushed, FlushView, NewBest
<1>19. CASE BestCached
  <2>1. tip \in Nodes /\ target \in Nodes
    BY TreeTypes DEF Typed, TypeOK
  <2> QED
    BY <1>19, <2>1, Relink DEF BestCached, FlushView, NewBest
<1>20. CASE Crash
  BY <1>20, LinksNone DEF Crash, ForgetMemory
<1>21. ASSUME NEW b \in Better, NEW f \in Chain[b], NEW x \in Chain[b], CrashWhileMarking(b, f, x)
       PROVE MainChainLinks'
  BY <1>21, LinksNone DEF CrashWhileMarking, ForgetMemory
<1>22. CASE Interrupt
  BY <1>22 DEF Interrupt
<1>23. CASE DiskFull
  BY <1>23 DEF DiskFull, FlushView, ReturnBest, ContinueAfter, DropView
<1>24. CASE Abort
  BY <1>24 DEF Abort, ReturnBest, ContinueAfter, DropView
<1>25. CASE UNCHANGED vars
  BY <1>25 DEF vars
<1> QED
  BY <1>1, <1>2, <1>3, <1>4, <1>5, <1>6, <1>7, <1>8, <1>9, <1>10, <1>11, <1>12, <1>13, <1>14,
     <1>15, <1>16, <1>17, <1>18, <1>19, <1>20, <1>21, <1>22, <1>23, <1>24, <1>25 DEF Next, Step

-----------------------------------------------------------------------------
\* The blocks to attach lie on one chain above the best block.
Rising == /\ \A a \in vAttach : nChainWork[a] > nChainWork[pindexBest]
          /\ \A x, y \in vAttach : x # y => nChainWork[x] # nChainWork[y]
          /\ pc \in {"disconnect", "connect"} => /\ nChainWork[target] > nChainWork[pindexBest]
                                                 /\ \A a \in vAttach : nChainWork[a] > nChainWork[target]

\* Every step keeps the order of the blocks to attach.
LEMMA RisingNext == Typed /\ Rising /\ [Next]_vars => Rising'
<1> SUFFICES ASSUME Typed, Rising, [Next]_vars PROVE Rising'
  OBVIOUS
<1> USE DEF Rising, index, memory, db, call, Typed, Control
<1>1. CASE Start
  BY <1>1 DEF Start
<1>2. CASE ShutDown
  BY <1>2 DEF ShutDown, ForgetMemory, DropView
<1>3. ASSUME NEW b \in Blocks, ProcessBlock(b) PROVE Rising'
  BY <1>3 DEF ProcessBlock, AddToBlockIndex
<1>4. ASSUME NEW b \in Blocks, ProcessOrphan(b) PROVE Rising'
  BY <1>4 DEF ProcessOrphan
<1>5. ASSUME NEW b \in Blocks, AcceptOrphan(b) PROVE Rising'
  BY <1>5 DEF AcceptOrphan, AddToBlockIndex
<1>6. ASSUME NEW b \in Blocks, DropOrphan(b) PROVE Rising'
  BY <1>6 DEF DropOrphan
<1>7. CASE OrphansDone
  BY <1>7 DEF OrphansDone
<1>8. CASE NothingBetter
  BY <1>8 DEF NothingBetter, ReturnBest, ContinueAfter, DropView
<1>9. CASE AllAttached
  BY <1>9 DEF AllAttached, ReturnBest, ContinueAfter, DropView
<1>10. ASSUME NEW b \in Better, SelectBest(b) PROVE Rising'
  <2>1. b \in Nodes /\ Ancestry(b) \subseteq Chain[b]
    BY BetterBlocks, TreeTypes DEF Ancestry
  <2>2. \A x, y \in Ancestry(b) : x # y => nChainWork[x] # nChainWork[y]
    BY <2>1, Path
  <2> QED
    BY <1>10, <2>2 DEF SelectBest
<1>11. ASSUME NEW b \in Better, NEW f \in Chain[b], MarkFailedChildren(b, f) PROVE Rising'
  BY <1>11 DEF MarkFailedChildren
<1>12. ASSUME NEW b \in vAttach, Attach(b) PROVE Rising'
  <2>1. \A a \in vAttach : nChainWork[a] \in Nat
    BY TreeAssumption DEF TypeOK, Nodes
  <2>2. \A a \in vAttach \ {b} : nChainWork[a] > nChainWork[b]
    BY <1>12, <2>1 DEF Attach
  <2> QED
    BY <1>12, <2>2 DEF Attach
<1>13. CASE DisconnectNext
  BY <1>13 DEF DisconnectNext
<1>14. CASE AtFork
  BY <1>14 DEF AtFork
<1>15. CASE ConnectGenesis
  BY <1>15 DEF ConnectGenesis, NextToConnect
<1>16. ASSUME NEW b \in Blocks, ConnectNext(b) PROVE Rising'
  BY <1>16 DEF ConnectNext, NextToConnect
<1>17. ASSUME NEW b \in Blocks, InvalidBlockFound(b) PROVE Rising'
  BY <1>17 DEF InvalidBlockFound, NextToConnect, ReturnBest, ContinueAfter, DropView
<1>18. CASE BestFlushed
  BY <1>18 DEF BestFlushed, FlushView, NewBest, DropView
<1>19. CASE BestCached
  BY <1>19 DEF BestCached, FlushView, NewBest, DropView
<1>20. CASE Crash
  BY <1>20 DEF Crash, ForgetMemory, DropView
<1>21. ASSUME NEW b \in Better, NEW f \in Chain[b], NEW x \in Chain[b], CrashWhileMarking(b, f, x)
       PROVE Rising'
  BY <1>21 DEF CrashWhileMarking, ForgetMemory, DropView
<1>22. CASE Interrupt
  BY <1>22 DEF Interrupt
<1>23. CASE DiskFull
  BY <1>23 DEF DiskFull, FlushView, ReturnBest, ContinueAfter, DropView
<1>24. CASE Abort
  BY <1>24 DEF Abort, ReturnBest, ContinueAfter, DropView
<1>25. CASE UNCHANGED vars
  BY <1>25 DEF vars
<1> QED
  BY <1>1, <1>2, <1>3, <1>4, <1>5, <1>6, <1>7, <1>8, <1>9, <1>10, <1>11, <1>12, <1>13, <1>14,
     <1>15, <1>16, <1>17, <1>18, <1>19, <1>20, <1>21, <1>22, <1>23, <1>24, <1>25 DEF Next, Step
-----------------------------------------------------------------------------
(* The choice of the best block.                                           *)

\* A known block that need not be tried any more.
HasFailed(b) == \E f \in Chain[b] : IsFailed(f)
Settled(b) == nChainWork[b] <= nChainWork[pindexBest] \/ HasFailed(b)

\* Between calls every known block is settled, during one all but the new one.
SettledInv == ~fDisturbed =>
  /\ pc \in {"idle", "orphans"} => \A b \in mapBlockIndex : Settled(b)
  /\ accepting # NoBlock => \A b \in mapBlockIndex \ {accepting} : Settled(b)

\* Only the new block's chain is being attached.
TargetInv == ~fDisturbed /\ accepting # NoBlock =>
  /\ vAttach \subseteq Chain[accepting]
  /\ target # NoBlock => target \in Chain[accepting]

\* The candidate with the most work is among the blocks left to attach.
MaxInv ==
  /\ pc = "attach" => \A c \in setBlockIndexValid :
       \E a \in vAttach \cup {pindexBest} : nChainWork[c] <= nChainWork[a]
  /\ pc \in {"disconnect", "connect"} => \A c \in setBlockIndexValid :
       \E a \in vAttach \cup {target} : nChainWork[c] <= nChainWork[a]

\* An orphan with a known parent is about to be looked at, or hopeless.
OrphanInv == ~fDisturbed =>
  \A o \in mapOrphanBlocks : prev[o] \in mapBlockIndex =>
     prev[o] \in vWorkQueue \/ prev[o] = accepting \/ HasFailed(prev[o])

Choice == SettledInv /\ TargetInv /\ MaxInv /\ OrphanInv

\* pindexBest is a candidate.
LEMMA BestIsValid ==
  ASSUME Typed, Sound, pc # "down"
  PROVE  pindexBest = NoBlock \/ pindexBest \in setBlockIndexValid
<1>1. CASE pindexBest \in Blocks
  <2>1. pindexBest \in Chain[pindexBest]
    BY <1>1, TreeAssumption
  <2>2. ValidChain(pindexBest) /\ nStatus[pindexBest] # {}
    BY <2>1 DEF Sound, AllTested, Tested, ValidChain
  <2>3. ~IsFailed(pindexBest)
    BY <1>1, <2>2 DEF Sound, FailedSound
  <2> QED
    BY <1>1, <2>2, <2>3 DEF Sound, ValidSetExact, mapBlockIndex
<1> QED
  BY <1>1 DEF Typed, TypeOK, Nodes

\* A better candidate has more work than pindexBest.
LEMMA BetterIsMore ==
  ASSUME Typed, Sound, pc # "down", NEW b \in Better
  PROVE  nChainWork[b] > nChainWork[pindexBest] /\ b \in Blocks /\ b \in mapBlockIndex
         /\ \A c \in setBlockIndexValid : nChainWork[c] <= nChainWork[b]
<1>1. b \in setBlockIndexValid /\ b \in Blocks /\ nChainWork[b] # nChainWork[pindexBest]
      /\ \A c \in setBlockIndexValid : nChainWork[c] <= nChainWork[b]
  BY DEF Better, MostWorkCandidates, Typed, TypeOK
<1>2. nChainWork[pindexBest] <= nChainWork[b]
  BY <1>1, BestIsValid, TreeAssumption DEF Nodes
<1>3. nChainWork[b] \in Nat /\ nChainWork[pindexBest] \in Nat
  BY <1>1, TreeAssumption DEF Typed, TypeOK, Nodes
<1> QED
  BY <1>1, <1>2, <1>3 DEF Sound, ValidSetExact

\* If no candidate has more work, everything is settled.
LEMMA AllSettled ==
  ASSUME Typed, Sound, pc # "down", \A c \in setBlockIndexValid : nChainWork[c] <= nChainWork[pindexBest]
  PROVE  \A b \in mapBlockIndex : Settled(b)
<1> SUFFICES ASSUME NEW b \in mapBlockIndex PROVE Settled(b)
  OBVIOUS
<1>1. b \in Blocks /\ b \in Chain[b]
  BY TreeAssumption DEF mapBlockIndex
<1>2. CASE IsFailed(b)
  BY <1>1, <1>2 DEF Settled, HasFailed
<1>3. CASE ~IsFailed(b)
  BY <1>1, <1>3 DEF Settled, Sound, ValidSetExact
<1> QED
  BY <1>2, <1>3

\* ConnectBestBlock stops only when no candidate has more work.
LEMMA NoneBetter ==
  ASSUME Typed, Sound, pc # "down", Better = {}
  PROVE  \A c \in setBlockIndexValid : nChainWork[c] <= nChainWork[pindexBest]
<1>1. CASE setBlockIndexValid = {}
  BY <1>1
<1>2. CASE setBlockIndexValid # {}
  <2>1. PICK b \in setBlockIndexValid : \A c \in setBlockIndexValid : nChainWork[c] <= nChainWork[b]
    BY <1>2, WorkAssumption DEF Typed, TypeOK
  <2>2. nChainWork[b] = nChainWork[pindexBest]
    BY <2>1 DEF Better, MostWorkCandidates
  <2> QED
    BY <2>1, <2>2
<1> QED
  BY <1>1, <1>2

\* A candidate that passes the ancestry check has no failed ancestor at all: the
\* check stops at a block with a pnext pointer, whose chain is valid.
LEMMA AncestryEnough ==
  ASSUME Typed, Sound, NEW b \in Blocks, \A a \in Ancestry(b) : ~IsFailed(a)
  PROVE  ~HasFailed(b)
<1> SUFFICES ASSUME NEW f \in Chain[b], IsFailed(f) PROVE FALSE
  BY DEF HasFailed
<1>1. f \in Blocks /\ Chain[b] \subseteq Blocks
  BY TreeTypes
<1>2. PICK y \in Chain[b] \ Chain[f] : pnext[y] # NoBlock
  BY DEF Ancestry
<1>3. ValidChain(y) /\ y \in Blocks
  BY <1>1, <1>2 DEF Sound, LinksValid
<1>4. f \in Chain[y]
  BY <1>2, TreeAssumption
<1>5. ValidChain(f)
  BY <1>3, <1>4, TreeAssumption DEF ValidChain
<1> QED
  BY <1>1, <1>5 DEF Sound, FailedSound

\* Failure marks are never taken back.
LEMMA FailedStays ==
  ASSUME NEW b \in Blocks, HasFailed(b), \A c \in Blocks : IsFailed(c) => IsFailed(c)'
  PROVE  HasFailed(b)'
BY TreeTypes DEF HasFailed

\* Every step keeps the last layer.
LEMMA ChoiceNext == Typed /\ Typed' /\ Sound /\ Rising /\ Choice /\ [Next]_vars => Choice'
<1> SUFFICES ASSUME Typed, Typed', Sound, Rising, SettledInv, TargetInv, MaxInv, OrphanInv, [Next]_vars
             PROVE  Choice'
  BY DEF Choice
<1> USE TreeTypes DEF index, memory, db, call
<1>a. TypeOK /\ Control /\ ValidSetExact /\ Indexed /\ FailedSound
  BY DEF Typed, Sound
<1>b. \A b \in Nodes : nChainWork[b] \in Nat
  BY TreeAssumption
<1>c. pindexBest \in Nodes /\ target \in Nodes
  BY <1>a DEF TypeOK
<1>1. CASE Start
  BY <1>1, <1>a DEF Start, Choice, SettledInv, TargetInv, MaxInv, OrphanInv
<1>2. CASE ShutDown
  BY <1>2, <1>a DEF ShutDown, ForgetMemory, DropView, Choice, SettledInv, TargetInv, MaxInv,
     OrphanInv
<1>3. ASSUME NEW b \in Blocks, ProcessBlock(b) PROVE Choice'
  <2>a. /\ mapBlockIndex' = mapBlockIndex \cup {b} /\ nStatus[b] = {} /\ pindexBest' = pindexBest
        /\ \A c \in Blocks : c # b => nStatus'[c] = nStatus[c]
    BY <1>3, <1>a DEF ProcessBlock, AddToBlockIndex, mapBlockIndex, TypeOK
  <2>b. \A c \in Blocks : IsFailed(c) => IsFailed(c)'
    BY <2>a DEF IsFailed
  <2>c. \A c \in Blocks : HasFailed(c) => HasFailed(c)'
    BY <2>b, FailedStays
  <2>d. fDisturbed' = fDisturbed /\ accepting' = b /\ pc' = "best" /\ vWorkQueue' = vWorkQueue
        /\ mapOrphanBlocks' = mapOrphanBlocks /\ accepting = NoBlock /\ pc \in {"idle", "orphans"}
        /\ vAttach' = {} /\ target' = NoBlock
    BY <1>3, <1>a DEF ProcessBlock, AddToBlockIndex, Control
  <2>1. SettledInv'
    <3>1. \A c \in mapBlockIndex : c \in Blocks
      BY DEF mapBlockIndex
    <3> QED
      BY <2>a, <2>c, <2>d, <3>1 DEF SettledInv, Settled
  <2>2. TargetInv'
    BY <2>d DEF TargetInv
  <2>3. MaxInv'
    BY <2>d DEF MaxInv
  <2>4. OrphanInv'
    <3>1. \A o \in mapOrphanBlocks : prev[o] \in mapBlockIndex => prev[o] \in Blocks
      BY DEF mapBlockIndex
    <3> QED
      BY <2>a, <2>c, <2>d, <3>1 DEF OrphanInv
  <2> QED
    BY <2>1, <2>2, <2>3, <2>4 DEF Choice
<1>4. ASSUME NEW b \in Blocks, ProcessOrphan(b) PROVE Choice'
  <2>1. SettledInv'
    BY <1>4, <1>a DEF ProcessOrphan, mapBlockIndex, SettledInv, Settled, HasFailed, IsFailed
  <2>2. TargetInv'
    BY <1>4, <1>a DEF ProcessOrphan, mapBlockIndex, TargetInv
  <2>3. MaxInv'
    BY <1>4, <1>a DEF ProcessOrphan, mapBlockIndex, MaxInv
  <2>4. OrphanInv'
    BY <1>4, <1>a DEF ProcessOrphan, mapBlockIndex, OrphanInv, HasFailed, IsFailed
  <2> QED
    BY <2>1, <2>2, <2>3, <2>4 DEF Choice
<1>5. ASSUME NEW b \in Blocks, AcceptOrphan(b) PROVE Choice'
  <2>a. /\ mapBlockIndex' = mapBlockIndex \cup {b} /\ nStatus[b] = {} /\ pindexBest' = pindexBest
        /\ \A c \in Blocks : c # b => nStatus'[c] = nStatus[c]
    BY <1>5, <1>a DEF AcceptOrphan, Refused, AddToBlockIndex, mapBlockIndex, TypeOK
  <2>b. \A c \in Blocks : IsFailed(c) => IsFailed(c)'
    BY <2>a DEF IsFailed
  <2>c. \A c \in Blocks : HasFailed(c) => HasFailed(c)'
    BY <2>b, FailedStays
  <2>d. fDisturbed' = fDisturbed /\ accepting' = b /\ pc' = "best" /\ vWorkQueue' = vWorkQueue
        /\ mapOrphanBlocks' = mapOrphanBlocks /\ accepting = NoBlock /\ pc \in {"idle", "orphans"}
        /\ vAttach' = {} /\ target' = NoBlock
    BY <1>5, <1>a DEF AcceptOrphan, AddToBlockIndex, Control
  <2>1. SettledInv'
    <3>1. \A c \in mapBlockIndex : c \in Blocks
      BY DEF mapBlockIndex
    <3> QED
      BY <2>a, <2>c, <2>d, <3>1 DEF SettledInv, Settled
  <2>2. TargetInv'
    BY <2>d DEF TargetInv
  <2>3. MaxInv'
    BY <2>d DEF MaxInv
  <2>4. OrphanInv'
    <3>1. \A o \in mapOrphanBlocks : prev[o] \in mapBlockIndex => prev[o] \in Blocks
      BY DEF mapBlockIndex
    <3> QED
      BY <2>a, <2>c, <2>d, <3>1 DEF OrphanInv
  <2> QED
    BY <2>1, <2>2, <2>3, <2>4 DEF Choice
<1>6. ASSUME NEW b \in Blocks, DropOrphan(b) PROVE Choice'
  <2>1. SettledInv'
    BY <1>6, <1>a DEF DropOrphan, mapBlockIndex, SettledInv, Settled, HasFailed, IsFailed
  <2>2. TargetInv'
    BY <1>6, <1>a DEF DropOrphan, mapBlockIndex, TargetInv
  <2>3. MaxInv'
    BY <1>6, <1>a DEF DropOrphan, mapBlockIndex, MaxInv
  <2>4. OrphanInv'
    BY <1>6, <1>a DEF DropOrphan, mapBlockIndex, OrphanInv, HasFailed, IsFailed
  <2> QED
    BY <2>1, <2>2, <2>3, <2>4 DEF Choice
<1>7. CASE OrphansDone
  <2>1. SettledInv'
    BY <1>7, <1>a DEF OrphansDone, mapBlockIndex, Control, SettledInv, Settled, HasFailed, IsFailed
  <2>2. TargetInv'
    BY <1>7, <1>a DEF OrphansDone, mapBlockIndex, Control, TargetInv
  <2>3. MaxInv'
    BY <1>7, <1>a DEF OrphansDone, mapBlockIndex, Control, MaxInv
  <2>4. OrphanInv'
    BY <1>7, <1>a DEF OrphansDone, mapBlockIndex, Control, OrphanInv, HasFailed, IsFailed, Unlocked
  <2> QED
    BY <2>1, <2>2, <2>3, <2>4 DEF Choice
<1>8. CASE NothingBetter
  <2>a. \A c \in mapBlockIndex : Settled(c)
    BY <1>8, NoneBetter, AllSettled DEF NothingBetter
  <2>b. nStatus' = nStatus /\ mapBlockIndex' = mapBlockIndex /\ pindexBest' = pindexBest /\ fDisturbed' = fDisturbed
    BY <1>8 DEF NothingBetter, mapBlockIndex
  <2>c. accepting' = NoBlock /\ vAttach' = {} /\ target' = NoBlock /\ pc' \in {"idle", "orphans"}
        /\ vWorkQueue' = (IF accepting # NoBlock THEN vWorkQueue \cup {accepting} ELSE vWorkQueue)
        /\ mapOrphanBlocks' \subseteq mapOrphanBlocks
    BY <1>8 DEF NothingBetter, ReturnBest, ContinueAfter, DropView
  <2>1. SettledInv'
    BY <2>a, <2>b, <2>c DEF SettledInv, Settled, HasFailed, IsFailed
  <2>2. TargetInv'
    BY <2>c DEF TargetInv
  <2>3. MaxInv'
    BY <2>c DEF MaxInv
  <2>4. OrphanInv'
    <3>1. NoBlock \notin mapBlockIndex
      BY DEF mapBlockIndex
    <3> QED
      BY <2>b, <2>c, <3>1 DEF OrphanInv, HasFailed, IsFailed
  <2> QED
    BY <2>1, <2>2, <2>3, <2>4 DEF Choice
<1>9. CASE AllAttached
  <2>a. \A c \in mapBlockIndex : Settled(c)
    <3>1. \A c \in setBlockIndexValid : nChainWork[c] <= nChainWork[pindexBest]
      BY <1>9 DEF AllAttached, MaxInv
    <3> QED
      BY <1>9, <3>1, AllSettled DEF AllAttached
  <2>b. nStatus' = nStatus /\ mapBlockIndex' = mapBlockIndex /\ pindexBest' = pindexBest /\ fDisturbed' = fDisturbed
    BY <1>9 DEF AllAttached, mapBlockIndex
  <2>c. accepting' = NoBlock /\ vAttach' = {} /\ target' = NoBlock /\ pc' \in {"idle", "orphans"}
        /\ vWorkQueue' = (IF accepting # NoBlock THEN vWorkQueue \cup {accepting} ELSE vWorkQueue)
        /\ mapOrphanBlocks' \subseteq mapOrphanBlocks
    BY <1>9 DEF AllAttached, ReturnBest, ContinueAfter, DropView
  <2>1. SettledInv'
    BY <2>a, <2>b, <2>c DEF SettledInv, Settled, HasFailed, IsFailed
  <2>2. TargetInv'
    BY <2>c DEF TargetInv
  <2>3. MaxInv'
    BY <2>c DEF MaxInv
  <2>4. OrphanInv'
    <3>1. NoBlock \notin mapBlockIndex
      BY DEF mapBlockIndex
    <3> QED
      BY <2>b, <2>c, <3>1 DEF OrphanInv, HasFailed, IsFailed
  <2> QED
    BY <2>1, <2>2, <2>3, <2>4 DEF Choice
<1>10. ASSUME NEW b \in Better, SelectBest(b) PROVE Choice'
  <2>a. /\ nChainWork[b] > nChainWork[pindexBest] /\ b \in Blocks /\ b \in mapBlockIndex
        /\ \A c \in setBlockIndexValid : nChainWork[c] <= nChainWork[b]
    BY <1>10, BetterIsMore DEF SelectBest
  <2>b. ~HasFailed(b)
    BY <1>10, <2>a, AncestryEnough DEF SelectBest
  <2>c. ~Settled(b)
    BY <2>a, <2>b, <1>b, <1>c DEF Settled
  <2>d. b \in vAttach' /\ vAttach' \subseteq Chain[b]
    BY <1>10, <2>a, TreeAssumption DEF SelectBest, Ancestry
  <2>e. mapBlockIndex' = mapBlockIndex
    BY <1>10 DEF SelectBest, mapBlockIndex
  <2>1. SettledInv'
    BY <1>10, <2>e DEF SelectBest, SettledInv, Settled, HasFailed, IsFailed
  <2>2. TargetInv'
    <3>1. ~fDisturbed /\ accepting # NoBlock => b = accepting
      BY <2>a, <2>c DEF SettledInv
    <3> QED
      BY <1>10, <2>d, <3>1, <1>a DEF SelectBest, TargetInv, Control
  <2>3. MaxInv'
    BY <1>10, <2>a, <2>d DEF SelectBest, MaxInv
  <2>4. OrphanInv'
    BY <1>10, <2>e DEF SelectBest, OrphanInv, HasFailed, IsFailed
  <2> QED
    BY <2>1, <2>2, <2>3, <2>4 DEF Choice
<1>11. ASSUME NEW b \in Better, NEW f \in Chain[b], MarkFailedChildren(b, f) PROVE Choice'
  <2>a. b \in mapBlockIndex /\ Chain[b] \subseteq mapBlockIndex
    BY <1>11, <1>a DEF MarkFailedChildren, Better, MostWorkCandidates, ValidSetExact, Indexed
  <2>b. \A c \in Blocks : nStatus[c] \subseteq nStatus'[c] /\ (nStatus'[c] # {} => nStatus[c] # {})
    BY <1>11, <1>a, <2>a DEF MarkFailedChildren, WithFailedChildren, TypeOK, mapBlockIndex
  <2>c. mapBlockIndex' = mapBlockIndex /\ \A c \in Blocks : IsFailed(c) => IsFailed(c)'
    BY <2>b DEF mapBlockIndex, IsFailed
  <2>d. \A c \in Blocks : HasFailed(c) => HasFailed(c)'
    BY <2>c, FailedStays
  <2>e. \A c \in mapBlockIndex : c \in Blocks
    BY DEF mapBlockIndex
  <2>1. SettledInv'
    BY <1>11, <2>c, <2>d, <2>e DEF MarkFailedChildren, SettledInv, Settled
  <2>2. TargetInv'
    BY <1>11 DEF MarkFailedChildren, TargetInv
  <2>3. MaxInv'
    BY <1>11 DEF MarkFailedChildren, MaxInv
  <2>4. OrphanInv'
    BY <1>11, <2>c, <2>d, <2>e DEF MarkFailedChildren, OrphanInv
  <2> QED
    BY <2>1, <2>2, <2>3, <2>4 DEF Choice
<1>12. ASSUME NEW b \in vAttach, Attach(b) PROVE Choice'
  <2>m. ASSUME NEW c \in setBlockIndexValid
        PROVE  \E a \in vAttach : nChainWork[c] <= nChainWork[a]
    <3>1. PICK a \in vAttach \cup {pindexBest} : nChainWork[c] <= nChainWork[a]
      BY <1>12 DEF Attach, MaxInv
    <3>2. nChainWork[pindexBest] <= nChainWork[b] /\ b \in vAttach
      BY <1>a, <1>b, <1>c DEF Rising, TypeOK
    <3>3. nChainWork[c] \in Nat /\ nChainWork[a] \in Nat /\ nChainWork[b] \in Nat
      BY <1>a, <1>b, <1>c DEF TypeOK
    <3> QED
      BY <3>1, <3>2, <3>3
  <2>1. SettledInv'
    BY <1>12, <1>a DEF Attach, mapBlockIndex, SettledInv, Settled, HasFailed, IsFailed
  <2>2. TargetInv'
    BY <1>12, <1>a DEF Attach, mapBlockIndex, TargetInv
  <2>3. MaxInv'
    BY <1>12, <1>a, <2>m DEF Attach, mapBlockIndex, MaxInv
  <2>4. OrphanInv'
    BY <1>12, <1>a DEF Attach, mapBlockIndex, OrphanInv, HasFailed, IsFailed
  <2> QED
    BY <2>1, <2>2, <2>3, <2>4 DEF Choice
<1>13. CASE DisconnectNext
  <2>1. SettledInv'
    BY <1>13, <1>a DEF DisconnectNext, mapBlockIndex, SettledInv, Settled, HasFailed, IsFailed
  <2>2. TargetInv'
    BY <1>13, <1>a DEF DisconnectNext, mapBlockIndex, TargetInv
  <2>3. MaxInv'
    BY <1>13, <1>a DEF DisconnectNext, mapBlockIndex, MaxInv
  <2>4. OrphanInv'
    BY <1>13, <1>a DEF DisconnectNext, mapBlockIndex, OrphanInv, HasFailed, IsFailed
  <2> QED
    BY <2>1, <2>2, <2>3, <2>4 DEF Choice
<1>14. CASE AtFork
  <2>1. SettledInv'
    BY <1>14, <1>a DEF AtFork, mapBlockIndex, SettledInv, Settled, HasFailed, IsFailed
  <2>2. TargetInv'
    BY <1>14, <1>a DEF AtFork, mapBlockIndex, TargetInv
  <2>3. MaxInv'
    BY <1>14, <1>a DEF AtFork, mapBlockIndex, MaxInv
  <2>4. OrphanInv'
    BY <1>14, <1>a DEF AtFork, mapBlockIndex, OrphanInv, HasFailed, IsFailed
  <2> QED
    BY <2>1, <2>2, <2>3, <2>4 DEF Choice
<1>15. CASE ConnectGenesis
  <2>1. SettledInv'
    BY <1>15, <1>a DEF ConnectGenesis, NextToConnect, mapBlockIndex, SettledInv, Settled,
       HasFailed, IsFailed
  <2>2. TargetInv'
    BY <1>15, <1>a DEF ConnectGenesis, NextToConnect, mapBlockIndex, TargetInv
  <2>3. MaxInv'
    BY <1>15, <1>a DEF ConnectGenesis, NextToConnect, mapBlockIndex, MaxInv
  <2>4. OrphanInv'
    BY <1>15, <1>a DEF ConnectGenesis, NextToConnect, mapBlockIndex, OrphanInv, HasFailed, IsFailed
  <2> QED
    BY <2>1, <2>2, <2>3, <2>4 DEF Choice
<1>16. ASSUME NEW b \in Blocks, ConnectNext(b) PROVE Choice'
  <2>a. /\ nStatus[b] # {} /\ nStatus'[b] # {} /\ \A c \in Blocks : c # b => nStatus'[c] = nStatus[c]
        /\ \A c \in Blocks : IsFailed(c) => IsFailed(c)'
    BY <1>16, <1>a DEF ConnectNext, ConnectedStatus, NextToConnect, TypeOK, Indexed,
       mapBlockIndex, Control, IsFailed
  <2>b. mapBlockIndex' = mapBlockIndex
    BY <2>a DEF mapBlockIndex
  <2>d. \A c \in Blocks : HasFailed(c) => HasFailed(c)'
    BY <2>a, FailedStays
  <2>e. \A c \in mapBlockIndex : c \in Blocks
    BY DEF mapBlockIndex
  <2>1. SettledInv'
    BY <1>16, <2>b, <2>d, <2>e DEF ConnectNext, SettledInv, Settled
  <2>2. TargetInv'
    BY <1>16 DEF ConnectNext, TargetInv
  <2>3. MaxInv'
    BY <1>16 DEF ConnectNext, MaxInv
  <2>4. OrphanInv'
    BY <1>16, <2>b, <2>d, <2>e DEF ConnectNext, OrphanInv
  <2> QED
    BY <2>1, <2>2, <2>3, <2>4 DEF Choice
<1>17. ASSUME NEW b \in Blocks, InvalidBlockFound(b) PROVE Choice'
  <2>a. /\ nStatus[b] # {} /\ nStatus'[b] # {} /\ \A c \in Blocks : c # b => nStatus'[c] = nStatus[c]
        /\ IsFailed(b)' /\ \A c \in Blocks : IsFailed(c) => IsFailed(c)'
    BY <1>17, <1>a DEF InvalidBlockFound, NextToConnect, TypeOK, Indexed, mapBlockIndex,
       Control, IsFailed
  <2>b. mapBlockIndex' = mapBlockIndex
    BY <2>a DEF mapBlockIndex
  <2>d. \A c \in Blocks : HasFailed(c) => HasFailed(c)'
    BY <2>a, FailedStays
  <2>e. NoBlock \notin mapBlockIndex /\ \A c \in mapBlockIndex : c \in Blocks
    BY DEF mapBlockIndex
  <2>f. ASSUME NEW c \in Blocks, c = accepting, ~fDisturbed PROVE HasFailed(c)'
    <3>1. target \in Chain[c] /\ b \in Chain[target]
      BY <1>17, <2>f, <1>a DEF InvalidBlockFound, NextToConnect, TargetInv, Control, TypeOK, Nodes
    <3>2. b \in Chain[c]
      BY <3>1, TreeAssumption
    <3> QED
      BY <2>a, <3>2 DEF HasFailed
  <2>g. accepting' = NoBlock /\ vAttach' = {} /\ target' = NoBlock /\ vWorkQueue' = vWorkQueue
        /\ fDisturbed' = fDisturbed /\ pindexBest' = pindexBest /\ mapOrphanBlocks' \subseteq mapOrphanBlocks
        /\ (pc' \in {"idle", "orphans"} => accepting # NoBlock) /\ pc' \in {"idle", "orphans", "failed"}
    BY <1>17 DEF InvalidBlockFound, ReturnBest, ContinueAfter, DropView
  <2>1. SettledInv'
    BY <2>b, <2>d, <2>e, <2>f, <2>g DEF SettledInv, Settled
  <2>2. TargetInv'
    BY <2>g DEF TargetInv
  <2>3. MaxInv'
    BY <2>g DEF MaxInv
  <2>4. OrphanInv'
    BY <2>b, <2>d, <2>e, <2>f, <2>g DEF OrphanInv
  <2> QED
    BY <2>1, <2>2, <2>3, <2>4 DEF Choice
<1>18. CASE BestFlushed
  <2>a. nChainWork[target] > nChainWork[pindexBest] /\ pindexBest' = target /\ pc' = "attach"
    BY <1>18 DEF BestFlushed, FlushView, NewBest, Rising
  <2>b. mapBlockIndex' = mapBlockIndex /\ \A c \in Blocks : HasFailed(c)' <=> HasFailed(c)
    BY <1>18 DEF BestFlushed, mapBlockIndex, HasFailed, IsFailed
  <2>c. \A c \in mapBlockIndex : Settled(c) => Settled(c)'
    <3>1. \A c \in mapBlockIndex : c \in Blocks
      BY DEF mapBlockIndex
    <3> QED
      BY <2>a, <2>b, <3>1, <1>b, <1>c DEF Settled
  <2>1. SettledInv'
    BY <1>18, <2>a, <2>b, <2>c DEF BestFlushed, SettledInv
  <2>2. TargetInv'
    BY <1>18 DEF BestFlushed, NewBest, DropView, TargetInv
  <2>3. MaxInv'
    BY <1>18, <2>a DEF BestFlushed, FlushView, MaxInv
  <2>4. OrphanInv'
    BY <1>18, <2>b DEF BestFlushed, OrphanInv, mapBlockIndex
  <2> QED
    BY <2>1, <2>2, <2>3, <2>4 DEF Choice
<1>19. CASE BestCached
  <2>a. nChainWork[target] > nChainWork[pindexBest] /\ pindexBest' = target /\ pc' = "attach"
    BY <1>19 DEF BestCached, FlushView, NewBest, Rising
  <2>b. mapBlockIndex' = mapBlockIndex /\ \A c \in Blocks : HasFailed(c)' <=> HasFailed(c)
    BY <1>19 DEF BestCached, mapBlockIndex, HasFailed, IsFailed
  <2>c. \A c \in mapBlockIndex : Settled(c) => Settled(c)'
    <3>1. \A c \in mapBlockIndex : c \in Blocks
      BY DEF mapBlockIndex
    <3> QED
      BY <2>a, <2>b, <3>1, <1>b, <1>c DEF Settled
  <2>1. SettledInv'
    BY <1>19, <2>a, <2>b, <2>c DEF BestCached, SettledInv
  <2>2. TargetInv'
    BY <1>19 DEF BestCached, NewBest, DropView, TargetInv
  <2>3. MaxInv'
    BY <1>19, <2>a DEF BestCached, FlushView, MaxInv
  <2>4. OrphanInv'
    BY <1>19, <2>b DEF BestCached, OrphanInv, mapBlockIndex
  <2> QED
    BY <2>1, <2>2, <2>3, <2>4 DEF Choice
<1>20. CASE Crash
  BY <1>20, <1>a DEF Crash, ForgetMemory, DropView, Choice, SettledInv, TargetInv, MaxInv, OrphanInv
<1>21. ASSUME NEW b \in Better, NEW f \in Chain[b], NEW x \in Chain[b], CrashWhileMarking(b, f, x)
       PROVE Choice'
  BY <1>21, <1>a DEF CrashWhileMarking, ForgetMemory, DropView, Choice, SettledInv, TargetInv,
     MaxInv, OrphanInv
<1>22. CASE Interrupt
  BY <1>22 DEF Interrupt, Choice, SettledInv, TargetInv, MaxInv, OrphanInv
<1>23. CASE DiskFull
  BY <1>23 DEF DiskFull, ReturnBest, ContinueAfter, Choice, SettledInv, TargetInv, MaxInv, OrphanInv
<1>24. CASE Abort
  BY <1>24 DEF Abort, ReturnBest, ContinueAfter, Choice, SettledInv, TargetInv, MaxInv, OrphanInv
<1>25. CASE UNCHANGED vars
  <2>1. SettledInv'
    BY <1>25, <1>a DEF vars, mapBlockIndex, SettledInv, Settled, HasFailed, IsFailed
  <2>2. TargetInv'
    BY <1>25, <1>a DEF vars, mapBlockIndex, TargetInv
  <2>3. MaxInv'
    BY <1>25, <1>a DEF vars, mapBlockIndex, MaxInv
  <2>4. OrphanInv'
    BY <1>25, <1>a DEF vars, mapBlockIndex, OrphanInv, HasFailed, IsFailed
  <2> QED
    BY <2>1, <2>2, <2>3, <2>4 DEF Choice
<1> QED
  BY <1>1, <1>2, <1>3, <1>4, <1>5, <1>6, <1>7, <1>8, <1>9, <1>10, <1>11, <1>12, <1>13, <1>14,
     <1>15, <1>16, <1>17, <1>18, <1>19, <1>20, <1>21, <1>22, <1>23, <1>24, <1>25 DEF Next, Step

-----------------------------------------------------------------------------
\* The inductive invariant.
IInv == Typed /\ Sound /\ MainChainLinks /\ Rising /\ Choice

\* The upper layers hold before the first start.
LEMMA RestInit == Init => MainChainLinks /\ Rising /\ Choice
<1> SUFFICES ASSUME Init PROVE MainChainLinks /\ Rising /\ Choice
  OBVIOUS
<1>1. MainChainLinks
  BY LinksNone DEF Init, MainChainLinks
<1>2. Rising
  BY DEF Init, Rising
<1>3. Choice
  BY DEF Init, Choice, SettledInv, TargetInv, MaxInv, OrphanInv
<1> QED
  BY <1>1, <1>2, <1>3

\* The inductive invariant holds in every behaviour.
THEOREM Invariance == Spec => []IInv
<1>1. Init => IInv
  BY TypedInit, SoundInit, RestInit DEF IInv
<1>2. IInv /\ [Next]_vars => IInv'
  BY TypedNext, SoundNext, LinksNext, RisingNext, ChoiceNext DEF IInv
<1> QED
  BY <1>1, <1>2, PTL DEF Spec

\* Types, and one level of validity per block, whatever the blocks and their tree.
THEOREM TypeCorrect == Spec => []TypeOK
<1>1. IInv => TypeOK
  BY DEF IInv, Typed
<1> QED
  BY <1>1, Invariance, PTL

\* Coins and best block of cache, database and temporary view always belong
\* together: a failed or interrupted SetBestChain leaves no half-applied coins.
THEOREM CoinsConsistent == Spec => []CoinsMatchTip
<1>1. IInv => CoinsMatchTip
  BY DEF IInv, Sound
<1> QED
  BY <1>1, Invariance, PTL

\* After a crash at any step VerifyDB finds the undo data of the whole chain of
\* the coins database.
THEOREM CrashSafe == Spec => []Recoverable
<1>1. IInv => Recoverable
  <2> SUFFICES ASSUME IInv, NEW b \in Chain[dbTip] \ {Genesis}
               PROVE  nStatus[b] = {"SCRIPTS", "UNDO"} /\ undo[b] = UndoAt[b]
    BY DEF Recoverable
  <2>1. dbTip \in Nodes /\ b \in Blocks /\ nStatus \in [Blocks -> SUBSET Flags]
    BY TreeTypes DEF IInv, Typed, TypeOK
  <2>2. "SCRIPTS" \in nStatus[b] /\ "UNDO" \in nStatus[b] /\ "TRANSACTIONS" \notin nStatus[b]
    BY <2>1 DEF IInv, Typed, TypeOK, Sound, AllTested, Tested
  <2>3. dbTip \in Blocks
    BY <2>1, ChainNone DEF Nodes
  <2>4. ValidChain(b)
    BY <2>3, TreeAssumption DEF IInv, Sound, AllTested, Tested, ValidChain
  <2>5. ~IsFailed(b)
    BY <2>1, <2>4 DEF IInv, Sound, FailedSound
  <2>6. nStatus[b] = {"SCRIPTS", "UNDO"}
    BY <2>1, <2>2, <2>5 DEF IsFailed, Flags
  <2> QED
    BY <2>1, <2>2, <2>6 DEF IInv, Sound, UndoExact
<1> QED
  BY <1>1, Invariance, PTL

\* setBlockIndexValid is exactly the set of known blocks that have not failed.
THEOREM CandidatesExact == Spec => []ValidSetExact
<1>1. IInv => ValidSetExact
  BY DEF IInv, Sound
<1> QED
  BY <1>1, Invariance, PTL

\* No block with a valid chain is ever marked as failed.
THEOREM FailureSound == Spec => []FailedSound
<1>1. IInv => FailedSound
  BY DEF IInv, Sound
<1> QED
  BY <1>1, Invariance, PTL

\* Only valid chains become the best one, in memory and on disk.
THEOREM OnlyValidChains == Spec => []MainBranchValid
<1>1. IInv => MainBranchValid
  BY DEF IInv, Sound, AllTested, Tested, LinksValid, ValidChain, MainBranchValid
<1> QED
  BY <1>1, Invariance, PTL

\* pnext follows the best chain.
THEOREM LinksExact == Spec => []MainChainLinks
<1>1. IInv => MainChainLinks
  BY DEF IInv
<1> QED
  BY <1>1, Invariance, PTL

\* A failed mark in a chain means that the chain does not connect.
LEMMA FailedInvalid ==
  ASSUME FailedSound, NEW b \in Blocks, HasFailed(b)
  PROVE  ~ValidChain(b)
<1>1. PICK f \in Chain[b] : IsFailed(f)
  BY DEF HasFailed
<1>2. f \in Blocks /\ Chain[f] \subseteq Chain[b]
  BY <1>1, TreeAssumption, TreeTypes
<1> QED
  BY <1>1, <1>2 DEF FailedSound, ValidChain

\* The node ends every undisturbed call on a known valid chain with the most work.
THEOREM BestChain == Spec => []MostWork
<1>1. IInv => MostWork
  <2> SUFFICES ASSUME IInv, pc = "idle", ~fDisturbed, NEW b \in mapBlockIndex, ValidChain(b)
               PROVE  nChainWork[b] <= nChainWork[pindexBest]
    BY DEF MostWork
  <2>1. b \in Blocks
    BY DEF mapBlockIndex
  <2>2. Settled(b)
    BY DEF IInv, Choice, SettledInv
  <2> QED
    BY <2>1, <2>2, FailedInvalid DEF IInv, Sound, Settled
<1> QED
  BY <1>1, Invariance, PTL

\* Undisturbed calls strand no orphan whose parent is known and valid.
THEOREM OrphansServed == Spec => []NoStrandedOrphan
<1>1. IInv => NoStrandedOrphan
  <2> SUFFICES ASSUME IInv, pc = "idle", ~fDisturbed, NEW o \in mapOrphanBlocks, prev[o] \in mapBlockIndex
               PROVE  ~ValidChain(prev[o])
    BY DEF NoStrandedOrphan
  <2>1. prev[o] \in Blocks /\ prev[o] # NoBlock
    BY TreeTypes DEF mapBlockIndex
  <2>2. HasFailed(prev[o])
    BY <2>1 DEF IInv, Typed, Control, Choice, OrphanInv
  <2> QED
    BY <2>1, <2>2, FailedInvalid DEF IInv, Sound
<1> QED
  BY <1>1, Invariance, PTL

\* While the process runs, pindexBest moves only to more work.
THEOREM WorkRises == Spec => WorkNeverDecreases
<1> DEFINE A == pc # "down" /\ pc' # "down" =>
                  pindexBest' = pindexBest \/ nChainWork[pindexBest'] > nChainWork[pindexBest]
<1>1. ASSUME IInv, [Next]_vars PROVE A
  <2> SUFFICES ASSUME pc # "down", pc' # "down", pindexBest' # pindexBest
               PROVE  nChainWork[pindexBest'] > nChainWork[pindexBest]
    OBVIOUS
  <2>1. BestFlushed \/ BestCached
    BY <1>1 DEF Next, Step, vars, index, memory, db, call, Start, ShutDown, ProcessBlock,
       ProcessOrphan, AcceptOrphan,
       DropOrphan, OrphansDone, NothingBetter, AllAttached, SelectBest, MarkFailedChildren, Attach,
       DisconnectNext, AtFork, ConnectGenesis, ConnectNext, InvalidBlockFound, Crash, CrashWhileMarking,
       ForgetMemory, Interrupt, DiskFull, Abort
  <2> QED
    BY <1>1, <2>1 DEF IInv, Rising, BestFlushed, BestCached, FlushView, NewBest
<1>2. IInv /\ [Next]_vars => [A]_vars
  BY <1>1
<1> QED
  BY <1>2, Invariance, PTL DEF Spec, WorkNeverDecreases
=============================================================================
