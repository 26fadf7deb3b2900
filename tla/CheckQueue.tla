----------------------------- MODULE CheckQueue -----------------------------
(***************************************************************************)
(* The parallel script checker: CCheckQueue and CCheckQueueControl of      *)
(* src/src/checkqueue.h, used by CBlock::ConnectBlock in src/src/main.cpp. *)
(*                                                                         *)
(* Worker threads run Loop(false) for ever; the thread that connects a     *)
(* block is the master: it builds a control, adds batches of checks and    *)
(* calls Wait(), that is Loop(true), directly or from the destructor of    *)
(* the control when ConnectBlock is left early.  An interruption that      *)
(* reaches the master in the direct call leads to the destructor, which    *)
(* waits again; one that reaches it in the destructor leaves that too.     *)
(* A critical section is cut in two steps (acquire and update the          *)
(* counters; decide what to do next), because the constructor of the       *)
(* control reads the counters without the mutex.  fQuit is never set by    *)
(* any code and is left out.                                               *)
(***************************************************************************)
EXTENDS Naturals, FiniteSets

CONSTANTS Workers,       \* nScriptCheckThreads - 1 threads of ThreadScriptCheck
          Master,        \* the thread that connects blocks
          Checks,        \* script checks a session may contain
          Valid,         \* the checks whose script evaluates to true
          nBatchSize,    \* 128 in the code
          NoThread,      \* the mutex is free
          MaxInterrupts  \* bound on interruptions in the life of a process

ASSUME ThreadsAssumption == Master \notin Workers /\ NoThread \notin Workers \cup {Master}
ASSUME FiniteAssumption  == IsFiniteSet(Workers) /\ IsFiniteSet(Checks)
ASSUME BoundsAssumption  == nBatchSize \in Nat \ {0} /\ MaxInterrupts \in Nat

VARIABLES queue,    \* checks not yet taken; a set, as their order does not matter
          nIdle, nTotal, fAllOk, nTodo,
          caller,   \* who called Loop(true); "Wait" outside of it
          mutex,    \* the thread that holds the mutex, or NoThread
          pc,       \* where each thread is
          batch,    \* [thread -> the nNow checks it took and has not accounted for]
          fOk,      \* [thread -> its local fOk]
          intr,     \* threads with a pending boost interruption
          nIntr,    \* interruptions so far
          added,    \* history: the checks added in the current or last session
          ret       \* history: what Wait() returned to ConnectBlock, TRUE before

vars == <<queue, nIdle, nTotal, fAllOk, nTodo, caller, mutex, pc, batch, fOk, intr, nIntr, added, ret>>

Threads == Workers \cup {Master}

\* "enter": about to lock for the first time; "loop": holds the mutex at the
\* head of while(queue.empty()); "wait"/"woken": inside cond.wait; "exec": runs
\* its batch; "clean": about to lock again; "dead": left by an interruption.
\* The master is "idle" when no control exists; "thrown": the same, but an
\* interruption has left the destructor of the last one.
WorkerPCs == {"enter", "loop", "wait", "woken", "exec", "clean", "dead"}
MasterPCs == {"idle", "thrown", "open", "enter", "loop", "wait", "woken", "exec", "clean"}

\* "Wait": ConnectBlock; "return": the destructor, when ConnectBlock returns early;
\* "unwind": the destructor, when an exception leaves ConnectBlock.
Callers == {"Wait", "return", "unwind"}

StartPC == [t \in Threads |-> IF t = Master THEN "idle" ELSE "enter"]
NoBatch == [t \in Threads |-> {}]
AllTrue == [t \in Threads |-> TRUE]

Init == /\ queue = {} /\ nIdle = 0 /\ nTotal = 0 /\ fAllOk = TRUE /\ nTodo = 0
        /\ mutex = NoThread /\ pc = StartPC /\ caller = "Wait"
        /\ batch = NoBatch /\ fOk = AllTrue
        /\ intr = {} /\ nIntr = 0
        /\ added = {} /\ ret = TRUE

-----------------------------------------------------------------------------
\* The process ends, by a failed assertion, std::terminate or a crash, and is started
\* again.
Dies == /\ queue' = {} /\ nIdle' = 0 /\ nTotal' = 0 /\ fAllOk' = TRUE /\ nTodo' = 0
        /\ mutex' = NoThread /\ pc' = StartPC /\ caller' = "Wait"
        /\ batch' = NoBatch /\ fOk' = AllTrue
        /\ intr' = {} /\ nIntr' = 0
        /\ added' = {} /\ ret' = TRUE

\* What CCheckQueueControl's constructor asserts of the queue, which it reads without
\* the mutex.
Unused == nTotal = nIdle /\ nTodo = 0 /\ fAllOk

\* The constructor.
NewControl == /\ pc[Master] \in {"idle", "thrown"}
              /\ \/ /\ Unused
                    /\ pc' = [pc EXCEPT ![Master] = "open"]
                    /\ added' = {} /\ ret' = TRUE
                    /\ UNCHANGED <<queue, nIdle, nTotal, fAllOk, nTodo, caller, mutex, batch, fOk, intr, nIntr>>
                 \/ ~Unused /\ Dies

\* The workers a notification on condWorker wakes: one for a single check, all
\* for more, none for an empty batch.
Notified(S, W) == LET waiting == {w \in Workers : pc[w] = "wait"}
                  IN  IF Cardinality(S) = 1
                      THEN W \subseteq waiting /\ Cardinality(W) = (IF waiting = {} THEN 0 ELSE 1)
                      ELSE W = (IF S = {} THEN {} ELSE waiting)

\* Add(vChecks): push, count, notify.
Add == /\ pc[Master] = "open" /\ mutex = NoThread
       /\ \E S \in SUBSET (Checks \ added) : \E W \in SUBSET Workers :
            /\ Notified(S, W)
            /\ queue' = queue \cup S
            /\ nTodo' = nTodo + Cardinality(S)
            /\ added' = added \cup S
            /\ pc' = [t \in Threads |-> IF t \in W THEN "woken" ELSE pc[t]]
       /\ UNCHANGED <<nIdle, nTotal, fAllOk, mutex, batch, fOk, intr, nIntr, ret, caller>>

\* Wait(): the master joins the pool.
CallWait == /\ pc[Master] = "open"
            /\ pc' = [pc EXCEPT ![Master] = "enter"] /\ caller' = "Wait"
            /\ UNCHANGED <<queue, nIdle, nTotal, fAllOk, nTodo, mutex, batch, fOk, intr, nIntr, added, ret>>

\* ConnectBlock returns before it has called Wait(), or a database read throws: fDone
\* is false and ~CCheckQueueControl() calls Wait().
LeaveEarly == /\ pc[Master] = "open"
              /\ pc' = [pc EXCEPT ![Master] = "enter"] /\ caller' \in {"return", "unwind"}
              /\ UNCHANGED <<queue, nIdle, nTotal, fAllOk, nTodo, mutex, batch, fOk, intr, nIntr, added, ret>>

-----------------------------------------------------------------------------
\* Each helper of the form XxxBug is the mutation used to test a property.

\* First iteration of Loop: lock, nTotal++.
Enter(t) == /\ pc[t] = "enter" /\ mutex = NoThread
            /\ mutex' = t
            /\ nTotal' = nTotal + 1
            /\ pc' = [pc EXCEPT ![t] = "loop"]
            /\ UNCHANGED <<queue, nIdle, fAllOk, nTodo, batch, fOk, intr, nIntr, added, ret, caller>>

\* fAllOk &= fOk
CombinedOkBug(t) == fOk[t]
CombinedOk(t) == fAllOk /\ fOk[t]

\* nTodo -= nNow
TodoLeft(t) == nTodo - Cardinality(batch[t])

\* condMaster.notify_one() by a worker that processed the last element.
WakesMasterBug(t) == FALSE
WakesMaster(t) == TodoLeft(t) = 0 /\ t # Master /\ pc[Master] = "wait"

\* Later iterations: lock, account for the batch just executed; a worker that
\* finishes the last check notifies the master.
CleanUp(t) == /\ pc[t] = "clean" /\ mutex = NoThread
              /\ mutex' = t
              /\ fAllOk' = CombinedOk(t)
              /\ nTodo' = TodoLeft(t)
              /\ batch' = [batch EXCEPT ![t] = {}]
              /\ fOk' = [fOk EXCEPT ![t] = TRUE]     \* dead until the next Take
              /\ pc' = [u \in Threads |->
                          IF u = t THEN "loop"
                          ELSE IF u = Master /\ WakesMaster(t) THEN "woken"
                          ELSE pc[u]]
              /\ UNCHANGED <<queue, nIdle, nTotal, intr, nIntr, added, ret, caller>>

\* if (fMaster) fAllOk = true
AllOkAfterReturnBug == fAllOk
AllOkAfterReturn == TRUE

\* Nothing left for the master: it returns fAllOk, which the destructor ignores, and
\* resets it.
Return(t) == /\ pc[t] = "loop" /\ queue = {} /\ t = Master /\ nTodo = 0
             /\ nTotal' = nTotal - 1
             /\ ret' = IF caller = "Wait" THEN fAllOk ELSE ret
             /\ fAllOk' = AllOkAfterReturn
             /\ mutex' = NoThread
             /\ pc' = [pc EXCEPT ![t] = "idle"] /\ caller' = "Wait"
             /\ UNCHANGED <<queue, nIdle, nTodo, batch, fOk, intr, nIntr, added>>

\* The queue is empty but work is under way (or t is a worker): cond.wait.
Sleep(t) == /\ pc[t] = "loop" /\ queue = {} /\ ~(t = Master /\ nTodo = 0)
            /\ nIdle' = nIdle + 1
            /\ mutex' = NoThread
            /\ pc' = [pc EXCEPT ![t] = "wait"]
            /\ UNCHANGED <<queue, nTotal, fAllOk, nTodo, batch, fOk, intr, nIntr, added, ret, caller>>

\* How many work units to take: the code's max(1, min(nBatchSize, size / ...)).
nNow == LET share == Cardinality(queue) \div (nTotal + nIdle + 1)
            capped == IF share < nBatchSize THEN share ELSE nBatchSize
        IN  IF capped < 1 THEN 1 ELSE capped

\* Take a batch, read fAllOk, unlock.
Take(t) == /\ pc[t] = "loop" /\ queue # {}
           /\ \E S \in SUBSET queue :
                /\ Cardinality(S) = nNow
                /\ queue' = queue \ S
                /\ batch' = [batch EXCEPT ![t] = S]
           /\ fOk' = [fOk EXCEPT ![t] = fAllOk]
           /\ mutex' = NoThread
           /\ pc' = [pc EXCEPT ![t] = "exec"]
           /\ UNCHANGED <<nIdle, nTotal, fAllOk, nTodo, intr, nIntr, added, ret, caller>>

\* What a batch evaluates to.  The checks point into the block and the view of
\* ConnectBlock: after that is gone, anything.
Verdicts(t) == IF pc[Master] = "thrown" THEN BOOLEAN ELSE {batch[t] \subseteq Valid}

\* Execute the batch outside the lock; checks after a failure are skipped.
Execute(t) == /\ pc[t] = "exec"
              /\ \E ok \in Verdicts(t) : fOk' = [fOk EXCEPT ![t] = fOk[t] /\ ok]
              /\ pc' = [pc EXCEPT ![t] = "clean"]
              /\ UNCHANGED <<queue, nIdle, nTotal, fAllOk, nTodo, mutex, batch, intr, nIntr, added, ret, caller>>

ExecuteDangling(t) == pc[t] = "exec" /\ pc[Master] = "thrown" /\ Dies

\* pthread condition variables may wake a thread that nobody notified.
SpuriousWake(t) == /\ pc[t] = "wait"
                   /\ pc' = [pc EXCEPT ![t] = "woken"]
                   /\ UNCHANGED <<queue, nIdle, nTotal, fAllOk, nTodo, mutex, batch, fOk, intr, nIntr, added, ret, caller>>

\* cond.wait returns with the mutex: nIdle--, back to while(queue.empty()).
WakeUp(t) == /\ pc[t] = "woken" /\ mutex = NoThread
             /\ mutex' = t
             /\ nIdle' = nIdle - 1
             /\ pc' = [pc EXCEPT ![t] = "loop"]
             /\ UNCHANGED <<queue, nTotal, fAllOk, nTodo, batch, fOk, intr, nIntr, added, ret, caller>>

-----------------------------------------------------------------------------
\* threadGroup.interrupt_all() at shutdown, or minerThreads->interrupt_all()
\* when the thread that connects the block is a miner.
Interrupt == /\ nIntr < MaxInterrupts
             /\ nIntr' = nIntr + 1
             /\ intr' \in {intr \cup Threads, intr \cup Workers, intr \cup {Master}}
             /\ UNCHANGED <<queue, nIdle, nTotal, fAllOk, nTodo, mutex, pc, batch, fOk, added, ret, caller>>

\* Where an interrupted thread goes: a worker is gone; the master comes from its
\* own call of Wait() to ~CCheckQueueControl(), which calls it because fDone is
\* false, and from there it is out.
UnwindToBug(t) == IF t = Master THEN "idle" ELSE "dead"
UnwindTo(t) == IF t # Master THEN "dead" ELSE IF caller = "Wait" THEN "enter" ELSE "thrown"

\* cond.wait throws thread_interrupted (after taking and releasing the mutex);
\* the counters are not restored.
InWait(t) == pc[t] \in {"wait", "woken"} /\ t \in intr /\ mutex = NoThread

Interrupted(t) == /\ InWait(t) /\ (t = Master => caller # "unwind")
                  /\ intr' = intr \ {t}
                  /\ pc' = [pc EXCEPT ![t] = UnwindTo(t)]
                  /\ caller' = IF t # Master THEN caller ELSE IF caller = "Wait" THEN "unwind" ELSE "Wait"
                  /\ UNCHANGED <<queue, nIdle, nTotal, fAllOk, nTodo, mutex, batch, fOk, nIntr, added, ret>>

\* An exception that leaves a destructor calls std::terminate: always while another
\* one is on its way, and since C++11 in any case.
Terminate == InWait(Master) /\ caller # "Wait" /\ Dies

ThreadStep(t) == \/ Enter(t) \/ CleanUp(t) \/ Return(t) \/ Sleep(t) \/ Take(t) \/ Execute(t)
                 \/ WakeUp(t) \/ Interrupted(t)

Next == \/ NewControl \/ Add \/ CallWait \/ LeaveEarly \/ Interrupt \/ Terminate
        \/ \E t \in Threads : ThreadStep(t) \/ SpuriousWake(t) \/ ExecuteDangling(t)

Spec == Init /\ [][Next]_vars

\* Threads inside Loop are scheduled, and the mutex is not withheld from one
\* thread for ever (spurious wake-ups may otherwise keep taking it).
Fairness == \A t \in Threads : SF_vars(ThreadStep(t))

FairSpec == Spec /\ Fairness

-----------------------------------------------------------------------------
(* Properties.                                                             *)

Busy == {t \in Threads : pc[t] \in {"loop", "exec", "clean"}}
Pending == queue \cup UNION {batch[t] : t \in Threads}

\* Types and ranges of the queue's fields; nTodo is unsigned in the code, so that
\* the subtraction of CleanUp must never go below zero.
TypeOK == /\ queue \subseteq Checks
          /\ nIdle \in Nat /\ nTotal \in Nat /\ nTodo \in Nat
          /\ fAllOk \in BOOLEAN /\ ret \in BOOLEAN
          /\ mutex \in Threads \cup {NoThread}
          /\ pc \in [Threads -> WorkerPCs \cup MasterPCs]
          /\ pc[Master] \in MasterPCs
          /\ \A w \in Workers : pc[w] \in WorkerPCs
          /\ batch \in [Threads -> SUBSET Checks]
          /\ fOk \in [Threads -> BOOLEAN]
          /\ caller \in Callers
          /\ intr \subseteq Threads /\ nIntr \in 0..MaxInterrupts
          /\ added \subseteq Checks

\* Once the master is out of Wait(), by a return or after an interruption of its own
\* call, no thread holds a check (a check points into the block and the view that
\* ConnectBlock is about to destroy).
NoDanglingChecks == pc[Master] = "idle" => Pending = {}

\* "RAII-style controller object for a CCheckQueue that guarantees the passed queue is
\* finished before continuing": the same however the control was left, by an
\* interruption of the wait in its destructor too.
QueueFinished == pc[Master] \in {"idle", "thrown"} => Pending = {}

\* Read under the mutex, the three assertions of CCheckQueueControl's constructor
\* hold whenever the last control was left in order, interruptions and late starts
\* of workers included.
QuiescentUnderLock == pc[Master] = "idle" /\ mutex = NoThread => Unused

\* The same assertions as the constructor evaluates them, without the mutex.
ControlAsserts == [][NewControl => Unused]_vars

\* Wait() answers exactly the conjunction of the session's checks, at most once per
\* session; a session that begins after an interruption has left the destructor of the
\* one before owes it nothing: the queue implements the abstract session.
phase == IF pc[Master] \in {"idle", "thrown"} THEN "idle"
         ELSE IF pc[Master] = "open" THEN "open"
         ELSE IF caller = "Wait" THEN "waiting" ELSE "closing"

Session == INSTANCE ScriptCheckSession
SessionSpec == Session!ASpec

\* A master that waits, itself or in the destructor, comes out: no wake-up is lost,
\* neither by notify_one nor by the death of an interrupted worker.
WaitReturns == pc[Master] = "enter" ~> (pc[Master] \in {"idle", "thrown"})

=============================================================================
