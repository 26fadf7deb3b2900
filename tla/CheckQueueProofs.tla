-------------------------- MODULE CheckQueueProofs --------------------------
(***************************************************************************)
(* Proofs about CheckQueue for any number of workers and checks: the       *)
(* counters are exact, no check outlives a session that is left in order,  *)
(* and the queue implements ScriptCheckSession.                            *)
(***************************************************************************)
EXTENDS CheckQueue, Integers, FiniteSetTheorems, TLAPS

\* The mutex is held exactly by the thread between its two half sections.
MutexInv == \A t \in Threads : pc[t] = "loop" <=> mutex = t

\* A thread holds a batch exactly while it executes and accounts for it, and no
\* check is in two places.
BatchInv == /\ \A t \in Threads : batch[t] # {} <=> pc[t] \in {"exec", "clean"}
            /\ \A t \in Threads : batch[t] \cap queue = {}
            /\ \A t, u \in Threads : t # u => batch[t] \cap batch[u] = {}

\* nTodo counts the checks that are queued or in a batch.
TodoInv == nTodo = Cardinality(Pending)

\* nTotal and nIdle differ by the threads that are awake inside Loop, whatever
\* interruptions leaked into both.
CountInv == nTotal = nIdle + Cardinality(Busy)

Asleep == {t \in Threads : pc[t] \in {"wait", "woken"}}

\* Every sleeping thread is counted in nIdle.
IdleInv == nIdle >= Cardinality(Asleep)

\* What fAllOk and the threads' fOk say about the checks of this session, while its
\* block exists: after an interruption out of the destructor they may say anything, and
\* only the assertions of the next constructor stop it from spreading.
ResultInv == /\ Pending \subseteq added
             /\ pc[Master] = "idle" => Pending = {} /\ fAllOk
             /\ pc[Master] \notin {"idle", "thrown"} =>
                   /\ fAllOk => added \ Pending \subseteq Valid
                   /\ ~fAllOk => ~(added \subseteq Valid)
             /\ pc[Master] # "thrown" =>
                   /\ \A t \in Threads : pc[t] \in {"exec", "clean"} /\ ~fOk[t] => ~(added \subseteq Valid)
                   /\ \A t \in Threads : pc[t] = "clean" /\ fOk[t] => batch[t] \subseteq Valid

IInv == TypeOK /\ MutexInv /\ BatchInv /\ TodoInv /\ CountInv /\ IdleInv /\ ResultInv

-----------------------------------------------------------------------------
\* Disjoint union and difference of finite sets.
LEMMA CardUnion ==
  ASSUME NEW S, NEW T, IsFiniteSet(S), IsFiniteSet(T), S \cap T = {}
  PROVE  Cardinality(S \cup T) = Cardinality(S) + Cardinality(T)
<1>1. Cardinality(S \cap T) = 0
  BY FS_EmptySet
<1>2. Cardinality(S) \in Nat /\ Cardinality(T) \in Nat
  BY FS_CardinalityType
<1>3. Cardinality(S \cup T) = Cardinality(S) + Cardinality(T) - Cardinality(S \cap T)
  BY FS_Union
<1> QED
  BY <1>1, <1>2, <1>3

LEMMA CardMinus ==
  ASSUME NEW S, NEW T, IsFiniteSet(S), T \subseteq S
  PROVE  /\ IsFiniteSet(T)
         /\ Cardinality(S \ T) = Cardinality(S) - Cardinality(T)
         /\ Cardinality(T) <= Cardinality(S)
         /\ Cardinality(S \ T) \in Nat
<1>1. IsFiniteSet(T) /\ IsFiniteSet(S \ T) /\ Cardinality(T) <= Cardinality(S)
  BY FS_Subset
<1>2. Cardinality((S \ T) \cup T) = Cardinality(S \ T) + Cardinality(T)
  BY <1>1, CardUnion
<1>3. (S \ T) \cup T = S
  OBVIOUS
<1>4. Cardinality(S) \in Nat /\ Cardinality(T) \in Nat /\ Cardinality(S \ T) \in Nat
  BY <1>1, FS_CardinalityType
<1> QED
  BY <1>1, <1>2, <1>3, <1>4

\* Threads, the pending checks and the two groups of threads are finite.
LEMMA Finite ==
  ASSUME TypeOK
  PROVE  /\ IsFiniteSet(Threads)
         /\ IsFiniteSet(Pending) /\ Pending \subseteq Checks
         /\ IsFiniteSet(Busy) /\ IsFiniteSet(Asleep)
         /\ Cardinality(Pending) \in Nat
         /\ Cardinality(Busy) \in Nat /\ Cardinality(Asleep) \in Nat
<1>1. IsFiniteSet(Threads)
  BY FiniteAssumption, FS_AddElement DEF Threads
<1>2. Pending \subseteq Checks
  BY DEF Pending, TypeOK
<1>3. Busy \subseteq Threads /\ Asleep \subseteq Threads
  BY DEF Busy, Asleep
<1> QED
  BY <1>1, <1>2, <1>3, FiniteAssumption, FS_Subset, FS_CardinalityType

LEMMA InitIInv == Init => IInv
<1> SUFFICES ASSUME Init PROVE IInv
  OBVIOUS
<1>1. TypeOK
  BY ThreadsAssumption, BoundsAssumption
  DEF Init, TypeOK, Threads, WorkerPCs, MasterPCs, Callers, StartPC, NoBatch, AllTrue
<1>2. Pending = {} /\ Busy = {} /\ Asleep = {}
  BY ThreadsAssumption DEF Init, Pending, Busy, Asleep, Threads, StartPC, NoBatch
<1>3. MutexInv /\ BatchInv /\ ResultInv
  BY <1>2, ThreadsAssumption DEF Init, MutexInv, BatchInv, ResultInv, Threads, StartPC, NoBatch, AllTrue
<1>4. TodoInv /\ CountInv /\ IdleInv
  BY <1>2, FS_EmptySet DEF Init, TodoInv, CountInv, IdleInv
<1> QED
  BY <1>1, <1>3, <1>4 DEF IInv
-----------------------------------------------------------------------------
\* A process that is started again is in the initial state.
LEMMA DiesStep ==
  ASSUME Dies
  PROVE  IInv'
<1>1. TypeOK'
  BY ThreadsAssumption, BoundsAssumption
  DEF Dies, TypeOK, Threads, WorkerPCs, MasterPCs, Callers, StartPC, NoBatch, AllTrue
<1>2. Pending' = {} /\ Busy' = {} /\ Asleep' = {}
  BY ThreadsAssumption DEF Dies, Pending, Busy, Asleep, Threads, StartPC, NoBatch
<1>3. MutexInv' /\ BatchInv' /\ ResultInv'
  BY <1>2, ThreadsAssumption DEF Dies, MutexInv, BatchInv, ResultInv, Threads, StartPC, NoBatch, AllTrue
<1>4. TodoInv' /\ CountInv' /\ IdleInv'
  BY <1>2, FS_EmptySet DEF Dies, TodoInv, CountInv, IdleInv
<1> QED
  BY <1>1, <1>3, <1>4 DEF IInv

\* A control that passes its assertions.
Opens == Unused /\ NewControl /\ pc' = [pc EXCEPT ![Master] = "open"]
         /\ added' = {} /\ ret' = TRUE
         /\ UNCHANGED <<queue, nIdle, nTotal, fAllOk, nTodo, caller, mutex, batch, fOk, intr, nIntr>>

\* Steps that neither move a check nor put a thread to sleep or to work.
LEMMA MasterSteps ==
  ASSUME IInv, Opens \/ CallWait \/ LeaveEarly \/ Interrupt
  PROVE  IInv'
<1> USE DEF IInv
<1>0. Opens => pc[Master] \in {"idle", "thrown"}
  BY DEF Opens, NewControl
<1>a. Opens => pc' = [pc EXCEPT ![Master] = "open"] /\ added' = {} /\ ret' = TRUE /\ fAllOk /\ nTodo = 0
               /\ UNCHANGED <<queue, nIdle, nTotal, fAllOk, nTodo, caller, mutex, batch, fOk, intr, nIntr>>
  BY DEF Opens, Unused
<1>1. TypeOK'
  <2>1. CASE Opens
    BY <2>1, <1>0, <1>a, ThreadsAssumption, BoundsAssumption DEF TypeOK, Threads, WorkerPCs, MasterPCs, Callers
  <2>2. CASE CallWait \/ LeaveEarly
    BY <2>2, ThreadsAssumption, BoundsAssumption
    DEF TypeOK, Threads, WorkerPCs, MasterPCs, Callers, CallWait, LeaveEarly
  <2>3. CASE Interrupt
    BY <2>3, ThreadsAssumption, BoundsAssumption DEF TypeOK, Threads, WorkerPCs, MasterPCs, Interrupt
  <2> QED
    BY <2>1, <2>2, <2>3
<1>2. MutexInv' /\ BatchInv'
  <2>1. CASE Opens
    BY <2>1, <1>0, <1>a, ThreadsAssumption DEF TypeOK, Threads, MutexInv, BatchInv
  <2>2. CASE CallWait \/ LeaveEarly \/ Interrupt
    BY <2>2, ThreadsAssumption DEF TypeOK, Threads, MutexInv, BatchInv, CallWait, LeaveEarly, Interrupt
  <2> QED
    BY <2>1, <2>2
<1>3. Pending' = Pending /\ Busy' = Busy /\ Asleep' = Asleep
  <2>1. CASE Opens
    BY <2>1, <1>0, <1>a, ThreadsAssumption DEF TypeOK, Threads, Pending, Busy, Asleep
  <2>2. CASE CallWait \/ LeaveEarly \/ Interrupt
    BY <2>2, ThreadsAssumption DEF TypeOK, Threads, Pending, Busy, Asleep, CallWait, LeaveEarly, Interrupt
  <2> QED
    BY <2>1, <2>2
<1>4. TodoInv' /\ CountInv' /\ IdleInv'
  <2>1. UNCHANGED <<nTodo, nTotal, nIdle>>
    BY <1>a DEF CallWait, LeaveEarly, Interrupt
  <2> QED
    BY <1>3, <2>1 DEF TodoInv, CountInv, IdleInv
<1>5. ResultInv'
  <2>1. CASE Opens
    <3>1. Pending = {}
      BY <2>1, <1>a, Finite, FS_EmptySet DEF TodoInv
    <3>2. \A t \in Threads : batch[t] = {}
      BY <3>1 DEF Pending
    <3>3. \A t \in Threads : pc'[t] \notin {"exec", "clean"}
      BY <3>2, <2>1, <1>a DEF BatchInv, TypeOK
    <3> QED
      BY <1>3, <2>1, <1>a, <3>1, <3>3 DEF ResultInv, TypeOK, Threads
  <2>2. CASE CallWait \/ LeaveEarly \/ Interrupt
    BY <1>3, <2>2 DEF ResultInv, CallWait, LeaveEarly, Interrupt, TypeOK, Threads
  <2> QED
    BY <2>1, <2>2
<1> QED
  BY <1>1, <1>2, <1>4, <1>5

LEMMA AddStep ==
  ASSUME IInv, Add
  PROVE  IInv'
<1> USE DEF IInv
<1>1. PICK S \in SUBSET (Checks \ added), W \in SUBSET Workers :
         /\ Notified(S, W)
         /\ queue' = queue \cup S
         /\ nTodo' = nTodo + Cardinality(S)
         /\ added' = added \cup S
         /\ pc' = [t \in Threads |-> IF t \in W THEN "woken" ELSE pc[t]]
  BY DEF Add
<1>2. /\ pc[Master] = "open" /\ mutex = NoThread
      /\ UNCHANGED <<nIdle, nTotal, fAllOk, mutex, batch, fOk, intr, nIntr, ret, caller>>
  BY DEF Add
<1>3. \A w \in W : pc[w] = "wait"
  <2>1. CASE W = {}
    BY <2>1
  <2>2. CASE W # {}
    BY <1>1 DEF Notified
  <2> QED
    BY <2>1, <2>2
<1>4. IsFiniteSet(S) /\ Cardinality(S) \in Nat
  BY FiniteAssumption, FS_Subset, FS_CardinalityType
<1>5. TypeOK'
  BY <1>1, <1>2, <1>4, ThreadsAssumption DEF TypeOK, Threads, WorkerPCs, MasterPCs
<1>6. \A t \in Threads : pc'[t] = pc[t] \/ (pc[t] = "wait" /\ pc'[t] = "woken")
  BY <1>1, <1>3
<1>7. pc'[Master] = "open"
  BY <1>1, <1>2, ThreadsAssumption DEF Threads
<1>8. MutexInv'
  BY <1>2, <1>6 DEF MutexInv
<1>9. Pending \subseteq added
  BY DEF ResultInv
<1>10. BatchInv'
  BY <1>1, <1>2, <1>6, <1>9 DEF BatchInv, Pending
<1>11. Pending' = Pending \cup S /\ Pending \cap S = {}
  BY <1>1, <1>2, <1>9 DEF Pending
<1>12. TodoInv'
  BY <1>1, <1>4, <1>11, CardUnion, Finite DEF TodoInv
<1>13. Busy' = Busy /\ Asleep' = Asleep
  BY <1>6 DEF Busy, Asleep
<1>14. CountInv' /\ IdleInv'
  BY <1>2, <1>13 DEF CountInv, IdleInv
<1>15. ResultInv'
  BY <1>1, <1>2, <1>6, <1>7, <1>11 DEF ResultInv
<1> QED
  BY <1>5, <1>8, <1>10, <1>12, <1>14, <1>15

\* A thread t that starts or stops being awake inside Loop.
LEMMA BusyStep ==
  ASSUME TypeOK, NEW t \in Threads,
         \A u \in Threads \ {t} : pc'[u] = pc[u]
                                   \/ (pc[u] = "wait" /\ pc'[u] = "woken")
  PROVE  /\ t \notin Busy /\ t \in Busy' => Cardinality(Busy') = Cardinality(Busy) + 1
         /\ t \in Busy /\ t \notin Busy' => Cardinality(Busy') = Cardinality(Busy) - 1
         /\ (t \in Busy <=> t \in Busy') => Cardinality(Busy') = Cardinality(Busy)
         /\ t \notin Asleep /\ t \in Asleep' => Cardinality(Asleep') = Cardinality(Asleep) + 1
         /\ t \in Asleep /\ t \notin Asleep' => Cardinality(Asleep') = Cardinality(Asleep) - 1
         /\ (t \in Asleep <=> t \in Asleep') => Cardinality(Asleep') = Cardinality(Asleep)
<1>1. \A u \in Threads \ {t} : (u \in Busy' <=> u \in Busy) /\ (u \in Asleep' <=> u \in Asleep)
  BY DEF Busy, Asleep
<1>2. /\ Busy \subseteq Threads /\ Busy' \subseteq Threads
      /\ Asleep \subseteq Threads /\ Asleep' \subseteq Threads
  BY DEF Busy, Asleep
<1>3. /\ t \notin Busy /\ t \in Busy' => Busy' = Busy \cup {t}
      /\ t \in Busy /\ t \notin Busy' => Busy' = Busy \ {t}
      /\ (t \in Busy <=> t \in Busy') => Busy' = Busy
  BY <1>1, <1>2
<1>4. /\ t \notin Asleep /\ t \in Asleep' => Asleep' = Asleep \cup {t}
      /\ t \in Asleep /\ t \notin Asleep' => Asleep' = Asleep \ {t}
      /\ (t \in Asleep <=> t \in Asleep') => Asleep' = Asleep
  BY <1>1, <1>2
<1>5. IsFiniteSet(Busy) /\ IsFiniteSet(Asleep)
  BY Finite
<1>6. t \notin Busy => Cardinality(Busy \cup {t}) = Cardinality(Busy) + 1
  BY <1>5, FS_AddElement
<1>7. t \in Busy => Cardinality(Busy \ {t}) = Cardinality(Busy) - 1
  BY <1>5, FS_RemoveElement
<1>8. t \notin Asleep => Cardinality(Asleep \cup {t}) = Cardinality(Asleep) + 1
  BY <1>5, FS_AddElement
<1>9. t \in Asleep => Cardinality(Asleep \ {t}) = Cardinality(Asleep) - 1
  BY <1>5, FS_RemoveElement
<1> QED
  BY <1>3, <1>4, <1>6, <1>7, <1>8, <1>9

\* Steps of a thread that take or release the mutex without moving a check.
LEMMA CounterSteps ==
  ASSUME IInv, NEW t \in Threads,
         Enter(t) \/ Return(t) \/ Sleep(t) \/ WakeUp(t) \/ Interrupted(t) \/ SpuriousWake(t)
  PROVE  IInv'
<1> USE DEF IInv
<1> DEFINE Acts == Enter(t) \/ Return(t) \/ Sleep(t) \/ WakeUp(t) \/ Interrupted(t) \/ SpuriousWake(t)
<1>a. Acts
  OBVIOUS
<1>1. /\ UNCHANGED <<queue, nTodo, batch, fOk, nIntr, added>>
      /\ \A u \in Threads \ {t} : pc'[u] = pc[u]
      /\ pc' \in [Threads -> WorkerPCs \cup MasterPCs]
  BY <1>a, ThreadsAssumption
  DEF TypeOK, WorkerPCs, MasterPCs, Enter, Return, Sleep, WakeUp, Interrupted, InWait, SpuriousWake, UnwindTo
<1>2. Pending' = Pending
  BY <1>1 DEF Pending
<1>3. Cardinality(Busy) \in Nat /\ Cardinality(Asleep) \in Nat
  BY Finite
<1>4. t \in Asleep => Cardinality(Asleep) >= 1
  BY Finite, FS_EmptySet
<1>5. MutexInv'
  BY <1>a, <1>1, ThreadsAssumption
  DEF TypeOK, Threads, MutexInv, Enter, Return, Sleep, WakeUp, Interrupted, InWait, SpuriousWake, UnwindTo
<1>6. BatchInv'
  BY <1>a, <1>1
  DEF TypeOK, BatchInv, Enter, Return, Sleep, WakeUp, Interrupted, InWait, SpuriousWake, UnwindTo
<1>7. TodoInv'
  BY <1>1, <1>2 DEF TodoInv
<1>8. nIdle' \in Nat /\ nTotal' \in Nat /\ CountInv' /\ IdleInv'
  <2>1. CASE Enter(t)
    <3>1. t \notin Busy /\ t \in Busy' /\ t \notin Asleep /\ t \notin Asleep'
      BY <2>1 DEF Busy, Asleep, Enter, TypeOK
    <3> QED
      BY <1>1, <1>3, <2>1, <3>1, BusyStep DEF CountInv, IdleInv, Enter, TypeOK
  <2>2. CASE Return(t)
    <3>1. t \in Busy /\ t \notin Busy' /\ t \notin Asleep /\ t \notin Asleep'
      BY <2>2 DEF Busy, Asleep, Return, TypeOK
    <3>2. Cardinality(Busy) >= 1
      BY <3>1, Finite, FS_EmptySet
    <3> QED
      BY <1>1, <1>3, <2>2, <3>1, <3>2, BusyStep DEF CountInv, IdleInv, Return, TypeOK
  <2>3. CASE Sleep(t)
    <3>1. t \in Busy /\ t \notin Busy' /\ t \notin Asleep /\ t \in Asleep'
      BY <2>3 DEF Busy, Asleep, Sleep, TypeOK
    <3> QED
      BY <1>1, <1>3, <2>3, <3>1, BusyStep DEF CountInv, IdleInv, Sleep, TypeOK
  <2>4. CASE WakeUp(t)
    <3>1. t \notin Busy /\ t \in Busy' /\ t \in Asleep /\ t \notin Asleep'
      BY <2>4 DEF Busy, Asleep, WakeUp, TypeOK
    <3> QED
      BY <1>1, <1>3, <1>4, <2>4, <3>1, BusyStep DEF CountInv, IdleInv, WakeUp, TypeOK
  <2>5. CASE Interrupted(t)
    <3>1. t \notin Busy /\ t \notin Busy' /\ t \in Asleep /\ t \notin Asleep'
      BY <2>5 DEF Busy, Asleep, Interrupted, InWait, UnwindTo, TypeOK
    <3> QED
      BY <1>1, <1>3, <1>4, <2>5, <3>1, BusyStep DEF CountInv, IdleInv, Interrupted, InWait, TypeOK
  <2>6. CASE SpuriousWake(t)
    <3>1. t \notin Busy /\ t \notin Busy' /\ t \in Asleep /\ t \in Asleep'
      BY <2>6 DEF Busy, Asleep, SpuriousWake, TypeOK
    <3> QED
      BY <1>1, <1>3, <2>6, <3>1, BusyStep DEF CountInv, IdleInv, SpuriousWake, TypeOK
  <2> QED
    BY <1>a, <2>1, <2>2, <2>3, <2>4, <2>5, <2>6
<1>9. TypeOK'
  <2>1. /\ pc'[Master] \in MasterPCs
        /\ \A w \in Workers : pc'[w] \in WorkerPCs
    BY <1>a, <1>1, ThreadsAssumption
    DEF TypeOK, Threads, WorkerPCs, MasterPCs, Enter, Return, Sleep, WakeUp, Interrupted, InWait, SpuriousWake, UnwindTo
  <2>2. /\ fAllOk' \in BOOLEAN /\ ret' \in BOOLEAN /\ intr' \subseteq Threads
        /\ mutex' \in Threads \cup {NoThread} /\ caller' \in Callers
    BY <1>a DEF TypeOK, Enter, Return, Sleep, WakeUp, Interrupted, SpuriousWake, AllOkAfterReturn, Callers
  <2> QED
    BY <1>1, <1>8, <2>1, <2>2 DEF TypeOK
<1>10. ResultInv'
  <2>1. CASE Return(t)
    <3>1. Pending = {}
      BY <2>1, Finite, FS_EmptySet DEF Return, TodoInv
    <3>2. pc'[Master] = "idle" /\ fAllOk' /\ pc[Master] = "loop"
      BY <2>1 DEF Return, TypeOK, AllOkAfterReturn
    <3>3. \A u \in Threads : pc'[u] \in {"exec", "clean"} => pc[u] = pc'[u]
      BY <1>1, <2>1 DEF Return, TypeOK
    <3> QED
      BY <1>1, <1>2, <3>1, <3>2, <3>3 DEF ResultInv
  <2>2. CASE ~Return(t)
    <3>1. fAllOk' = fAllOk
      BY <1>a, <2>2 DEF Enter, Sleep, WakeUp, Interrupted, SpuriousWake
    <3>2. /\ \A u \in Threads : pc'[u] \in {"exec", "clean"} => pc[u] = pc'[u]
          /\ pc[Master] = "idle" <=> pc'[Master] = "idle"
          /\ pc[Master] = "thrown" => pc'[Master] = "thrown"
      BY <1>a, <1>1, <2>2 DEF TypeOK, Threads, Enter, Sleep, WakeUp, Interrupted, InWait, SpuriousWake, UnwindTo
    <3> QED
      BY <1>1, <1>2, <3>1, <3>2 DEF ResultInv
  <2> QED
    BY <2>1, <2>2
<1> QED
  BY <1>5, <1>6, <1>7, <1>8, <1>9, <1>10

\* nNow never exceeds what the queue holds, and is at least one.
LEMMA TakeStep ==
  ASSUME IInv, NEW t \in Threads, Take(t)
  PROVE  IInv'
<1> USE DEF IInv
<1>1. PICK S \in SUBSET queue :
         /\ Cardinality(S) = nNow
         /\ queue' = queue \ S
         /\ batch' = [batch EXCEPT ![t] = S]
  BY DEF Take
<1>2. /\ pc[t] = "loop" /\ mutex' = NoThread
      /\ fOk' = [fOk EXCEPT ![t] = fAllOk]
      /\ pc' = [pc EXCEPT ![t] = "exec"]
      /\ UNCHANGED <<nIdle, nTotal, fAllOk, nTodo, intr, nIntr, added, ret, caller>>
  BY DEF Take
<1>3. batch[t] = {}
  BY <1>2 DEF BatchInv
<1>4. S # {}
  <2>1. nNow # 0
    BY DEF nNow
  <2> QED
    BY <1>1, <2>1, FS_EmptySet
<1>5. TypeOK'
  BY <1>1, <1>2 DEF TypeOK, Threads, WorkerPCs, MasterPCs
<1>6. MutexInv'
  BY <1>2, ThreadsAssumption DEF MutexInv, TypeOK, Threads
<1>7. BatchInv'
  BY <1>1, <1>2, <1>3, <1>4 DEF BatchInv, TypeOK
<1>8. Pending' = Pending
  BY <1>1, <1>3 DEF Pending, TypeOK
<1>9. TodoInv'
  BY <1>2, <1>8 DEF TodoInv
<1>10. Busy' = Busy /\ Asleep' = Asleep
  BY <1>2 DEF Busy, Asleep, TypeOK
<1>11. CountInv' /\ IdleInv'
  BY <1>2, <1>10 DEF CountInv, IdleInv
<1>12. pc[Master] # "idle"
  BY <1>1, <1>4 DEF ResultInv, Pending
<1>13. ResultInv'
  <2>1. pc'[Master] # "idle" /\ (pc'[Master] = "thrown" <=> pc[Master] = "thrown")
    BY <1>2, <1>12 DEF TypeOK, Threads
  <2>2. pc[Master] # "thrown" =>
          \A u \in Threads : pc'[u] \in {"exec", "clean"} /\ ~fOk'[u] => ~(added \subseteq Valid)
    BY <1>2, <1>12 DEF ResultInv, TypeOK
  <2>3. pc[Master] # "thrown" =>
          \A u \in Threads : pc'[u] = "clean" /\ fOk'[u] => batch'[u] \subseteq Valid
    BY <1>1, <1>2 DEF ResultInv, TypeOK
  <2> QED
    BY <1>2, <1>8, <1>12, <2>1, <2>2, <2>3 DEF ResultInv
<1> QED
  BY <1>5, <1>6, <1>7, <1>9, <1>11, <1>13

LEMMA ExecuteStep ==
  ASSUME IInv, NEW t \in Threads, Execute(t)
  PROVE  IInv'
<1> USE DEF IInv
<1>0. PICK ok \in Verdicts(t) : fOk' = [fOk EXCEPT ![t] = fOk[t] /\ ok]
  BY DEF Execute
<1>a. /\ pc[t] = "exec" /\ pc' = [pc EXCEPT ![t] = "clean"]
      /\ UNCHANGED <<queue, nIdle, nTotal, fAllOk, nTodo, mutex, batch, intr, nIntr, added, ret, caller>>
  BY DEF Execute
<1>b. ok \in BOOLEAN /\ (pc[Master] # "thrown" => ok = (batch[t] \subseteq Valid))
  BY DEF Verdicts
<1>1. TypeOK'
  BY <1>0, <1>a, <1>b DEF TypeOK, Threads, WorkerPCs, MasterPCs
<1>2. MutexInv' /\ BatchInv'
  BY <1>a DEF MutexInv, BatchInv, TypeOK
<1>3. Pending' = Pending /\ Busy' = Busy /\ Asleep' = Asleep
  BY <1>a DEF Pending, Busy, Asleep, TypeOK
<1>4. TodoInv' /\ CountInv' /\ IdleInv'
  BY <1>a, <1>3 DEF TodoInv, CountInv, IdleInv
<1>5. batch[t] \subseteq added
  BY DEF ResultInv, Pending
<1>6. ResultInv'
  <2>1. /\ pc'[Master] = "idle" <=> pc[Master] = "idle"
        /\ pc'[Master] = "thrown" <=> pc[Master] = "thrown"
    BY <1>a DEF TypeOK, Threads
  <2>2. pc[Master] # "thrown" =>
          \A u \in Threads : pc'[u] \in {"exec", "clean"} /\ ~fOk'[u] => ~(added \subseteq Valid)
    BY <1>0, <1>a, <1>b, <1>5 DEF ResultInv, TypeOK
  <2>3. pc[Master] # "thrown" =>
          \A u \in Threads : pc'[u] = "clean" /\ fOk'[u] => batch'[u] \subseteq Valid
    BY <1>0, <1>a, <1>b DEF ResultInv, TypeOK
  <2> QED
    BY <1>a, <1>3, <2>1, <2>2, <2>3 DEF ResultInv
<1> QED
  BY <1>1, <1>2, <1>4, <1>6

LEMMA CleanUpStep ==
  ASSUME IInv, NEW t \in Threads, CleanUp(t)
  PROVE  IInv'
<1> USE DEF IInv
<1>1. /\ pc[t] = "clean" /\ mutex = NoThread /\ mutex' = t
      /\ fAllOk' = (fAllOk /\ fOk[t])
      /\ nTodo' = nTodo - Cardinality(batch[t])
      /\ batch' = [batch EXCEPT ![t] = {}]
      /\ fOk' = [fOk EXCEPT ![t] = TRUE]
      /\ UNCHANGED <<queue, nIdle, nTotal, intr, nIntr, added, ret, caller>>
  BY DEF CleanUp, CombinedOk, TodoLeft
<1>2. /\ pc'[t] = "loop"
      /\ \A u \in Threads \ {t} : pc'[u] = pc[u]
                                  \/ (u = Master /\ pc[u] = "wait" /\ pc'[u] = "woken")
      /\ pc' \in [Threads -> WorkerPCs \cup MasterPCs]
  BY DEF CleanUp, WakesMaster, TypeOK, WorkerPCs, MasterPCs
<1>3. batch[t] # {} /\ batch[t] \subseteq Pending
  BY <1>1 DEF BatchInv, Pending
<1>4. Pending' = Pending \ batch[t]
  BY <1>1 DEF Pending, BatchInv, TypeOK
<1>5. nTodo' \in Nat /\ TodoInv'
  BY <1>1, <1>3, <1>4, Finite, CardMinus DEF TodoInv
<1>6. TypeOK'
  <2>1. /\ pc'[Master] \in MasterPCs
        /\ \A w \in Workers : pc'[w] \in WorkerPCs
    BY <1>2, ThreadsAssumption DEF TypeOK, Threads, WorkerPCs, MasterPCs
  <2> QED
    BY <1>1, <1>2, <1>5, <2>1 DEF TypeOK
<1>7. MutexInv'
  BY <1>1, <1>2, ThreadsAssumption DEF MutexInv, Threads
<1>8. BatchInv'
  BY <1>1, <1>2 DEF BatchInv, TypeOK
<1>9. t \in Busy /\ t \in Busy' /\ t \notin Asleep /\ t \notin Asleep'
  BY <1>1, <1>2 DEF Busy, Asleep
<1>10. CountInv' /\ IdleInv'
  BY <1>1, <1>2, <1>9, BusyStep DEF CountInv, IdleInv
<1>11. ResultInv'
  <2>1. /\ pc[Master] # "idle" /\ pc'[Master] # "idle"
        /\ pc[Master] = "thrown" => pc'[Master] = "thrown"
    BY <1>1, <1>2, <1>3 DEF ResultInv, Threads
  <2>2. pc[Master] # "thrown" /\ fAllOk' => added' \ Pending' \subseteq Valid
    BY <1>1, <1>4, <2>1 DEF ResultInv
  <2>3. pc[Master] # "thrown" /\ ~fAllOk' => ~(added' \subseteq Valid)
    BY <1>1, <2>1 DEF ResultInv, TypeOK
  <2>4. \A u \in Threads : pc'[u] \in {"exec", "clean"} => u # t /\ pc[u] = pc'[u]
    BY <1>2
  <2>5. \A u \in Threads \ {t} : fOk'[u] = fOk[u] /\ batch'[u] = batch[u]
    BY <1>1 DEF TypeOK
  <2> QED
    BY <1>1, <1>4, <2>1, <2>2, <2>3, <2>4, <2>5 DEF ResultInv
<1> QED
  BY <1>1, <1>5, <1>6, <1>7, <1>8, <1>10, <1>11

-----------------------------------------------------------------------------
\* The invariant is inductive.
LEMMA NextIInv == IInv /\ [Next]_vars => IInv'
<1> SUFFICES ASSUME IInv, [Next]_vars PROVE IInv'
  OBVIOUS
<1>1. CASE NewControl \/ CallWait \/ LeaveEarly \/ Interrupt \/ Terminate
  BY <1>1, MasterSteps, DiesStep DEF NewControl, Opens, Terminate
<1>2. CASE Add
  BY <1>2, AddStep
<1>3. ASSUME NEW t \in Threads, ThreadStep(t) \/ SpuriousWake(t) \/ ExecuteDangling(t) PROVE IInv'
  BY <1>3, CounterSteps, TakeStep, ExecuteStep, CleanUpStep, DiesStep DEF ThreadStep, ExecuteDangling
<1>4. CASE UNCHANGED vars
  BY <1>4 DEF vars, IInv, TypeOK, MutexInv, BatchInv, TodoInv, CountInv, IdleInv, ResultInv,
              Pending, Busy, Asleep
<1> QED
  BY <1>1, <1>2, <1>3, <1>4 DEF Next

\* The invariant of CCheckQueue: counters exact, batches disjoint, and fAllOk
\* telling the truth about the accounted checks, at every step of every thread.
THEOREM Invariance == Spec => []IInv
  BY InitIInv, NextIInv, PTL DEF Spec

\* Every field of CCheckQueue keeps its range; in particular the unsigned nTodo
\* of Loop is never decremented below zero.
THEOREM TypeCorrect == Spec => []TypeOK
<1>1. IInv => TypeOK
  BY DEF IInv
<1> QED
  BY <1>1, Invariance, PTL

\* When CCheckQueueControl is gone no thread holds one of its checks, whether its Wait()
\* returned or was interrupted, or ConnectBlock was left before it; unless an interruption
\* has left the destructor itself.
THEOREM NoDangling == Spec => []NoDanglingChecks
<1>1. IInv => NoDanglingChecks
  BY DEF IInv, ResultInv, NoDanglingChecks
<1> QED
  BY <1>1, Invariance, PTL

\* The constructor's assertions hold between sessions when read under the mutex, unless an
\* interruption has left the last destructor.
THEOREM Quiescent == Spec => []QuiescentUnderLock
<1>1. IInv => QuiescentUnderLock
  <2> SUFFICES ASSUME IInv, pc[Master] = "idle", mutex = NoThread
               PROVE  nTotal = nIdle /\ nTodo = 0 /\ fAllOk
    BY DEF QuiescentUnderLock, Unused
  <2> USE DEF IInv
  <2>1. Pending = {} /\ fAllOk
    BY DEF ResultInv
  <2>2. \A t \in Threads : batch[t] = {}
    BY <2>1 DEF Pending
  <2>3. Busy = {}
    BY <2>2, ThreadsAssumption DEF Busy, BatchInv, MutexInv, Threads
  <2>4. Cardinality(Busy) = 0 /\ Cardinality(Pending) = 0
    BY <2>1, <2>3, FS_EmptySet
  <2> QED
    BY <2>1, <2>4 DEF TodoInv, CountInv, TypeOK
<1> QED
  BY <1>1, Invariance, PTL

-----------------------------------------------------------------------------
\* The queue implements the abstract session: Wait() answers TRUE exactly when
\* every check added since the control was built is valid, also in a session that
\* follows one whose destructor was left by an interruption.
THEOREM ImplementsSession == Spec => SessionSpec
<1>1. Init => Session!AInit
  BY ThreadsAssumption DEF Init, Session!AInit, phase, Threads, StartPC
<1>2. IInv /\ [Next]_vars => [Session!ANext]_(Session!avars)
  <2> SUFFICES ASSUME IInv, [Next]_vars PROVE [Session!ANext]_(Session!avars)
    OBVIOUS
  <2> USE DEF IInv
  <2>0. ASSUME Dies PROVE Session!ARestart
    BY <2>0, ThreadsAssumption DEF Dies, phase, Threads, StartPC, Session!ARestart, Session!AInit
  <2>1. CASE NewControl
    <3>1. CASE Dies
      BY <2>0, <3>1 DEF Session!ANext
    <3>2. CASE ~Dies
      <4>1. /\ pc[Master] \in {"idle", "thrown"} /\ pc'[Master] = "open"
            /\ added' = {} /\ ret' = TRUE
        BY <2>1, <3>2 DEF NewControl, TypeOK, Threads
      <4> QED
        BY <4>1 DEF phase, Session!ANext, Session!AOpen
    <3> QED
      BY <3>1, <3>2
  <2>2. CASE Add
    <3>1. pc[Master] = "open" /\ pc'[Master] = "open" /\ ret' = ret
      BY <2>2, ThreadsAssumption DEF Add, Threads
    <3>2. \E S \in SUBSET (Checks \ added) : added' = added \cup S
      BY <2>2 DEF Add
    <3> QED
      BY <3>1, <3>2 DEF phase, Session!ANext, Session!AAdd
  <2>3. CASE CallWait
    BY <2>3 DEF CallWait, phase, TypeOK, Threads, Session!ANext, Session!AWait
  <2>4. CASE LeaveEarly
    BY <2>4 DEF LeaveEarly, phase, TypeOK, Threads, Session!ANext, Session!AClose
  <2>5. CASE Interrupt \/ UNCHANGED vars
    BY <2>5 DEF Interrupt, vars, phase, Session!avars
  <2>6. CASE Terminate
    BY <2>0, <2>6 DEF Terminate, Session!ANext
  <2>7. ASSUME NEW t \in Threads, Return(t) PROVE Session!AAnswer \/ Session!AEnd
    <3>1. /\ pc[Master] = "loop" /\ pc'[Master] = "idle" /\ added' = added
          /\ ret' = IF caller = "Wait" THEN fAllOk ELSE ret
      BY <2>7 DEF Return, TypeOK, Threads
    <3>2. Pending = {}
      BY <2>7, Finite, FS_EmptySet DEF Return, TodoInv
    <3>3. fAllOk = (added \subseteq Valid)
      BY <3>1, <3>2 DEF ResultInv, TypeOK
    <3> QED
      BY <3>1, <3>3 DEF phase, Session!AAnswer, Session!AEnd
  <2>8. ASSUME NEW t \in Threads, Interrupted(t)
        PROVE  Session!AClose \/ Session!AEnd \/ UNCHANGED Session!avars
    <3>1. UNCHANGED <<added, ret>>
      BY <2>8 DEF Interrupted
    <3>2. CASE t # Master
      BY <2>8, <3>1, <3>2 DEF Interrupted, phase, Session!avars, TypeOK, Threads
    <3>3. CASE t = Master /\ caller = "Wait"
      BY <2>8, <3>1, <3>3 DEF Interrupted, InWait, UnwindTo, phase, Session!AClose, TypeOK, Threads
    <3>4. CASE t = Master /\ caller # "Wait"
      BY <2>8, <3>1, <3>4 DEF Interrupted, InWait, UnwindTo, phase, Session!AEnd, TypeOK, Threads
    <3> QED
      BY <3>2, <3>3, <3>4
  <2>9. ASSUME NEW t \in Threads,
               Enter(t) \/ Sleep(t) \/ Take(t) \/ Execute(t) \/ WakeUp(t)
               \/ SpuriousWake(t) \/ CleanUp(t)
        PROVE  UNCHANGED Session!avars
    <3>1. UNCHANGED <<added, ret, caller>>
      BY <2>9 DEF Enter, Sleep, Take, Execute, WakeUp, SpuriousWake, CleanUp
    <3>2. /\ pc[Master] = "idle" <=> pc'[Master] = "idle"
          /\ pc[Master] = "thrown" <=> pc'[Master] = "thrown"
          /\ pc[Master] = "open" <=> pc'[Master] = "open"
      BY <2>9 DEF TypeOK, Threads, Enter, Sleep, Take, Execute, WakeUp,
                  SpuriousWake, CleanUp, WakesMaster
    <3> QED
      BY <3>1, <3>2 DEF phase, Session!avars
  <2>10. ASSUME NEW t \in Threads, ExecuteDangling(t) PROVE Session!ARestart
    BY <2>0, <2>10 DEF ExecuteDangling
  <2> QED
    BY <2>1, <2>2, <2>3, <2>4, <2>5, <2>6, <2>7, <2>8, <2>9, <2>10 DEF Next, ThreadStep, Session!ANext
<1> QED
  BY <1>1, <1>2, Invariance, PTL DEF Spec, SessionSpec, Session!ASpec
=============================================================================
