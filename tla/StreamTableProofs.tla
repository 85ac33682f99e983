------------------------- MODULE StreamTableProofs --------------------------
(***************************************************************************)
(* Proofs about SharedMutex and the table of streams it guards, for every  *)
(* number of threads, streams and calls.                                   *)
(***************************************************************************)
EXTENDS StreamTable, FiniteSetTheorems, TLAPS

\* shared_counter_ counts the readers, and while the mutex is exclusively locked
\* the thread that locked it is the only owner and the only possible reader.
LockInv ==
  /\ shared_counter = Cardinality(Sharers)
  /\ \A t \in Threads :
       stage[t] \in OwnStages => exclusively_locked /\ exclusive_thread_id = t
  /\ exclusively_locked => Sharers \subseteq {exclusive_thread_id}

\* Threads sleep at the two locks that can be held by others, and only then.
WaitInv ==
  /\ \A t \in waiting : stage[t] \in {"lock", "xlock"}
  /\ NoLostWakeup

\* What a thread knows of the table after it found or made its stream.
TableInv ==
  /\ \A s \in DOMAIN ostreams : ostreams[s] # 0
  /\ \A t \in Threads :
       /\ stage[t] \in {"miss", "xlock", "relock", "insert", "xunlock"} => target[t] \in Streams
       /\ stage[t] \in {"xunlock", "use"} /\ target[t] # All => object[t] # 0
       /\ object[t] # 0 => target[t] \in DOMAIN ostreams /\ object[t] = ostreams[target[t]]

IInv == TypeOK /\ LockInv /\ WaitInv /\ TableInv

-----------------------------------------------------------------------------
\* The readers after a thread changes its stage.
LEMMA SharersAfter ==
  ASSUME TypeOK, NEW t \in Threads, NEW to \in Stages, Go(t, to)
  PROVE  /\ stage' \in [Threads -> Stages] /\ stage'[t] = to
         /\ \A u \in Threads \ {t} : stage'[u] = stage[u]
         /\ to \in ShareStages => Sharers' = Sharers \cup {t}
         /\ to \notin ShareStages => Sharers' = Sharers \ {t}
  BY DEF TypeOK, Go, Sharers

\* The threads with the shared lock can be counted.
LEMMA SharersFinite ==
  ASSUME TypeOK
  PROVE  /\ IsFiniteSet(Sharers) /\ Cardinality(Sharers) \in Nat
         /\ Cardinality(Sharers) = 0 <=> Sharers = {}
<1>1. IsFiniteSet(Sharers)
  BY ThreadAssumption, FS_Subset DEF Sharers
<1> QED
  BY <1>1, FS_CardinalityType, FS_EmptySet

\* A thread that takes the shared lock is counted.
LEMMA CountUp ==
  ASSUME TypeOK, LockInv, NEW t \in Threads, NEW to \in ShareStages, Go(t, to),
         stage[t] \notin ShareStages, shared_counter' = shared_counter + 1
  PROVE  shared_counter' = Cardinality(Sharers')
<1>1. Sharers' = Sharers \cup {t} /\ t \notin Sharers
  BY SharersAfter DEF Sharers, ShareStages, Stages
<1> QED
  BY <1>1, SharersFinite, FS_AddElement, Zenon DEF LockInv

\* A thread that gives it back is counted off.
LEMMA CountDown ==
  ASSUME TypeOK, LockInv, NEW t \in Threads, NEW to \in Stages \ ShareStages, Go(t, to),
         stage[t] \in ShareStages, shared_counter' = shared_counter - 1
  PROVE  shared_counter' = Cardinality(Sharers') /\ shared_counter' \in Nat
<1>1. Sharers' = Sharers \ {t} /\ t \in Sharers
  BY SharersAfter DEF Sharers
<1>2. Cardinality(Sharers \ {t}) = Cardinality(Sharers) - 1 /\ IsFiniteSet(Sharers \ {t})
  BY <1>1, SharersFinite, FS_RemoveElement
<1>3. Cardinality(Sharers \ {t}) \in Nat
  BY <1>2, FS_CardinalityType
<1> QED
  BY <1>1, <1>2, <1>3 DEF LockInv

\* A change of stage among the sharers, or among the others, leaves the count.
LEMMA CountSame ==
  ASSUME TypeOK, LockInv, NEW t \in Threads, NEW to \in Stages, Go(t, to),
         stage[t] \in ShareStages <=> to \in ShareStages,
         shared_counter' = shared_counter
  PROVE  shared_counter' = Cardinality(Sharers') /\ Sharers' = Sharers
<1>1. Sharers' = Sharers
  BY SharersAfter DEF Sharers
<1> QED
  BY <1>1 DEF LockInv

\* notify_one leaves a thread that waited awake.
LEMMA NotifyOne ==
  ASSUME notify_one
  PROVE  /\ waiting' \subseteq waiting
         /\ waiting' = {} \/ \E u \in waiting : u \notin waiting'
  BY DEF notify_one

-----------------------------------------------------------------------------
\* Nobody holds or waits for the lock.
LEMMA InitInv == Init => IInv
<1> SUFFICES ASSUME Init PROVE IInv
  OBVIOUS
<1>1. TypeOK
  BY Zenon DEF Init, MutexInit, TypeOK, Stages
<1>2. Sharers = {}
  BY DEF Init, Sharers, ShareStages
<1>3. LockInv
  BY <1>2, FS_EmptySet DEF Init, MutexInit, LockInv, OwnStages
<1>4. WaitInv /\ TableInv
  BY DEF Init, MutexInit, WaitInv, NoLostWakeup, TableInv
<1> QED
  BY <1>1, <1>3, <1>4 DEF IInv

\* A thread begins a call.
LEMMA CallStep ==
  ASSUME IInv, NEW t \in Threads, NEW s \in Streams \cup {All}, Call(t, s)
  PROVE  IInv'
<1> USE DEF IInv
<1>1. TypeOK'
  BY DEF TypeOK, Call, Go, mutexVars, Stages
<1>2. /\ stage'[t] = "lock" /\ stage[t] = "idle"
      /\ \A u \in Threads \ {t} :
           stage'[u] = stage[u] /\ target'[u] = target[u] /\ object'[u] = object[u]
      /\ object'[t] = 0
  BY DEF TypeOK, Call, Go
<1>3. LockInv'
  <2>1. shared_counter' = Cardinality(Sharers') /\ Sharers' = Sharers
    BY CountSame DEF Call, mutexVars, ShareStages, Stages
  <2> QED
    BY <1>2, <2>1 DEF LockInv, OwnStages, Call, mutexVars
<1>4. WaitInv'
  BY <1>2 DEF WaitInv, NoLostWakeup, Call, mutexVars, SharedReady, ExclusiveReady, TypeOK
<1>5. TableInv'
  BY <1>2 DEF TableInv, Call
<1> QED
  BY <1>1, <1>3, <1>4, <1>5

\* A thread finds the lock taken and sleeps.
LEMMA SleepStep ==
  ASSUME IInv, NEW t \in Threads, Sleep(t)
  PROVE  IInv'
<1> USE DEF IInv
<1>1. TypeOK'
  BY DEF TypeOK, Sleep, Wait, tableVars
<1>2. LockInv'
  BY DEF LockInv, Sleep, Wait, tableVars, Sharers
<1>3. stage[t] # "relock"
  BY DEF LockInv, OwnStages, Sleep, SharedReady
<1>4. WaitInv'
  BY <1>3 DEF WaitInv, NoLostWakeup, Sleep, Wait, tableVars, SharedReady, ExclusiveReady, TypeOK
<1>5. TableInv'
  BY DEF TableInv, Sleep, tableVars
<1> QED
  BY <1>1, <1>2, <1>4, <1>5

\* A thread wakes up for no reason.
LEMMA SpuriousStep ==
  ASSUME IInv, NEW t \in Threads, Spurious(t)
  PROVE  IInv'
<1> USE DEF IInv
<1>1. TypeOK'
  BY DEF TypeOK, Spurious, tableVars
<1>2. LockInv'
  BY DEF LockInv, Spurious, tableVars, Sharers
<1>3. WaitInv'
  BY DEF WaitInv, NoLostWakeup, Spurious, tableVars, SharedReady, ExclusiveReady, TypeOK
<1>4. TableInv'
  BY DEF TableInv, Spurious, tableVars
<1> QED
  BY <1>1, <1>2, <1>3, <1>4

\* lock_shared: one more counts.
LEMMA LockStep ==
  ASSUME IInv, NEW t \in Threads, Lock(t)
  PROVE  IInv'
<1> USE DEF IInv
<1>1. TypeOK'
  BY DEF TypeOK, Lock, lock_shared, Go, Stages
<1>2. /\ stage'[t] = "find" /\ stage[t] = "lock"
      /\ \A u \in Threads \ {t} : stage'[u] = stage[u]
  BY DEF TypeOK, Lock, Go
<1>3. LockInv'
  <2>1. shared_counter' = Cardinality(Sharers')
    BY CountUp DEF Lock, lock_shared, ShareStages
  <2>2. Sharers' = Sharers \cup {t}
    BY SharersAfter DEF Lock, ShareStages, Stages
  <2> QED
    BY <1>2, <2>1, <2>2 DEF LockInv, OwnStages, Lock, lock_shared, SharedReady
<1>4. WaitInv'
  BY <1>2 DEF WaitInv, NoLostWakeup, Lock, lock_shared, SharedReady, ExclusiveReady, TypeOK
<1>5. TableInv'
  BY <1>2 DEF TableInv, Lock
<1> QED
  BY <1>1, <1>3, <1>4, <1>5

\* What is found under the shared lock stays until the lock is given back.
LEMMA FindStep ==
  ASSUME IInv, NEW t \in Threads, Find(t)
  PROVE  IInv'
<1> USE DEF IInv
<1>1. PICK to \in {"use", "miss"} : Go(t, to)
  BY DEF Find
<1>2. TypeOK'
  BY DEF TypeOK, Find, Go, mutexVars, Stages
<1>3. /\ stage'[t] = to /\ stage[t] = "find"
      /\ \A u \in Threads \ {t} : stage'[u] = stage[u] /\ object'[u] = object[u]
  BY <1>1 DEF TypeOK, Find, Go
<1>4. LockInv'
  <2>1. shared_counter' = Cardinality(Sharers') /\ Sharers' = Sharers
    BY <1>1, CountSame DEF Find, mutexVars, ShareStages, Stages
  <2> QED
    BY <1>3, <2>1 DEF LockInv, OwnStages, Find, mutexVars
<1>5. WaitInv'
  BY <1>3 DEF WaitInv, NoLostWakeup, Find, mutexVars, SharedReady, ExclusiveReady, TypeOK
<1>6. TableInv'
  <2>1. to = "miss" => target[t] \in Streams
    BY <1>3 DEF Find, Go, TypeOK
  <2>2. to = "use" /\ target[t] # All =>
          target[t] \in DOMAIN ostreams /\ object'[t] = ostreams[target[t]]
    BY <1>3 DEF Find, Go, TypeOK
  <2>3. object'[t] = object[t] \/ (to = "use" /\ target[t] # All)
    BY <1>3 DEF Find, Go, TypeOK
  <2> QED
    BY <1>3, <2>1, <2>2, <2>3 DEF TableInv, Find
<1> QED
  BY <1>2, <1>4, <1>5, <1>6

\* unlock_shared: waiters that wait for readers are told when the last one leaves.
LEMMA UnlockWaits ==
  ASSUME IInv, NEW t \in Threads, NEW to \in {"xlock", "idle"}, Go(t, to),
         stage[t] \in ShareStages, unlock_shared
  PROVE  WaitInv' /\ waiting' \subseteq waiting
<1> USE DEF IInv
<1>1. waiting' \subseteq waiting
  BY NotifyOne DEF unlock_shared
<1>2. /\ stage'[t] = to /\ t \notin waiting
      /\ \A u \in Threads \ {t} : stage'[u] = stage[u]
  BY DEF TypeOK, Go, WaitInv, ShareStages
<1>3. ASSUME NEW w \in waiting' PROVE stage'[w] = stage[w] /\ w \in Threads /\ w \in waiting
  BY <1>1, <1>2 DEF TypeOK
<1>4. ASSUME NEW w \in waiting', stage[w] = "xlock", ExclusiveReady'
      PROVE  \E u \in Threads \ waiting' : stage'[u] \in {"lock", "xlock"}
  <2>1. notify_one
    BY <1>4, Zenon DEF unlock_shared, ExclusiveReady
  <2>2. PICK u \in waiting : u \notin waiting'
    BY <1>4, <2>1, NotifyOne
  <2> QED
    BY <1>2, <2>2 DEF WaitInv, TypeOK
<1>5. ASSUME NEW w \in waiting' PROVE stage[w] = "lock" => ~ SharedReady(w)'
  BY <1>3 DEF WaitInv, NoLostWakeup, SharedReady, unlock_shared
<1> QED
  BY <1>1, <1>3, <1>4, <1>5 DEF WaitInv, NoLostWakeup

\* unlock_shared after a miss; the last one wakes whoever waits for the table.
LEMMA GiveBackStep ==
  ASSUME IInv, NEW t \in Threads, GiveBack(t)
  PROVE  IInv'
<1> USE DEF IInv
<1>1. Go(t, "xlock") /\ stage[t] = "miss" /\ unlock_shared
  BY DEF GiveBack
<1>2. shared_counter' = Cardinality(Sharers') /\ shared_counter' \in Nat
  BY <1>1, CountDown DEF unlock_shared, ShareStages, Stages
<1>3. WaitInv' /\ waiting' \subseteq waiting
  BY <1>1, UnlockWaits DEF ShareStages
<1>4. TypeOK'
  BY <1>1, <1>2, <1>3 DEF TypeOK, GiveBack, unlock_shared, Go, Stages
<1>5. /\ stage'[t] = "xlock" /\ \A u \in Threads \ {t} : stage'[u] = stage[u]
      /\ Sharers' = Sharers \ {t}
  BY <1>1, SharersAfter DEF ShareStages, Stages
<1>6. LockInv'
  BY <1>1, <1>2, <1>5, SMTT(60) DEF LockInv, OwnStages, unlock_shared
<1>7. TableInv'
  BY <1>1, <1>5 DEF TableInv, GiveBack
<1> QED
  BY <1>3, <1>4, <1>6, <1>7

\* unlock_shared after use.
LEMMA FinishStep ==
  ASSUME IInv, NEW t \in Threads, Finish(t)
  PROVE  IInv'
<1> USE DEF IInv
<1>1. Go(t, "idle") /\ stage[t] = "use" /\ unlock_shared
  BY DEF Finish
<1>2. shared_counter' = Cardinality(Sharers') /\ shared_counter' \in Nat
  BY <1>1, CountDown DEF unlock_shared, ShareStages, Stages
<1>3. WaitInv' /\ waiting' \subseteq waiting
  BY <1>1, UnlockWaits DEF ShareStages
<1>4. TypeOK'
  BY <1>1, <1>2, <1>3, SMTT(60) DEF TypeOK, Finish, unlock_shared, Go, Stages
<1>5. /\ stage'[t] = "idle" /\ \A u \in Threads \ {t} : stage'[u] = stage[u]
      /\ Sharers' = Sharers \ {t}
  BY <1>1, SharersAfter DEF ShareStages, Stages
<1>6. LockInv'
  BY <1>1, <1>2, <1>5, SMTT(60) DEF LockInv, OwnStages, unlock_shared
<1>7. TableInv'
  BY <1>1, <1>5, SMTT(60) DEF TableInv, Finish
<1> QED
  BY <1>3, <1>4, <1>6, <1>7

\* lock: nobody shares the table any more.
LEMMA LockExclusiveStep ==
  ASSUME IInv, NEW t \in Threads, LockExclusive(t)
  PROVE  IInv'
<1> USE DEF IInv
<1>1. Go(t, "relock") /\ stage[t] = "xlock" /\ t \notin waiting /\ ExclusiveReady
  BY DEF LockExclusive, lock_exclusive
<1>2. TypeOK'
  BY DEF TypeOK, LockExclusive, lock_exclusive, Go, Stages
<1>3. stage'[t] = "relock" /\ \A u \in Threads \ {t} : stage'[u] = stage[u]
  BY <1>1 DEF TypeOK, Go
<1>4. LockInv'
  <2>1. shared_counter' = Cardinality(Sharers') /\ Sharers' = Sharers
    BY <1>1, CountSame DEF LockExclusive, lock_exclusive, ShareStages, Stages
  <2>2. Sharers = {}
    BY <1>1, SharersFinite DEF LockInv, ExclusiveReady
  <2>3. \A u \in Threads : stage[u] \notin OwnStages
    BY <1>1, SMTT(60) DEF LockInv, ExclusiveReady
  <2> QED
    BY <1>3, <2>1, <2>2, <2>3 DEF LockInv, OwnStages, LockExclusive, lock_exclusive
<1>5. WaitInv'
  BY <1>1, <1>3, SMTT(60) DEF WaitInv, NoLostWakeup, LockExclusive, lock_exclusive, SharedReady, ExclusiveReady, TypeOK
<1>6. TableInv'
  BY <1>1, <1>3, SMTT(60) DEF TableInv, LockExclusive
<1> QED
  BY <1>2, <1>4, <1>5, <1>6

\* lock_shared by the owner of the exclusive lock.
LEMMA LockAgainStep ==
  ASSUME IInv, NEW t \in Threads, LockAgain(t)
  PROVE  IInv'
<1> USE DEF IInv
<1>1. Go(t, "insert") /\ stage[t] = "relock" /\ t \notin waiting
  BY DEF LockAgain
<1>2. TypeOK'
  BY DEF TypeOK, LockAgain, lock_shared, Go, Stages
<1>3. stage'[t] = "insert" /\ \A u \in Threads \ {t} : stage'[u] = stage[u]
  BY <1>1 DEF TypeOK, Go
<1>4. LockInv'
  <2>1. shared_counter' = Cardinality(Sharers')
    BY <1>1, CountUp DEF LockAgain, lock_shared, ShareStages
  <2>2. Sharers' = Sharers \cup {t}
    BY <1>1, SharersAfter DEF ShareStages, Stages
  <2> QED
    BY <1>1, <1>3, <2>1, <2>2 DEF LockInv, OwnStages, LockAgain, lock_shared
<1>5. WaitInv'
  BY <1>1, <1>3, SMTT(60) DEF WaitInv, NoLostWakeup, LockAgain, lock_shared, SharedReady, ExclusiveReady, TypeOK
<1>6. TableInv'
  BY <1>1, <1>3, SMTT(60) DEF TableInv, LockAgain
<1> QED
  BY <1>2, <1>4, <1>5, <1>6

\* The owner creates the stream if it is still not there.
LEMMA InsertStep ==
  ASSUME IInv, NEW t \in Threads, Insert(t)
  PROVE  IInv'
<1> USE DEF IInv
<1>1. Go(t, "xunlock") /\ stage[t] = "insert"
  BY SMTT(60) DEF Insert
<1>2. /\ stage'[t] = "xunlock"
      /\ \A u \in Threads \ {t} : stage'[u] = stage[u] /\ object'[u] = object[u]
  BY <1>1 DEF TypeOK, Go, Insert
<1>3. target[t] \in Streams
  BY <1>1, SMTT(60) DEF TableInv
<1>4. /\ DOMAIN ostreams' \subseteq Streams /\ created' \in Nat
      /\ \A s \in DOMAIN ostreams' : ostreams'[s] \in Nat /\ ostreams'[s] # 0
      /\ target[t] \in DOMAIN ostreams'
      /\ \A s \in DOMAIN ostreams : s \in DOMAIN ostreams' /\ ostreams'[s] = ostreams[s]
  BY <1>3, SMTT(60) DEF Insert, TypeOK, TableInv
<1>5. TypeOK'
  BY <1>1, <1>4, SMTT(60) DEF TypeOK, Insert, Go, Stages, mutexVars
<1>6. LockInv'
  <2>1. shared_counter' = Cardinality(Sharers') /\ Sharers' = Sharers
    BY <1>1, CountSame, SMTT(60) DEF Insert, mutexVars, ShareStages, Stages
  <2> QED
    BY <1>1, <1>2, <2>1, SMTT(60) DEF LockInv, OwnStages, Insert, mutexVars
<1>7. WaitInv'
  BY <1>1, <1>2, SMTT(60) DEF WaitInv, NoLostWakeup, Insert, mutexVars, SharedReady, ExclusiveReady, TypeOK
<1>8. TableInv'
  <2>1. object'[t] = ostreams'[target[t]]
    BY DEF Insert, TypeOK
  <2> QED
    BY <1>2, <1>3, <1>4, <2>1 DEF TableInv, Insert
<1> QED
  BY <1>5, <1>6, <1>7, <1>8

\* unlock: whoever waits is woken.
LEMMA UnlockExclusiveStep ==
  ASSUME IInv, NEW t \in Threads, UnlockExclusive(t)
  PROVE  IInv'
<1> USE DEF IInv
<1>1. Go(t, "use") /\ stage[t] = "xunlock"
  BY DEF UnlockExclusive
<1>2. TypeOK'
  BY Zenon DEF TypeOK, UnlockExclusive, unlock_exclusive, notify_all, Go, Stages
<1>3. stage'[t] = "use" /\ \A u \in Threads \ {t} : stage'[u] = stage[u]
  BY <1>1 DEF TypeOK, Go
<1>4. LockInv'
  <2>1. shared_counter' = Cardinality(Sharers') /\ Sharers' = Sharers
    BY <1>1, CountSame DEF UnlockExclusive, unlock_exclusive, ShareStages, Stages
  <2>2. \A u \in Threads \ {t} : stage[u] \notin OwnStages
    BY <1>1 DEF LockInv, OwnStages
  <2> QED
    BY <1>3, <2>1, <2>2 DEF LockInv, OwnStages, UnlockExclusive, unlock_exclusive
<1>5. WaitInv'
  BY DEF WaitInv, NoLostWakeup, UnlockExclusive, unlock_exclusive, notify_all
<1>6. TableInv'
  BY <1>1, <1>3 DEF TableInv, UnlockExclusive
<1> QED
  BY <1>2, <1>4, <1>5, <1>6

-----------------------------------------------------------------------------
\* Every step of every thread.
LEMMA NextInv == IInv /\ [Next]_vars => IInv'
<1> SUFFICES ASSUME IInv, [Next]_vars PROVE IInv'
  OBVIOUS
<1>1. CASE UNCHANGED vars
  BY <1>1 DEF vars, mutexVars, tableVars, IInv, TypeOK, LockInv, Sharers, WaitInv,
              NoLostWakeup, SharedReady, ExclusiveReady, TableInv
<1>2. CASE Next
  <2>1. PICK t \in Threads :
          (\E s \in Streams \cup {All} : Call(t, s)) \/ Step(t) \/ Spurious(t)
    BY <1>2 DEF Next
  <2> QED
    BY <2>1, CallStep, SleepStep, SpuriousStep, LockStep, FindStep, GiveBackStep,
       FinishStep, LockExclusiveStep, LockAgainStep, InsertStep, UnlockExclusiveStep, SMTT(60)
       DEF Step
<1> QED
  BY <1>1, <1>2

\* The inductive invariant of the lock, its wait set and the table.
THEOREM Invariance == Spec => []IInv
  BY InitInv, NextInv, PTL DEF Spec

\* Mutual exclusion: whatever threads call into a session, none changes the table
\* of streams (reliable_ostreams_[stream_id]) while another reads it.
THEOREM MutualExclusion == Spec => []NoDataRace
<1>1. IInv => NoDataRace
  BY SMTT(60) DEF IInv, LockInv, NoDataRace, Reading, Sharers, ShareStages, OwnStages
<1> QED
  BY <1>1, Invariance, PTL

\* Threads that miss a stream at the same time get the same new one.
THEOREM OneObject == Spec => []OneStreamObject
<1>1. IInv => OneStreamObject
  BY DEF IInv, TableInv, OneStreamObject
<1> QED
  BY <1>1, Invariance, PTL

\* One condition variable for readers and writers, and a notify_one by the last
\* reader, lose no wakeup.
THEOREM WakeupsKept == Spec => []NoLostWakeup
<1>1. IInv => NoLostWakeup
  BY DEF IInv, WaitInv
<1> QED
  BY <1>1, Invariance, PTL

-----------------------------------------------------------------------------
(* SharedMutex is a lock for readers and a writer. *)

\* The owners after a thread changes its stage.
LEMMA OwnersAfter ==
  ASSUME TypeOK, NEW t \in Threads, NEW to \in Stages, Go(t, to)
  PROVE  /\ to \in OwnStages => Owners' = Owners \cup {t}
         /\ to \notin OwnStages => Owners' = Owners \ {t}
<1>1. stage'[t] = to /\ \A u \in Threads \ {t} : stage'[u] = stage[u]
  BY SharersAfter
<1> QED
  BY <1>1 DEF Owners

\* A step that keeps a thread's locks keeps all.
LEMMA LocksKept ==
  ASSUME TypeOK, NEW t \in Threads, NEW to \in Stages, Go(t, to),
         stage[t] \in ShareStages <=> to \in ShareStages, stage[t] \in OwnStages <=> to \in OwnStages
  PROVE  UNCHANGED RWLock!lockVars
<1>1. Sharers' = Sharers
  BY SharersAfter DEF Sharers
<1>2. Owners' = Owners
  BY OwnersAfter DEF Owners
<1> QED
  BY <1>1, <1>2 DEF RWLock!lockVars

\* Whoever has the exclusive lock is the thread SharedLock lets pass.
LEMMA ReadyIsFree ==
  ASSUME IInv, NEW t \in Threads
  PROVE  /\ SharedReady(t) => Owners \subseteq {t}
         /\ ExclusiveReady => Sharers = {} /\ Owners = {}
<1>1. \A u \in Owners : exclusively_locked /\ exclusive_thread_id = u
  BY DEF IInv, LockInv, Owners
<1>2. shared_counter = 0 => Sharers = {}
  BY SharersFinite DEF IInv, LockInv
<1> QED
  BY <1>1, <1>2 DEF SharedReady, ExclusiveReady

\* Every step of a thread is a step of the lock, or leaves it as it is.
LEMMA LockStepMaps ==
  ASSUME IInv, [Next]_vars
  PROVE  [RWLock!LockNext]_(RWLock!lockVars)
<1>0. TypeOK
  BY DEF IInv
<1>1. CASE UNCHANGED vars
  BY <1>1 DEF vars, tableVars, Sharers, Owners, RWLock!lockVars
<1>2. ASSUME NEW t \in Threads, Lock(t) \/ LockAgain(t)
      PROVE  RWLock!Share(t)
  <2>1. /\ SharedReady(t)
        /\ (stage[t] = "lock" /\ Go(t, "find")) \/ (stage[t] = "relock" /\ Go(t, "insert"))
    BY <1>2, SMTT(30) DEF Lock, LockAgain, lock_shared
  <2>2. Sharers' = Sharers \cup {t} /\ t \notin Sharers
    BY <2>1, <1>0, SharersAfter DEF Sharers, ShareStages, Stages
  <2>3. Owners' = Owners
    <3>1. CASE stage[t] = "lock" /\ Go(t, "find")
      BY <3>1, <1>0, OwnersAfter DEF Owners, OwnStages, Stages
    <3>2. CASE stage[t] = "relock" /\ Go(t, "insert")
      BY <3>2, <1>0, OwnersAfter DEF Owners, OwnStages, Stages
    <3> QED
      BY <2>1, <3>1, <3>2
  <2>4. Owners \subseteq {t}
    BY <2>1, ReadyIsFree
  <2> QED
    BY <2>2, <2>3, <2>4 DEF RWLock!Share
<1>3. ASSUME NEW t \in Threads, GiveBack(t) \/ Finish(t)
      PROVE  RWLock!EndShare(t)
  <2>1. PICK to \in {"xlock", "idle"} : Go(t, to) /\ stage[t] \in {"miss", "use"}
    BY <1>3, SMTT(30) DEF GiveBack, Finish
  <2>2. Sharers' = Sharers \ {t} /\ t \in Sharers
    BY <2>1, <1>0, SharersAfter DEF Sharers, ShareStages, Stages
  <2>3. Owners' = Owners
    BY <2>1, <1>0, OwnersAfter DEF Owners, OwnStages, Stages
  <2> QED
    BY <2>2, <2>3 DEF RWLock!EndShare
<1>4. ASSUME NEW t \in Threads, LockExclusive(t)
      PROVE  RWLock!Own(t)
  <2>1. Go(t, "relock") /\ stage[t] = "xlock" /\ ExclusiveReady
    BY <1>4, SMTT(30) DEF LockExclusive, lock_exclusive
  <2>2. Sharers' = Sharers
    BY <2>1, <1>0, SharersAfter DEF Sharers, ShareStages, Stages
  <2>3. Owners' = Owners \cup {t}
    BY <2>1, <1>0, OwnersAfter DEF OwnStages, Stages
  <2>4. Sharers = {} /\ Owners = {}
    BY <2>1, ReadyIsFree
  <2> QED
    BY <2>2, <2>3, <2>4 DEF RWLock!Own
<1>5. ASSUME NEW t \in Threads, UnlockExclusive(t)
      PROVE  RWLock!EndOwn(t)
  <2>1. Go(t, "use") /\ stage[t] = "xunlock"
    BY <1>5, SMTT(30) DEF UnlockExclusive
  <2>2. Sharers' = Sharers
    BY <2>1, <1>0, SharersAfter DEF Sharers, ShareStages, Stages
  <2>3. Owners' = Owners \ {t} /\ t \in Owners
    BY <2>1, <1>0, OwnersAfter DEF Owners, OwnStages, Stages
  <2> QED
    BY <2>2, <2>3 DEF RWLock!EndOwn
<1>6. ASSUME NEW t \in Threads,
             (\E s \in Streams \cup {All} : Call(t, s)) \/ Find(t) \/ Insert(t)
      PROVE  UNCHANGED RWLock!lockVars
  <2>1. CASE \E s \in Streams \cup {All} : Call(t, s)
    <3>1. Go(t, "lock") /\ stage[t] = "idle"
      BY <2>1 DEF Call
    <3> QED
      BY <3>1, <1>0, LocksKept DEF ShareStages, OwnStages, Stages
  <2>2. CASE Find(t)
    <3>1. PICK to \in {"use", "miss"} : Go(t, to) /\ stage[t] = "find"
      BY <2>2 DEF Find
    <3> QED
      BY <3>1, <1>0, LocksKept DEF ShareStages, OwnStages, Stages
  <2>3. CASE Insert(t)
    <3>1. Go(t, "xunlock") /\ stage[t] = "insert"
      BY <2>3 DEF Insert
    <3> QED
      BY <3>1, <1>0, LocksKept DEF ShareStages, OwnStages, Stages
  <2> QED
    BY <1>6, <2>1, <2>2, <2>3
<1>7. ASSUME NEW t \in Threads, Sleep(t) \/ Spurious(t)
      PROVE  UNCHANGED RWLock!lockVars
  <2>1. stage' = stage
    BY <1>7 DEF Sleep, Spurious, tableVars
  <2> QED
    BY <2>1 DEF Sharers, Owners, RWLock!lockVars
<1>8. CASE Next
  <2>1. PICK t \in Threads :
          (\E s \in Streams \cup {All} : Call(t, s)) \/ Step(t) \/ Spurious(t)
    BY <1>8 DEF Next
  <2>2. \/ Lock(t) \/ LockAgain(t) \/ GiveBack(t) \/ Finish(t) \/ LockExclusive(t) \/ UnlockExclusive(t)
        \/ (\E s \in Streams \cup {All} : Call(t, s)) \/ Find(t) \/ Insert(t)
        \/ Sleep(t) \/ Spurious(t)
    BY <2>1, Zenon DEF Step
  <2> QED
    BY <2>2, <1>2, <1>3, <1>4, <1>5, <1>6, <1>7, Zenon DEF RWLock!LockNext
<1> QED
  BY <1>1, <1>8

\* SharedMutex, as the sessions use it, implements a lock for many readers or one writer, for
\* every number of threads: its counter, flag and thread id never let a thread pass whom the
\* sets of readers and writers would keep out.
THEOREM MutexIsALock == Spec => ImplementsLock
<1>1. Init => RWLock!LockInit
  BY DEF Init, Sharers, Owners, ShareStages, OwnStages, RWLock!LockInit
<1>2. IInv /\ [Next]_vars => [RWLock!LockNext]_(RWLock!lockVars)
  BY LockStepMaps
<1> QED
  BY <1>1, <1>2, Invariance, PTL DEF Spec, ImplementsLock, RWLock!LockSpec
=============================================================================
