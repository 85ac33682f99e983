---------------------------- MODULE SharedMutex -----------------------------
(***************************************************************************)
(* Classes SharedMutex, SharedLock and ExclusiveLock                       *)
(* (utils/SharedMutex.hpp): readers and one writer over a std::mutex and a *)
(* condition variable.  mtx_ makes every test and update one step; waiting *)
(* is the wait set of cv_.  A thread that is woken tests its predicate     *)
(* again before it goes on.                                                *)
(***************************************************************************)
EXTENDS Integers, FiniteSets

CONSTANTS Threads, NoThread

ASSUME ThreadAssumption == IsFiniteSet(Threads) /\ NoThread \notin Threads

VARIABLES shared_counter, exclusively_locked, exclusive_thread_id, waiting

mutexVars == <<shared_counter, exclusively_locked, exclusive_thread_id, waiting>>

MutexInit ==
  /\ shared_counter = 0
  /\ exclusively_locked = FALSE
  /\ exclusive_thread_id = NoThread
  /\ waiting = {}

\* The predicate of SharedLock::lock.  exclusive_thread_id_ is not cleared by
\* unlock, so it names the last owner when there is none.
SharedReady(t) == ~ exclusively_locked \/ exclusive_thread_id = t

\* Mutant: readers do not keep a writer out.
Bug_ReadersIgnored == ~ exclusively_locked

\* The predicate of ExclusiveLock::lock.
ExclusiveReady == shared_counter = 0 /\ ~ exclusively_locked

Wait(t) ==
  /\ waiting' = waiting \cup {t}
  /\ UNCHANGED <<shared_counter, exclusively_locked, exclusive_thread_id>>

notify_one ==
  IF waiting = {} THEN waiting' = {} ELSE \E t \in waiting : waiting' = waiting \ {t}

notify_all == waiting' = {}

\* SharedLock::lock, when its predicate holds.
lock_shared(t) ==
  /\ SharedReady(t)
  /\ shared_counter' = shared_counter + 1
  /\ UNCHANGED <<exclusively_locked, exclusive_thread_id, waiting>>

\* Mutant: the last reader leaves without a word.
Bug_SilentUnlock ==
  /\ shared_counter' = shared_counter - 1
  /\ UNCHANGED <<exclusively_locked, exclusive_thread_id, waiting>>

\* SharedLock::unlock
unlock_shared ==
  /\ shared_counter' = shared_counter - 1
  /\ IF shared_counter' = 0 THEN notify_one ELSE UNCHANGED waiting
  /\ UNCHANGED <<exclusively_locked, exclusive_thread_id>>

\* ExclusiveLock::lock, when its predicate holds.
lock_exclusive(t) ==
  /\ ExclusiveReady
  /\ exclusively_locked' = TRUE
  /\ exclusive_thread_id' = t
  /\ UNCHANGED <<shared_counter, waiting>>

\* Mutant: one of the waiting threads is told, the others sleep on.
Bug_NotifyOne ==
  /\ exclusively_locked' = FALSE
  /\ notify_one
  /\ UNCHANGED <<shared_counter, exclusive_thread_id>>

\* ExclusiveLock::unlock
unlock_exclusive ==
  /\ exclusively_locked' = FALSE
  /\ notify_all
  /\ UNCHANGED <<shared_counter, exclusive_thread_id>>
=============================================================================
