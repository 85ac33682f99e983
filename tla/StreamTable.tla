---------------------------- MODULE StreamTable -----------------------------
(***************************************************************************)
(* The table of reliable output streams of a Session                       *)
(* (client/session/Session.hpp): readers, the processing thread and the    *)
(* heartbeat thread look a stream up under a shared lock;                  *)
(* get_reliable_output_stream changes to an exclusive one to create it and *)
(* back to a shared one, under which the caller goes on to use the stream. *)
(*                                                                         *)
(* A call of a thread runs through the stages                              *)
(*   "lock"     the SharedLock of the caller is being taken,               *)
(*   "find"     the table is being searched,                               *)
(*   "miss"     the shared lock is being given back,                       *)
(*   "xlock"    the exclusive lock is being taken,                         *)
(*   "relock"   the shared lock is being taken again,                      *)
(*   "insert"   the table is being changed,                                *)
(*   "xunlock"  the exclusive lock is being given back,                    *)
(*   "use"      the stream is in use, until the SharedLock is destroyed.   *)
(* Searching and inserting are stages, not steps: two threads are in them  *)
(* at a time when the locks allow it.                                      *)
(***************************************************************************)
EXTENDS SharedMutex

CONSTANTS Streams,   \* ids of reliable streams
          All,       \* for calls that go through the whole table
          MaxCalls   \* bound on the calls a thread makes

ASSUME TableAssumption == All \notin Streams /\ MaxCalls \in Nat

VARIABLES
  stage,      \* of each thread
  target,     \* of each thread: the stream its call is for
  ostreams,   \* reliable_ostreams_: id to stream object
  created,    \* history: stream objects made
  object,     \* history: of each thread, the object its call found, or 0
  calls       \* of each thread: calls made

tableVars == <<stage, target, ostreams, created, object, calls>>

vars == <<mutexVars, tableVars>>

Stages == {"idle", "lock", "find", "miss", "xlock", "relock", "insert", "xunlock", "use"}

Init ==
  /\ MutexInit
  /\ stage = [t \in Threads |-> "idle"]
  /\ target = [t \in Threads |-> All]
  /\ ostreams = [s \in {} |-> 0]
  /\ created = 0
  /\ object = [t \in Threads |-> 0]
  /\ calls = [t \in Threads |-> 0]

Go(t, to) == stage' = [stage EXCEPT ![t] = to]

-----------------------------------------------------------------------------
\* push_output_submessage, get_next_output_message, get_output_message,
\* update_from_acknack and fill_heartbeat for a reliable stream, or (All)
\* get_output_streams and the last loop of reset.
Call(t, s) ==
  /\ stage[t] = "idle" /\ calls[t] < MaxCalls
  /\ calls' = [calls EXCEPT ![t] = @ + 1]
  /\ target' = [target EXCEPT ![t] = s]
  /\ object' = [object EXCEPT ![t] = 0]
  /\ Go(t, "lock")
  /\ UNCHANGED <<mutexVars, ostreams, created>>

\* The two places that wait for cv_.
Sleep(t) ==
  /\ t \notin waiting
  /\ \/ stage[t] \in {"lock", "relock"} /\ ~ SharedReady(t)
     \/ stage[t] = "xlock" /\ ~ ExclusiveReady
  /\ Wait(t)
  /\ UNCHANGED tableVars

\* A condition variable may wake a thread for no reason.
Spurious(t) ==
  /\ t \in waiting
  /\ waiting' = waiting \ {t}
  /\ UNCHANGED <<shared_counter, exclusively_locked, exclusive_thread_id, tableVars>>

Lock(t) ==
  /\ stage[t] = "lock" /\ t \notin waiting
  /\ lock_shared(t)
  /\ Go(t, "find")
  /\ UNCHANGED <<target, ostreams, created, object, calls>>

\* The end of find: hit or miss.
Find(t) ==
  /\ stage[t] = "find"
  /\ IF target[t] = All THEN Go(t, "use") /\ UNCHANGED object
     ELSE IF target[t] \in DOMAIN ostreams
     THEN Go(t, "use") /\ object' = [object EXCEPT ![t] = ostreams[target[t]]]
     ELSE Go(t, "miss") /\ UNCHANGED object
  /\ UNCHANGED <<mutexVars, target, ostreams, created, calls>>

GiveBack(t) ==
  /\ stage[t] = "miss"
  /\ unlock_shared
  /\ Go(t, "xlock")
  /\ UNCHANGED <<target, ostreams, created, object, calls>>

LockExclusive(t) ==
  /\ stage[t] = "xlock" /\ t \notin waiting
  /\ lock_exclusive(t)
  /\ Go(t, "relock")
  /\ UNCHANGED <<target, ostreams, created, object, calls>>

LockAgain(t) ==
  /\ stage[t] = "relock" /\ t \notin waiting
  /\ lock_shared(t)
  /\ Go(t, "insert")
  /\ UNCHANGED <<target, ostreams, created, object, calls>>

\* Mutant: a new stream whether or not another thread has made it meanwhile.
Bug_InsertAlways(t) ==
  /\ stage[t] = "insert"
  /\ created' = created + 1
  /\ ostreams' = [s \in DOMAIN ostreams \cup {target[t]} |->
                    IF s = target[t] THEN created' ELSE ostreams[s]]
  /\ object' = [object EXCEPT ![t] = ostreams'[target[t]]]
  /\ Go(t, "xunlock")
  /\ UNCHANGED <<mutexVars, target, calls>>

\* reliable_ostreams_[stream_id]: the stream is made unless it is there by now.
Insert(t) ==
  /\ stage[t] = "insert"
  /\ IF target[t] \in DOMAIN ostreams THEN UNCHANGED <<ostreams, created>>
     ELSE /\ created' = created + 1
          /\ ostreams' = [s \in DOMAIN ostreams \cup {target[t]} |->
                            IF s = target[t] THEN created' ELSE ostreams[s]]
  /\ object' = [object EXCEPT ![t] = ostreams'[target[t]]]
  /\ Go(t, "xunlock")
  /\ UNCHANGED <<mutexVars, target, calls>>

UnlockExclusive(t) ==
  /\ stage[t] = "xunlock"
  /\ unlock_exclusive
  /\ Go(t, "use")
  /\ UNCHANGED <<target, ostreams, created, object, calls>>

\* The operation on the stream (a push may wait for room, no longer than its
\* timeout) and the end of the caller's SharedLock.
Finish(t) ==
  /\ stage[t] = "use"
  /\ unlock_shared
  /\ Go(t, "idle")
  /\ UNCHANGED <<target, ostreams, created, object, calls>>

\* Each step is in one thread and changes the lock, the table or the stage.
Step(t) ==
  \/ Sleep(t) \/ Lock(t) \/ Find(t) \/ GiveBack(t) \/ LockExclusive(t)
  \/ LockAgain(t) \/ Insert(t) \/ UnlockExclusive(t) \/ Finish(t)

Next ==
  \E t \in Threads :
    \/ \E s \in Streams \cup {All} : Call(t, s)
    \/ Step(t)
    \/ Spurious(t)

Spec == Init /\ [][Next]_vars

\* A thread inside a call keeps running; nothing makes one start a call.
FairSpec == Spec /\ \A t \in Threads : WF_vars(Step(t))

-----------------------------------------------------------------------------
(* Properties. *)

TypeOK ==
  /\ shared_counter \in Nat
  /\ exclusively_locked \in BOOLEAN
  /\ exclusive_thread_id \in Threads \cup {NoThread}
  /\ waiting \subseteq Threads
  /\ stage \in [Threads -> Stages]
  /\ target \in [Threads -> Streams \cup {All}]
  /\ DOMAIN ostreams \subseteq Streams /\ \A s \in DOMAIN ostreams : ostreams[s] \in Nat
  /\ created \in Nat
  /\ object \in [Threads -> Nat]
  /\ calls \in [Threads -> Nat]

\* The table is searched, or gone through, by a thread.
Reading(t) == stage[t] = "find" \/ (stage[t] = "use" /\ target[t] = All)

\* No thread changes the unordered_map while another one searches, changes or
\* goes through it.
NoDataRace ==
  \A t, u \in Threads :
    stage[t] = "insert" /\ t # u => ~ Reading(u) /\ stage[u] # "insert"

\* A stream has one object for ever, and a thread that uses a stream has it:
\* get_reliable_output_stream gives two threads that miss at the same time the
\* same stream, so no message is pushed to one that is replaced.
OneStreamObject ==
  \A t \in Threads :
    /\ stage[t] = "use" /\ target[t] # All => object[t] # 0
    /\ object[t] # 0 => target[t] \in DOMAIN ostreams /\ object[t] = ostreams[target[t]]

\* No wakeup is lost in cv_, although readers and writers share it and the last
\* reader wakes only one thread: when a thread sleeps and could go on, one that
\* has been woken is about to.
NoLostWakeup ==
  \A t \in waiting :
    /\ stage[t] \in {"lock", "relock"} => ~ SharedReady(t)
    /\ stage[t] = "xlock" =>
         ~ ExclusiveReady \/ \E u \in Threads \ waiting : stage[u] \in {"lock", "xlock"}

\* The threads that have the shared lock, and those that have the exclusive one.
ShareStages == {"find", "miss", "insert", "xunlock", "use"}

OwnStages == {"relock", "insert", "xunlock"}

Sharers == {t \in Threads : stage[t] \in ShareStages}

Owners == {t \in Threads : stage[t] \in OwnStages}

\* shared_counter_, exclusively_locked_ and exclusive_thread_id_ make a lock for many
\* readers or one writer out of mtx_ and cv_, although SharedLock lets a thread pass by
\* an id that unlock does not clear, and a thread may hold both locks.
RWLock == INSTANCE ReadersWriterLock WITH readers <- Sharers, writers <- Owners

ImplementsLock == RWLock!LockSpec

\* Every call returns: no deadlock between the shared lock a thread holds and
\* the exclusive lock it or another one takes.
EveryCallReturns == \A t \in Threads : stage[t] # "idle" ~> stage[t] = "idle"
=============================================================================
