-------------------------- MODULE ReadersWriterLock -------------------------
(***************************************************************************)
(* What SharedMutex promises to its users: a lock for many readers or one  *)
(* writer, in which the writer may also become a reader and stay one when  *)
(* it gives the exclusive lock back.  Who has the lock is a set of threads *)
(* here, and a number, a flag and the id of a thread in the code.          *)
(***************************************************************************)
CONSTANT Threads

VARIABLES readers, writers

lockVars == <<readers, writers>>

LockInit == readers = {} /\ writers = {}

Share(t) ==
  /\ t \notin readers /\ writers \subseteq {t}
  /\ readers' = readers \cup {t}
  /\ UNCHANGED writers

EndShare(t) ==
  /\ t \in readers
  /\ readers' = readers \ {t}
  /\ UNCHANGED writers

Own(t) ==
  /\ readers = {} /\ writers = {}
  /\ writers' = {t}
  /\ UNCHANGED readers

EndOwn(t) ==
  /\ t \in writers
  /\ writers' = writers \ {t}
  /\ UNCHANGED readers

LockNext == \E t \in Threads : Share(t) \/ EndShare(t) \/ Own(t) \/ EndOwn(t)

LockSpec == LockInit /\ [][LockNext]_lockVars
=============================================================================
