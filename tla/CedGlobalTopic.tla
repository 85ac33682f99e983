--------------------------- MODULE CedGlobalTopic ---------------------------
(***************************************************************************)
(* Class CedGlobalTopic (middleware/ced/CedEntities.cpp): the ring of the  *)
(* last samples written to a topic.  Every reader keeps the serial number  *)
(* of the last sample it took.  mtx_ makes write and each half of read one *)
(* step.  A sample stands for its data: number is its place among all that *)
(* were ever written, which the program does not know.                     *)
(***************************************************************************)
EXTENDS SeqNum

CONSTANT HistorySize                    \* history_.size(), 16

ASSUME HistoryAssumption == HistorySize \in 1 .. Half - 1 /\ MAX % HistorySize = 0

VARIABLES history_, srcs_, last_write_, written

topicVars == <<history_, srcs_, last_write_, written>>

Sources == {"INTERNAL", "EXTERNAL"}

Accesses == Sources \cup {"COMPLETE", "NONE"}

\* srcs_ is not initialised: a slot nobody wrote may hold either source.
TopicInit ==
  /\ history_ = [i \in 0 .. HistorySize - 1 |-> 0]
  /\ srcs_ \in [0 .. HistorySize - 1 -> Sources]
  /\ last_write_ = MAX - 1
  /\ written = 0

Allows(access, src) == access = "COMPLETE" \/ access = src

Slot(n) == n % HistorySize

\* CedGlobalTopic::write, through CedDataWriter::write and CedMiddleware::write_data.
write(access, src) ==
  IF Allows(access, src)
  THEN /\ history_' = [history_ EXCEPT ![Slot((last_write_ + 1) % MAX)] = written + 1]
       /\ srcs_' = [srcs_ EXCEPT ![Slot((last_write_ + 1) % MAX)] = src]
       /\ last_write_' = Increment(last_write_)
       /\ written' = written + 1
  ELSE UNCHANGED topicVars

\* get_data: the next sample, if the reader may have it.
get_data(last_read, access) ==
  LET next == Increment(last_read)
  IN  [rv |-> Allows(access, srcs_[Slot(next)]), last_read |-> next, number |-> history_[Slot(next)]]

\* Mutant: a reader that was lapped goes on where it was.
Bug_NotFixed(last_read) == last_read

\* Fix last_read: a reader that was lapped, or that looks ahead, continues with the oldest sample.
Fixed(last_read) ==
  IF Le(last_read, Sub(last_write_, HistorySize)) \/ Gt(last_read, last_write_)
  THEN Sub(last_write_, HistorySize)
  ELSE last_read

\* How many samples a reader is behind, when it is less than MAX.
Behind(last_read) == Sub(last_write_, last_read)

\* How far after from the samples are that the reader may have.
Steps(from, access) ==
  {n \in 1 .. Behind(from) : Allows(access, srcs_[Slot((from + n) % MAX)])}

\* The first of them, if there is one.
Search(from, access) ==
  LET steps == Steps(from, access)
      first == CHOOSE n \in steps : \A m \in steps : n =< m
      next == (from + first) % MAX
  IN  IF steps = {} THEN [rv |-> FALSE, last_read |-> last_write_, number |-> 0]
      ELSE [rv |-> TRUE, last_read |-> next, number |-> history_[Slot(next)]]

\* CedGlobalTopic::read without waiting.
read_now(last_read, access) ==
  IF last_read = last_write_ THEN [rv |-> FALSE, last_read |-> last_read, number |-> 0]
  ELSE Search(Fixed(last_read), access)

\* CedGlobalTopic::read waiting: the predicate of wait_until, which does not fix last_read.
Predicate(last_read, access) ==
  IF last_read = last_write_ THEN [rv |-> FALSE, last_read |-> last_read, number |-> 0]
  ELSE get_data(last_read, access)

-----------------------------------------------------------------------------

\* The samples the ring holds that a reader may have.
Readable(access) ==
  {n \in 1 .. written : n > written - HistorySize /\ Allows(access, srcs_[Slot((n - 1) % MAX)])}
=============================================================================
