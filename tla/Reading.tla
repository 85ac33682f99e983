------------------------------ MODULE Reading -------------------------------
(***************************************************************************)
(* A client reads: READ_DATA on a data reader or a requester starts a      *)
(* thread (class Reader, reader/Reader.hpp) that takes samples from the    *)
(* middleware, lets a token bucket hold them back and pushes them into an  *)
(* output stream until it was asked to stop, has sent enough of them or    *)
(* its time is over.  A new READ_DATA and the end of the object stop the   *)
(* thread from the processing thread, which alone handles the ACKNACKs     *)
(* that make room in the output stream.                                    *)
(*                                                                         *)
(* A data reader takes its samples from the ring of a CedGlobalTopic, a    *)
(* requester its replies from a FastDDSRequester; object says which of the *)
(* two this behaviour is about.                                            *)
(***************************************************************************)
EXTENDS TokenBucket, CedGlobalTopic, FastDDSRequester

CONSTANTS
  Controls,     \* by kind of object, the DataDeliveryControls of READ_DATAs
  Unlimited,    \* max_samples_unlimited, 0xFFFF
  CountMod,     \* 2^16, the values of message_count
  ReadAccesses, \* of data readers
  Sizes,        \* sizes of samples, by turns
  Window,       \* what the output stream holds unacknowledged
  MaxReads,     \* bound: READ_DATAs
  MaxWrites     \* bound: samples written to the topic

ASSUME ReadingAssumption ==
  /\ Unlimited < CountMod /\ Window \in Nat \ {0}
  /\ \A o \in {"DATAREADER", "REQUESTER"} :
       /\ Controls[o] # {}
       /\ \A c \in Controls[o] : /\ c.max_samples \in 0 .. Unlimited
                                /\ c.max_bytes_per_second \in Nat /\ c.max_elapsed_time \in Nat
  /\ Sizes \in Seq(Nat) /\ Sizes # <<>>

VARIABLES
  object,              \* "DATAREADER" or "REQUESTER"
  entity,              \* whether the middleware has it
  read_access_,
  last_read_,
  running_cond_, delivery_control_, thread_,
  read_control,        \* of the READ_DATA being processed
  bucket, message_count, data,             \* locals of read_task
  timeout, left, timer, granted,           \* ticks: the timeout in use, to final_time, to the end of a wait
  processing,          \* the processing thread, and what it will do after joining thread_
  reads,               \* READ_DATAs so far
  room,                \* what the output stream still takes
  taken, spent, served \* the last sample taken in order, tokens to be earned back, requests answered

taskVars == <<bucket, message_count, data, timeout, left, timer, granted>>
readerVars == <<running_cond_, delivery_control_, thread_, read_control>>
clientVars == <<object, read_access_, reads, room>>
vars == <<topicVars, requesterVars, taskVars, readerVars, clientVars, entity, last_read_, processing,
          taken, spent, served>>

NoData == [number |-> 0, request |-> 0]

RwTimeout == 1          \* rw_timeout, in ticks

Forever == -2           \* the time left when max_elapsed_time is unlimited

Init ==
  /\ TopicInit /\ RequesterInit
  /\ object \in {"DATAREADER", "REQUESTER"}
  /\ read_access_ \in IF object = "DATAREADER" THEN ReadAccesses ELSE {"COMPLETE"}
  /\ entity = TRUE
  /\ last_read_ = MAX - 1
  /\ running_cond_ = FALSE /\ thread_ = "none"
  /\ delivery_control_ = CHOOSE c \in Controls[object] : TRUE
  /\ read_control = delivery_control_
  /\ bucket = NewBucket(NoRate) /\ message_count = 0 /\ data = NoData
  /\ timeout = 0 /\ left = Forever /\ timer = 0 /\ granted = FALSE
  /\ processing = "idle"
  /\ reads = 0 /\ room = Window
  /\ taken = 0 /\ spent = 0 /\ served = {}

-----------------------------------------------------------------------------
(* read_task *)

\* min(max_timeout, final_time - now); after final_time a wait is over at once.
Timeout == IF left = Forever \/ left > RwTimeout THEN RwTimeout ELSE left

SizeOf(number) == Sizes[1 + (number % Len(Sizes))]

\* The locals of a thread that is not there.
NoTask ==
  /\ bucket' = NewBucket(NoRate) /\ message_count' = 0 /\ data' = NoData
  /\ timeout' = 0 /\ left' = Forever /\ timer' = 0 /\ granted' = FALSE /\ spent' = 0

\* stop_cond: enough samples, a count that wraps, or the time is over.
StopCond(count) ==
  \/ delivery_control_.max_samples # Unlimited /\ count = delivery_control_.max_samples
  \/ left = -1

\* Mutant: a thread that ends by itself says so.
Bug_ClearsRunning(count) ==
  IF StopCond(count) THEN NoTask /\ thread_' = "ended" /\ running_cond_' = FALSE
  ELSE /\ thread_' = "loop" /\ message_count' = count /\ data' = NoData
       /\ timer' = 0 /\ granted' = FALSE
       /\ UNCHANGED <<bucket, timeout, left, spent, running_cond_>>

\* The end of the loop's body.
end_iteration(count) ==
  /\ IF StopCond(count) THEN NoTask /\ thread_' = "ended"
     ELSE /\ thread_' = "loop" /\ message_count' = count /\ data' = NoData
          /\ timer' = 0 /\ granted' = FALSE
          /\ UNCHANGED <<bucket, timeout, left, spent>>
  /\ UNCHANGED running_cond_

\* read_fn came back with a sample.
has_sample(number, request) ==
  /\ data' = [number |-> number, request |-> request]
  /\ thread_' = "tokens"
  /\ UNCHANGED <<running_cond_, bucket, message_count, left, granted, spent>>

\* while (running_cond_ && !stop_cond)
stopped ==
  /\ thread_ = "loop" /\ ~ running_cond_
  /\ thread_' = "ended"
  /\ NoTask
  /\ UNCHANGED <<topicVars, requesterVars, clientVars, running_cond_, delivery_control_, read_control, entity,
                 last_read_, processing, taken, served>>

\* What the ring gave a data reader; a sample taken by a reader that was lapped waiting is out of order.
ced_took(got, lapped) ==
  /\ last_read_' = got.last_read
  /\ taken' = IF got.rv /\ ~ lapped THEN got.number ELSE taken

\* read_fn up to its wait: DataReader::read_fn, CedMiddleware::read_data, CedDataReader::read.
begin_read ==
  /\ thread_ = "loop" /\ running_cond_
  /\ timeout' = Timeout
  /\ timer' = Timeout
  /\ LET got == IF object = "DATAREADER" THEN read_now(last_read_, read_access_)
                ELSE [rv |-> FALSE, last_read |-> last_read_, number |-> 0]
     IN  /\ ced_took(got, FALSE)
         /\ IF got.rv THEN has_sample(got.number, 1)
            ELSE /\ thread_' = "waiting"
                 /\ UNCHANGED <<running_cond_, bucket, message_count, data, left, granted, spent>>
  /\ UNCHANGED <<topicVars, requesterVars, clientVars, delivery_control_, read_control, entity, processing, served>>

Lapped == Behind(last_read_) > HistorySize

\* The wait of CedGlobalTopic::read: woken by a write, or for the last time when the time is over.
wait_ced ==
  /\ thread_ = "waiting" /\ object = "DATAREADER"
  /\ last_read_ # last_write_ \/ timer <= 0
  /\ LET got == Predicate(last_read_, read_access_)
     IN  /\ ced_took(got, Lapped)
         /\ \/ got.rv /\ has_sample(got.number, 1) /\ UNCHANGED <<timeout, timer>>
            \/ ~ got.rv /\ timer > 0 /\ UNCHANGED <<taskVars, thread_, running_cond_, spent>>
            \/ ~ got.rv /\ timer <= 0 /\ end_iteration(message_count)
  /\ UNCHANGED <<topicVars, requesterVars, clientVars, delivery_control_, read_control, entity, processing, served>>

\* The request of this requester that a reply answers.
Number(sample) == IF sample.writer = Me THEN sample.sequence ELSE 0

\* The wait of FastDDSRequester::read, for a reply that may not count.
wait_reply ==
  /\ thread_ = "waiting" /\ object = "REQUESTER"
  /\ \/ /\ unread # <<>>
        /\ take_next_sample
        /\ IF Answers(Head(unread))
           THEN has_sample(Number(Head(unread)), RequestOf(Head(unread))) /\ UNCHANGED <<timeout, timer>>
           ELSE end_iteration(message_count)
     \/ /\ unread = <<>> /\ timer <= 0
        /\ end_iteration(message_count)
        /\ UNCHANGED requesterVars
  /\ UNCHANGED <<topicVars, clientVars, delivery_control_, read_control, entity, last_read_, processing, taken, served>>

\* Tokens granted and not yet earned back, in fractions of a token, at the time they are granted for.
Spend(size, sleep) ==
  IF bucket.rate = NoRate THEN 0
  ELSE Second * size + (IF spent > bucket.rate * sleep THEN spent - bucket.rate * sleep ELSE 0)

\* token_bucket.consume_tokens(data.size(), timeout), up to its sleep.
consume ==
  /\ thread_ = "tokens"
  /\ LET c == consume_tokens(bucket, SizeOf(data.number), timeout)
     IN  /\ bucket' = c.bucket /\ granted' = c.granted /\ timer' = c.sleep
         /\ spent' = IF c.granted THEN Spend(SizeOf(data.number), c.sleep) ELSE spent
  /\ thread_' = "sleeping"
  /\ UNCHANGED <<topicVars, requesterVars, clientVars, running_cond_, delivery_control_, read_control, entity, last_read_,
                 message_count, data, timeout, left, processing, taken, served>>

\* Mutant: a sample the bucket holds back is given up.
Bug_GivenUp ==
  /\ thread_ = "sleeping" /\ timer <= 0
  /\ IF granted
     THEN /\ thread_' = "pushing" /\ timeout' = Timeout /\ timer' = Timeout
          /\ UNCHANGED <<running_cond_, bucket, message_count, data, left, granted, spent>>
     ELSE end_iteration(message_count)
  /\ UNCHANGED <<topicVars, requesterVars, clientVars, delivery_control_, read_control, entity, last_read_, processing,
                 taken, served>>

\* After the sleep: push what was granted, ask again for what was not.
awake ==
  /\ thread_ = "sleeping" /\ timer <= 0
  /\ \/ /\ granted
        /\ thread_' = "pushing" /\ timeout' = Timeout /\ timer' = Timeout
        /\ UNCHANGED <<running_cond_, bucket, message_count, data, left, granted, spent>>
     \/ /\ ~ granted /\ running_cond_
        /\ thread_' = "tokens"
        /\ UNCHANGED <<taskVars, running_cond_, spent>>
     \/ /\ ~ granted /\ ~ running_cond_
        /\ end_iteration(message_count)
  /\ UNCHANGED <<topicVars, requesterVars, clientVars, delivery_control_, read_control, entity, last_read_, processing,
                 taken, served>>

\* Processor::read_data_callback with an endpoint: pushed as soon as there is room.
push ==
  /\ thread_ = "pushing" /\ room > 0
  /\ room' = room - 1
  /\ served' = IF object = "REQUESTER" THEN served \cup {data.number} ELSE served
  /\ end_iteration((message_count + 1) % CountMod)
  /\ UNCHANGED <<topicVars, requesterVars, object, read_access_, reads, delivery_control_, read_control, entity,
                 last_read_, processing, taken>>

\* Mutant: pushing goes on until it succeeds.
Bug_UntilPushed ==
  /\ thread_ = "pushing" /\ timer <= 0
  /\ timeout' = Timeout /\ timer' = Timeout
  /\ UNCHANGED <<topicVars, requesterVars, clientVars, readerVars, entity, last_read_, bucket, message_count,
                 data, left, granted, processing, taken, spent, served>>

\* No room for as long as the timeout, or no endpoint, when it sleeps as long.
push_times_out ==
  /\ thread_ = "pushing" /\ timer <= 0
  /\ \/ /\ running_cond_
        /\ timeout' = Timeout /\ timer' = Timeout
        /\ UNCHANGED <<thread_, running_cond_, bucket, message_count, data, left, granted, spent>>
     \/ /\ ~ running_cond_
        /\ end_iteration(message_count)
  /\ UNCHANGED <<topicVars, requesterVars, clientVars, delivery_control_, read_control, entity, last_read_, processing,
                 taken, served>>

read_task == stopped \/ begin_read \/ wait_ced \/ wait_reply \/ consume \/ awake \/ push \/ push_times_out

-----------------------------------------------------------------------------
(* The processing thread *)

\* process_read_data_submessage, DataReader::read or Requester::read, Reader::stop_reading up to its
\* join.  A thread that ended by itself left running_cond_ set and is joined like any other.
process_read_data(control) ==
  /\ processing = "idle" /\ entity /\ reads < MaxReads
  /\ reads' = reads + 1
  /\ read_control' = control
  /\ running_cond_' = FALSE
  /\ processing' = IF running_cond_ THEN "joining" ELSE "starting"
  /\ UNCHANGED <<topicVars, requesterVars, object, read_access_, room, entity, last_read_, thread_,
                 delivery_control_, taskVars, taken, spent, served>>

\* thread_.join() returns, in stop_reading.
join ==
  /\ processing \in {"joining", "destroying"} /\ thread_ = "ended"
  /\ thread_' = "none"
  /\ processing' = IF processing = "joining" THEN "starting" ELSE "gone"
  /\ entity' = (entity /\ processing = "joining")
  /\ UNCHANGED <<topicVars, requesterVars, clientVars, running_cond_, delivery_control_, read_control, taskVars,
                 last_read_, taken, spent, served>>

\* Reader::start_reading: false, and STATUS_ERR_RESOURCES for the client, if the thread is running.
start_reading ==
  /\ processing = "starting"
  /\ processing' = "idle"
  /\ IF running_cond_ THEN UNCHANGED <<readerVars, taskVars, spent>>
     ELSE /\ delivery_control_' = read_control
          /\ running_cond_' = TRUE
          /\ thread_' = "loop"
          /\ bucket' = NewBucket(read_control.max_bytes_per_second)
          /\ left' = IF read_control.max_elapsed_time = 0 THEN Forever
                     ELSE Second * read_control.max_elapsed_time
          /\ message_count' = 0 /\ data' = NoData
          /\ timeout' = 0 /\ timer' = 0 /\ granted' = FALSE /\ spent' = 0
          /\ UNCHANGED read_control
  /\ UNCHANGED <<topicVars, requesterVars, clientVars, entity, last_read_, taken, served>>

\* ~DataReader up to the join, and ~Requester whole, before the ~Reader of its reader_: kept says
\* whether the middleware still has the object.
destroy(kept) ==
  /\ processing = "idle" /\ entity
  /\ entity' = (kept /\ running_cond_)
  /\ running_cond_' = FALSE
  /\ processing' = IF running_cond_ THEN "destroying" ELSE "gone"
  /\ UNCHANGED <<topicVars, requesterVars, clientVars, thread_, delivery_control_, read_control, taskVars,
                 last_read_, taken, spent, served>>

\* Mutant: the data reader is deleted before its thread is stopped.
Bug_DeletedFirst == object = "DATAREADER" /\ destroy(FALSE)

\* DELETE_ID of a data reader: it is deleted when its thread has been joined.
delete_datareader == object = "DATAREADER" /\ destroy(TRUE)

\* DELETE_ID of a requester: it is deleted first.
delete_requester == object = "REQUESTER" /\ destroy(FALSE)

\* WRITE_DATA on the requester, in its two steps.
process_write_request ==
  /\ object = "REQUESTER" /\ processing = "idle" /\ entity
  /\ write_request(Me)
  /\ processing' = "written"
  /\ UNCHANGED <<topicVars, clientVars, readerVars, taskVars, entity, last_read_, taken, spent, served>>

record_request ==
  /\ processing = "written"
  /\ emplace
  /\ processing' = "idle"
  /\ UNCHANGED <<topicVars, clientVars, readerVars, taskVars, entity, last_read_, taken, spent, served>>

\* An ACKNACK of all that was sent.
process_acknack ==
  /\ processing = "idle" /\ room < Window
  /\ room' = Window
  /\ UNCHANGED <<topicVars, requesterVars, object, read_access_, reads, readerVars, taskVars, entity,
                 last_read_, processing, taken, spent, served>>

-----------------------------------------------------------------------------
(* The others *)

\* A sample is written to the topic by any data writer.
write_topic ==
  /\ object = "DATAREADER" /\ written < MaxWrites
  /\ \E access \in Accesses, src \in Sources : write(access, src)
  /\ UNCHANGED <<requesterVars, clientVars, readerVars, taskVars, entity, last_read_, processing, taken, spent,
                 served>>

\* Requests of the other requester, replies of the service.
service ==
  /\ object = "REQUESTER"
  /\ \/ write_request(Other)
     \/ \E own \in BOOLEAN, w \in {Me, Other} : \E s \in DOMAIN asked[w] : reply(own, w, s)
  /\ UNCHANGED <<topicVars, clientVars, readerVars, taskVars, entity, last_read_, processing, taken, spent,
                 served>>

Down(n, least) == IF n > least THEN n - 1 ELSE n

tick ==
  /\ thread_ \notin {"none", "ended"}
  /\ timer' = Down(timer, 0)
  /\ left' = IF left = Forever THEN Forever ELSE Down(left, -1)
  /\ bucket' = IF bucket.rate = NoRate THEN bucket ELSE Older(bucket)
  /\ spent' = IF bucket.age < 0 THEN spent ELSE IF spent > bucket.rate THEN spent - bucket.rate ELSE 0
  /\ UNCHANGED <<topicVars, requesterVars, clientVars, readerVars, message_count, data, timeout, granted, entity,
                 last_read_, processing, taken, served>>

processing_thread ==
  \/ \E control \in Controls[object] : process_read_data(control)
  \/ join \/ start_reading \/ delete_datareader \/ delete_requester
  \/ process_write_request \/ record_request \/ process_acknack

Next == read_task \/ processing_thread \/ write_topic \/ service \/ tick

\* The operating system runs the threads and time passes; a handler under way goes on.  Nobody
\* has to write, to reply, to acknowledge or to come back.
Fairness ==
  /\ WF_vars(read_task)
  /\ WF_vars(join \/ start_reading \/ record_request)
  /\ WF_vars(tick)

Spec == Init /\ [][Next]_vars /\ Fairness

-----------------------------------------------------------------------------
(* Properties *)

\* A thread is joined before another one is started in its place and before the object is gone:
\* assigning to, or destroying, a std::thread that can be joined ends the program.
ThreadIsJoined ==
  [][/\ ~ running_cond_ /\ running_cond_' => thread_ = "none"
     /\ processing' = "gone" => thread_' = "none"]_vars

\* The processing thread gets back from stop_reading, though the thread it waits for may be pushing
\* into a stream that only the processing thread can make room in.
JoinEnds == processing \in {"joining", "destroying"} ~> processing \in {"idle", "gone"}

\* A data reader is in the middleware for as long as its thread reads from it.  (A requester is not:
\* its thread is stopped after the middleware has deleted it.)
ReadsWhatExists ==
  object = "DATAREADER" /\ thread_ \in {"loop", "waiting", "tokens", "sleeping", "pushing"} => entity

\* A data reader takes the samples of its topic in the order they were written, each once, and
\* misses none it may have but those that left the ring; unless more than the ring holds were
\* written during one wait, or all of MAX since its last.
TakenInOrder ==
  [][thread_' = "tokens" /\ thread_ \in {"loop", "waiting"} /\ object = "DATAREADER" =>
       \/ thread_ = "waiting" /\ Lapped
       \/ written - taken > MAX
       \/ /\ data'.number > taken
          /\ data'.number \in Readable(read_access_)
          /\ \A n \in Readable(read_access_) : n <= taken \/ n >= data'.number]_vars

\* What a thread took from the middleware it pushes into the stream, unless it was told to stop.
PushedUnlessStopped ==
  [][data # NoData /\ data' # data => (thread_ = "pushing" /\ room' < room) \/ ~ running_cond_]_vars

\* The bucket never grants more than its capacity and what time has earned since (at one octet per
\* second it does: see Waiting).
RateIsKept == bucket.rate > 1 => spent <= Second * bucket.rate

\* A reply in hand answers a request of this requester, is sent under that request's id, and is
\* the first one to it.
ReplyNamesItsRequest ==
  object = "REQUESTER" /\ data # NoData =>
    /\ data.number \in DOMAIN asked[Me]
    /\ data.request = asked[Me][data.number]
    /\ data.number \notin served
=============================================================================
