---------------------------- MODULE ReaderProofs ----------------------------
(***************************************************************************)
(* Proofs about Reading: a thread is joined before it is replaced, reads   *)
(* what exists and pushes what it takes; a reply names the request that it *)
(* answers; the bucket grants no more than its rate.                       *)
(***************************************************************************)
EXTENDS Reading, SeqNumTheorems, TLAPS

Reads == {"loop", "waiting", "tokens", "sleeping", "pushing"}

\* The thread of a reader and the processing thread.  running_cond_ stays set when the thread
\* ends by itself: it says that there is a thread to join, not that one is running.
Life ==
  /\ thread_ \in Reads \cup {"none", "ended"}
  /\ processing \in {"idle", "joining", "starting", "destroying", "gone", "written"}
  /\ running_cond_ \in BOOLEAN /\ entity \in BOOLEAN /\ room \in Nat
  /\ running_cond_ => thread_ # "none" /\ processing \in {"idle", "written"}
  /\ ~ running_cond_ => thread_ = "none" \/ processing \in {"joining", "destroying"}
  /\ object = "DATAREADER" /\ processing # "gone" => entity
  /\ data # NoData => thread_ \in {"tokens", "sleeping", "pushing"}

\* At the start there is no thread.
LEMMA InitLife == Init => Life
BY ReadingAssumption, Zenon DEF Init, Life, Reads, NoData

\* The ends of an iteration and of a thread.
LEMMA EndLife ==
  ASSUME Life, NEW count, end_iteration(count), thread_ \in Reads, room' \in Nat,
         UNCHANGED <<processing, entity, object>>
  PROVE  Life'
<1>1. thread_' \in {"loop", "ended"} /\ data' = NoData /\ running_cond_' = running_cond_
  BY DEF end_iteration, NoTask
<1> QED
  BY <1>1 DEF Life, Reads, NoData

\* Steps of the reading thread that leave running_cond_ alone.
LEMMA GoLife ==
  ASSUME Life, thread_ \in Reads, thread_' \in Reads \cup {"ended"},
         data' # NoData => thread_' \in {"tokens", "sleeping", "pushing"},
         UNCHANGED <<running_cond_, processing, entity, object, room>>
  PROVE  Life'
BY DEF Life, Reads, NoData

\* The reading thread.
LEMMA TaskLife ==
  ASSUME Life, read_task
  PROVE  Life'
<1>1. CASE stopped
  BY <1>1, GoLife DEF stopped, NoTask, Reads, clientVars
<1>2. CASE begin_read
  BY <1>2, GoLife, Zenon DEF begin_read, has_sample, Life, Reads, clientVars, NoData
<1>3. CASE wait_ced
  <2>1. thread_ \in Reads /\ UNCHANGED <<processing, entity, object, room>>
    BY <1>3 DEF wait_ced, Reads, clientVars
  <2> QED
    BY <2>1, <1>3, GoLife, EndLife, Zenon DEF wait_ced, has_sample, Life, Reads, NoData, taskVars
<1>4. CASE wait_reply
  <2>1. thread_ \in Reads /\ UNCHANGED <<processing, entity, object, room>>
    BY <1>4 DEF wait_reply, Reads, clientVars
  <2> QED
    BY <2>1, <1>4, GoLife, EndLife, Zenon DEF wait_reply, has_sample, Life, Reads, NoData
<1>5. CASE consume
  BY <1>5, GoLife, Zenon DEF consume, Life, Reads, clientVars, NoData
<1>6. CASE awake
  <2>1. thread_ \in Reads /\ UNCHANGED <<processing, entity, object, room>>
    BY <1>6 DEF awake, Reads, clientVars
  <2> QED
    BY <2>1, <1>6, GoLife, EndLife DEF awake, Life, Reads, NoData, taskVars
<1>7. CASE push
  <2>1. thread_ \in Reads /\ room' \in Nat /\ UNCHANGED <<processing, entity, object>>
    BY <1>7 DEF push, Reads, Life
  <2> QED
    BY <2>1, <1>7, EndLife DEF push
<1>8. CASE push_times_out
  <2>1. thread_ \in Reads /\ UNCHANGED <<processing, entity, object, room>>
    BY <1>8 DEF push_times_out, Reads, clientVars
  <2> QED
    BY <2>1, <1>8, GoLife, EndLife DEF push_times_out, Life, Reads, NoData
<1> QED
  BY <1>1, <1>2, <1>3, <1>4, <1>5, <1>6, <1>7, <1>8 DEF read_task

\* The processing thread, writers, the service and time.
LEMMA OthersLife ==
  ASSUME Life, processing_thread \/ write_topic \/ service \/ tick
  PROVE  Life'
<1>1. CASE \E control \in Controls[object] : process_read_data(control)
  <2>1. /\ processing = "idle" /\ running_cond_' = FALSE
        /\ processing' = IF running_cond_ THEN "joining" ELSE "starting"
        /\ UNCHANGED <<object, entity, room, thread_, data>>
    BY <1>1 DEF process_read_data, taskVars
  <2> QED
    BY <2>1, Zenon DEF Life, NoData
<1>2. CASE join
  BY <1>2 DEF join, Life, Reads, clientVars, taskVars, NoData
<1>3. CASE start_reading
  BY <1>3, Zenon DEF start_reading, Life, Reads, clientVars, readerVars, taskVars, NoData
<1>4. CASE delete_datareader
  BY <1>4, Zenon DEF delete_datareader, destroy, Life, Reads, clientVars, taskVars
<1>5. CASE delete_requester
  BY <1>5, Zenon DEF delete_requester, destroy, Life, Reads, clientVars, taskVars
<1>6. CASE process_write_request
  BY <1>6 DEF process_write_request, Life, clientVars, readerVars, taskVars
<1>7. CASE record_request
  BY <1>7 DEF record_request, Life, clientVars, readerVars, taskVars
<1>8. CASE process_acknack
  BY <1>8, ReadingAssumption DEF process_acknack, Life, readerVars, taskVars
<1>9. CASE write_topic
  BY <1>9 DEF write_topic, Life, clientVars, readerVars, taskVars
<1>10. CASE service
  BY <1>10 DEF service, Life, clientVars, readerVars, taskVars
<1>11. CASE tick
  BY <1>11 DEF tick, Life, clientVars, readerVars
<1> QED
  BY <1>1, <1>2, <1>3, <1>4, <1>5, <1>6, <1>7, <1>8, <1>9, <1>10, <1>11 DEF processing_thread

\* Every step keeps it.
LEMMA NextLife == Life /\ [Next]_vars => Life'
<1> SUFFICES ASSUME Life, [Next]_vars PROVE Life'
  OBVIOUS
<1>1. CASE UNCHANGED vars
  BY <1>1 DEF vars, Life, taskVars, readerVars, clientVars
<1> QED
  BY <1>1, TaskLife, OthersLife DEF Next

\* There is a thread to join exactly when running_cond_ is set or somebody is about to join it.
THEOREM LifeCycle == Spec => []Life
<1> QED
  BY InitLife, NextLife, PTL DEF Spec

\* A std::thread is neither replaced nor destroyed before it was joined.
THEOREM JoinedFirst == Spec => ThreadIsJoined
<1>1. Life /\ [Next]_vars =>
        [/\ ~ running_cond_ /\ running_cond_' => thread_ = "none"
         /\ processing' = "gone" => thread_' = "none"]_vars
  <2> SUFFICES ASSUME Life, Next
               PROVE  /\ ~ running_cond_ /\ running_cond_' => thread_ = "none"
                      /\ processing' = "gone" => thread_' = "none"
    OBVIOUS
  <2>1. Life'
    BY NextLife
  <2>2. ASSUME ~ running_cond_, running_cond_'
        PROVE  thread_ = "none"
    <3>1. start_reading
      BY <2>2, Zenon DEF Next, read_task, processing_thread, stopped, begin_read, has_sample, wait_ced, wait_reply,
                  consume, awake, push, push_times_out, end_iteration, process_read_data, join,
                  delete_datareader, delete_requester, destroy, process_write_request, record_request,
                  process_acknack, write_topic, service, tick, readerVars
    <3> QED
      BY <3>1, <2>2, SMTT(30) DEF Life, start_reading
  <2> QED
    BY <2>1, <2>2 DEF Life
<1> QED
  BY <1>1, LifeCycle, PTL DEF Spec, ThreadIsJoined

\* The middleware has the data reader as long as its thread is not joined.
THEOREM ReaderExists == Spec => []ReadsWhatExists
<1>1. Life => ReadsWhatExists
  BY DEF Life, ReadsWhatExists
<1> QED
  BY <1>1, LifeCycle, PTL

\* What was taken from the middleware goes into the stream unless the read was stopped, whatever
\* the bucket and the stream do.
THEOREM TakenIsPushed == Spec => PushedUnlessStopped
<1>1. Life /\ [Next]_vars =>
        [data # NoData /\ data' # data => (thread_ = "pushing" /\ room' < room) \/ ~ running_cond_]_vars
  <2> SUFFICES ASSUME Life, Next, data # NoData, data' # data
               PROVE  (thread_ = "pushing" /\ room' < room) \/ ~ running_cond_
    OBVIOUS
  <2>1. thread_ \in {"tokens", "sleeping", "pushing"} /\ room \in Nat
    BY SMTT(30) DEF Life
  <2>2. CASE read_task
    <3>1. CASE awake
      BY <3>1 DEF awake, taskVars
    <3>2. CASE push
      BY <3>2, <2>1 DEF push
    <3>3. CASE push_times_out
      BY <3>3 DEF push_times_out
    <3> QED
      BY <3>1, <3>2, <3>3, <2>1, <2>2, Zenon
         DEF read_task, stopped, begin_read, wait_ced, wait_reply, consume
  <2>3. CASE processing_thread \/ write_topic \/ service \/ tick
    <3>1. start_reading
      BY <2>3, Zenon DEF processing_thread, process_read_data, join, delete_datareader, delete_requester, destroy,
                  process_write_request, record_request, process_acknack, write_topic, service, tick, taskVars
    <3> QED
      BY <3>1 DEF Life, start_reading
  <2> QED
    BY <2>2, <2>3 DEF Next
<1> QED
  BY <1>1, LifeCycle, PTL DEF Spec, PushedUnlessStopped

-----------------------------------------------------------------------------
(* Replies.                                                                *)

\* The requests of this requester whose entry was made: a reply to the last one may come before.
Recorded == IF processing = "written" THEN Len(asked[Me]) - 1 ELSE Len(asked[Me])

Holding == object = "REQUESTER" /\ thread_ \in {"tokens", "sleeping", "pushing"}

\* An entry is for a request that nobody has seen a reply to; the reply in hand has taken its own.
Asking ==
  /\ asked \in [{Me, Other} -> Seq(0 .. IdMod - 1)]
  /\ Recorded \in Nat
  /\ served \subseteq 1 .. Recorded
  /\ \A s \in DOMAIN sequence_to_sequence_ :
       /\ s \in 1 .. Recorded /\ s \notin served
       /\ sequence_to_sequence_[s] % IdMod = asked[Me][s]
  /\ Holding =>
       /\ data.number \in 1 .. Recorded /\ data.number \notin served
       /\ data.number \notin DOMAIN sequence_to_sequence_
       /\ data.request = asked[Me][data.number]

\* At the start nothing was asked.
LEMMA InitAsking == Init => Asking
<1> SUFFICES ASSUME Init PROVE Asking
  OBVIOUS
<1>1. asked = [w \in {Me, Other} |-> <<>>] /\ asked[Me] = <<>>
  BY DEF Init, RequesterInit
<1>2. asked \in [{Me, Other} -> Seq(0 .. IdMod - 1)] /\ Recorded = 0
  BY <1>1 DEF Recorded, Init
<1>3. DOMAIN sequence_to_sequence_ = {} /\ served = {} /\ ~ Holding
  BY DEF Init, RequesterInit, Holding
<1> QED
  BY <1>2, <1>3 DEF Asking

\* Steps that leave requests and replies alone and take no reply in hand.
LEMMA SameAsking ==
  ASSUME Asking, Recorded' = Recorded, Holding' => Holding /\ data' = data,
         UNCHANGED <<asked, sequence_to_sequence_, served>>
  PROVE  Asking'
BY DEF Asking

\* A request is written.
LEMMA WriteAsking ==
  ASSUME Life, Asking, NEW w \in {Me, Other}, write_request(w), UNCHANGED <<object, thread_, data, served>>,
         processing = "idle" \/ w = Other, w = Me => processing' = "written",
         w = Other => processing' = processing
  PROVE  Asking'
<1>1. /\ Len(asked[w]) < MaxRequests[w] /\ asked' = [asked EXCEPT ![w] = Append(@, RequestIds[Len(@) + 1])]
      /\ UNCHANGED sequence_to_sequence_
  BY DEF write_request
<1>2. asked[w] \in Seq(0 .. IdMod - 1) /\ Len(asked[w]) + 1 \in 1 .. Len(RequestIds)
  BY <1>1, RequesterAssumption, SMTT(30) DEF Asking
<1>3. RequestIds[Len(asked[w]) + 1] \in 0 .. IdMod - 1
  BY <1>2, RequesterAssumption, SMTT(30)
<1> DEFINE new == Append(asked[w], RequestIds[Len(asked[w]) + 1])
<1>4. /\ new \in Seq(0 .. IdMod - 1) /\ Len(new) = Len(asked[w]) + 1
      /\ \A i \in 1 .. Len(asked[w]) : new[i] = asked[w][i]
  BY <1>2, <1>3
<1>5. asked' = [asked EXCEPT ![w] = new]
  BY <1>1
<1> HIDE DEF new
<1>6. asked' \in [{Me, Other} -> Seq(0 .. IdMod - 1)]
  BY <1>4, <1>5 DEF Asking
<1>7. Recorded' = Recorded /\ \A i \in 1 .. Recorded : asked'[Me][i] = asked[Me][i]
  <2>1. CASE w = Me
    <3>1. Recorded = Len(asked[Me]) /\ Len(asked[Me]) \in Nat /\ asked'[Me] = new
      BY <2>1, <1>2, <1>5, RequesterAssumption DEF Recorded, Asking
    <3> QED
      BY <3>1, <2>1, <1>4 DEF Recorded
  <2>2. CASE w = Other
    BY <2>2, <1>5, RequesterAssumption DEF Recorded, Asking
  <2> QED
    BY <2>1, <2>2
<1> QED
  BY <1>1, <1>6, <1>7, Zenon DEF Asking, Holding

\* Its entry is made.
LEMMA RecordAsking ==
  ASSUME Life, Asking, record_request
  PROVE  Asking'
<1> DEFINE n == Len(asked[Me])
<1>1. /\ processing = "written" /\ processing' = "idle"
      /\ UNCHANGED <<asked, object, thread_, data, served>>
      /\ sequence_to_sequence_' =
           [s \in DOMAIN sequence_to_sequence_ \cup {n} |->
              IF s \in DOMAIN sequence_to_sequence_ THEN sequence_to_sequence_[s]
              ELSE RawId * IdMod + asked[Me][s]]
  BY Zenon DEF record_request, emplace, clientVars, readerVars, taskVars
<1>2. asked[Me] \in Seq(0 .. IdMod - 1) /\ Recorded = n - 1 /\ Recorded' = n /\ Recorded \in Nat
  BY <1>1 DEF Recorded, Asking
<1>3. n \in Nat /\ n \in 1 .. n /\ n \notin 1 .. Recorded /\ 1 .. Recorded \subseteq 1 .. n
  BY <1>2
<1>4. asked[Me][n] \in 0 .. IdMod - 1
  <2> DEFINE q == asked[Me]
             Ids == 0 .. IdMod - 1
  <2>1. q \in Seq(Ids) /\ n = Len(q) /\ n \in 1 .. Len(q)
    BY <1>2, <1>3
  <2> HIDE DEF q, n, Ids
  <2>2. q[n] \in Ids
    BY <2>1
  <2> QED
    BY <2>2 DEF q, Ids
<1>5. (RawId * IdMod + asked[Me][n]) % IdMod = asked[Me][n]
  <2>1. IdMod * RawId + asked[Me][n] = RawId * IdMod + asked[Me][n]
    BY <1>4, RequesterAssumption
  <2>2. (IdMod * RawId + asked[Me][n]) % IdMod = asked[Me][n]
    <3> DEFINE r == asked[Me][n]
    <3>1. r \in 0 .. IdMod - 1 /\ IdMod \in Nat /\ IdMod > 0 /\ RawId \in Nat
      BY <1>4, RequesterAssumption
    <3> HIDE DEF r
    <3>2. (IdMod * RawId + r) % IdMod = r
      BY <3>1, ModUnique
    <3> QED
      BY <3>2 DEF r
  <2> QED
    BY <2>1, <2>2
<1> HIDE DEF n
<1>6. ASSUME NEW s \in DOMAIN sequence_to_sequence_'
      PROVE  s \in 1 .. n /\ s \notin served /\ sequence_to_sequence_'[s] % IdMod = asked[Me][s]
  <2>1. CASE s \in DOMAIN sequence_to_sequence_
    BY <2>1, <1>1, <1>3 DEF Asking
  <2>2. CASE s \notin DOMAIN sequence_to_sequence_
    <3>1. s = n /\ sequence_to_sequence_'[s] = RawId * IdMod + asked[Me][n]
      BY <2>2, <1>1, Zenon
    <3>2. n \notin served
      BY <1>3, Zenon DEF Asking
    <3> QED
      BY <3>1, <3>2, <1>3, <1>5, SMTT(30)
  <2> QED
    BY <2>1, <2>2
<1>7. Holding' => data'.number \notin DOMAIN sequence_to_sequence_' /\ data'.number \in 1 .. n
  BY <1>1, <1>3, Zenon DEF Asking, Holding
<1> QED
  BY <1>1, <1>2, <1>3, <1>6, <1>7, Zenon DEF Asking, Holding

\* A reply is taken, and its entry with it.
LEMMA TakeAsking ==
  ASSUME Life, Asking, wait_reply
  PROVE  Asking'
<1>1. /\ thread_ = "waiting" /\ object = "REQUESTER" /\ UNCHANGED <<asked, object, processing, served>>
  BY DEF wait_reply, take_next_sample, requesterVars, clientVars
<1>2. Recorded' = Recorded
  BY <1>1 DEF Recorded
<1>3. CASE unread = <<>>
  <2>1. thread_' \in {"loop", "ended"} /\ UNCHANGED sequence_to_sequence_
    BY <1>3 DEF wait_reply, end_iteration, requesterVars
  <2> QED
    BY <2>1, <1>1, <1>2, SameAsking DEF Holding
<1>4. CASE unread # <<>>
  <2> DEFINE sample == Head(unread)
             gone == IF Found(sample) THEN {sample.sequence} ELSE {}
  <2>1. sequence_to_sequence_' = [s \in DOMAIN sequence_to_sequence_ \ gone |-> sequence_to_sequence_[s]]
    BY <1>4 DEF wait_reply, take_next_sample
  <2>2. \A s \in DOMAIN sequence_to_sequence_' :
          /\ s \in 1 .. Recorded /\ s \notin served /\ s \notin gone
          /\ sequence_to_sequence_'[s] % IdMod = asked[Me][s]
    BY <2>1 DEF Asking
  <2>3. CASE Answers(sample)
    <3>1. Found(sample) /\ sample.writer = Me /\ sample.sequence \in DOMAIN sequence_to_sequence_
      BY <2>3, SMTT(30) DEF Answers, Found
    <3>2. data' = [number |-> sample.sequence, request |-> sequence_to_sequence_[sample.sequence] % IdMod]
      BY <2>3, <3>1, <1>4 DEF wait_reply, has_sample, Number, RequestOf
    <3>3. /\ data'.number \in 1 .. Recorded /\ data'.number \notin served
          /\ data'.request = asked[Me][data'.number] /\ data'.number \in gone
      BY <3>1, <3>2 DEF Asking
    <3> QED
      BY <3>3, <2>2, <1>1, <1>2, Zenon DEF Asking
  <2>4. CASE ~ Answers(sample)
    <3>1. thread_' \in {"loop", "ended"}
      BY <2>4, <1>4 DEF wait_reply, end_iteration
    <3> QED
      BY <3>1, <2>2, <1>1, <1>2 DEF Asking, Holding
  <2> QED
    BY <2>3, <2>4, SMTT(30)
<1> QED
  BY <1>3, <1>4

\* The reading thread's other steps: a reply that was pushed is served.
LEMMA TaskAsking ==
  ASSUME Life, Asking, read_task
  PROVE  Asking'
<1>1. CASE stopped
  <2>1. ~ Holding' /\ Recorded' = Recorded
    BY <1>1, SMTT(30) DEF stopped, Holding, Recorded, requesterVars, clientVars
  <2> QED
    BY <2>1, <1>1, SameAsking DEF stopped, requesterVars
<1>2. CASE begin_read
  <2>1. ~ Holding' /\ Recorded' = Recorded
    BY <1>2, ZenonT(30) DEF begin_read, Holding, Recorded, requesterVars, clientVars
  <2> QED
    BY <2>1, <1>2, SameAsking DEF begin_read, requesterVars
<1>3. CASE wait_ced
  <2>1. ~ Holding' /\ Recorded' = Recorded
    BY <1>3 DEF wait_ced, Holding, Recorded, requesterVars, clientVars
  <2> QED
    BY <2>1, <1>3, SameAsking DEF wait_ced, requesterVars
<1>4. CASE consume
  <2>1. (Holding' => Holding /\ data' = data) /\ Recorded' = Recorded
    BY <1>4 DEF consume, Holding, Recorded, requesterVars, clientVars
  <2> QED
    BY <2>1, <1>4, SameAsking DEF consume, requesterVars
<1>5. CASE awake
  <2>1. (Holding' => Holding /\ data' = data) /\ Recorded' = Recorded
    BY <1>5 DEF awake, end_iteration, Holding, Recorded, requesterVars, clientVars, taskVars
  <2> QED
    BY <2>1, <1>5, SameAsking DEF awake, requesterVars
<1>6. CASE push_times_out
  <2>1. (Holding' => Holding /\ data' = data) /\ Recorded' = Recorded
    BY <1>6 DEF push_times_out, end_iteration, Holding, Recorded, requesterVars, clientVars
  <2> QED
    BY <2>1, <1>6, SameAsking DEF push_times_out, requesterVars
<1>7. CASE push
  <2>1. ~ Holding' /\ Recorded' = Recorded /\ UNCHANGED <<asked, sequence_to_sequence_>>
    BY <1>7 DEF push, end_iteration, Holding, Recorded, requesterVars
  <2>2. CASE object = "REQUESTER"
    <3>1. Holding /\ served' = served \cup {data.number}
      BY <2>2, <1>7 DEF push, Holding
    <3> QED
      BY <3>1, <2>1, Zenon DEF Asking
  <2>3. CASE object # "REQUESTER"
    BY <2>3, <2>1, <1>7, SameAsking DEF push
  <2> QED
    BY <2>2, <2>3
<1> QED
  BY <1>1, <1>2, <1>3, <1>4, <1>5, <1>6, <1>7, TakeAsking DEF read_task

\* All steps.
LEMMA NextAsking == Life /\ Asking /\ [Next]_vars => Asking'
<1> SUFFICES ASSUME Life, Asking, [Next]_vars PROVE Asking'
  OBVIOUS
<1>1. CASE UNCHANGED vars
  <2>1. (Holding' => Holding /\ data' = data) /\ Recorded' = Recorded
    BY <1>1 DEF vars, Holding, Recorded, requesterVars, clientVars, readerVars, taskVars
  <2> QED
    BY <2>1, <1>1, SameAsking DEF vars, requesterVars
<1>2. CASE process_write_request
  <2>1. /\ write_request(Me) /\ UNCHANGED <<object, thread_, data, served>>
        /\ processing = "idle" /\ processing' = "written" /\ Me # Other
    BY <1>2, RequesterAssumption DEF process_write_request, clientVars, readerVars, taskVars
  <2> QED
    BY <2>1, WriteAsking, Zenon
<1>3. CASE service
  <2>1. CASE write_request(Other)
    <3>1. UNCHANGED <<object, thread_, data, served>> /\ processing' = processing /\ Me # Other
      BY <1>3, RequesterAssumption, SMTT(30) DEF service, clientVars, readerVars, taskVars
    <3> QED
      BY <2>1, <3>1, WriteAsking, Zenon
  <2>2. CASE \E own \in BOOLEAN, w \in {Me, Other} : \E s \in DOMAIN asked[w] : reply(own, w, s)
    <3>1. (Holding' => Holding /\ data' = data) /\ Recorded' = Recorded
      BY <2>2, <1>3, Zenon DEF service, reply, Holding, Recorded, clientVars, readerVars, taskVars
    <3> QED
      BY <3>1, <2>2, <1>3, SameAsking, SMTT(30) DEF service, reply
  <2> QED
    BY <2>1, <2>2, <1>3 DEF service
<1>4. CASE start_reading
  <2>1. (Holding' => Holding /\ data' = data) /\ Recorded' = Recorded
    BY <1>4, SMTT(30) DEF start_reading, Holding, Recorded, requesterVars, clientVars, readerVars, taskVars
  <2> QED
    BY <2>1, <1>4, SameAsking, SMTT(30) DEF start_reading, requesterVars
<1>5. CASE join \/ delete_datareader \/ delete_requester \/ process_acknack \/ write_topic \/ tick
  <2>1. (Holding' => Holding /\ data' = data) /\ Recorded' = Recorded /\ UNCHANGED <<requesterVars, served>>
    <3>1. CASE join
      BY <3>1 DEF join, Holding, Recorded, requesterVars, clientVars, readerVars, taskVars
    <3>2. CASE delete_datareader
      BY <3>2 DEF delete_datareader, destroy, Holding, Recorded, requesterVars, clientVars, readerVars, taskVars
    <3>3. CASE delete_requester
      BY <3>3, Zenon DEF delete_requester, destroy, Holding, Recorded, requesterVars, clientVars, readerVars, taskVars
    <3>4. CASE process_acknack
      BY <3>4 DEF process_acknack, Holding, Recorded, requesterVars, clientVars, readerVars, taskVars
    <3>5. CASE write_topic
      BY <3>5, Zenon DEF write_topic, Holding, Recorded, requesterVars, clientVars, readerVars, taskVars
    <3>6. CASE tick
      BY <3>6, Zenon DEF tick, Holding, Recorded, requesterVars, clientVars, readerVars, taskVars
    <3> QED
      BY <3>1, <3>2, <3>3, <3>4, <3>5, <3>6, <1>5, Zenon
  <2> QED
    BY <2>1, SameAsking DEF requesterVars
<1>6. CASE \E control \in Controls[object] : process_read_data(control)
  <2>1. (Holding' => Holding /\ data' = data) /\ Recorded' = Recorded
    BY <1>6, Zenon DEF process_read_data, Holding, Recorded, requesterVars, taskVars
  <2> QED
    BY <2>1, <1>6, SameAsking, ZenonT(30) DEF process_read_data, requesterVars
<1> QED
  BY <1>1, <1>2, <1>3, <1>4, <1>5, <1>6, TaskAsking, RecordAsking, Zenon DEF Next, processing_thread

\* A client never gets a reply under the id of another request, nor two to one request, in
\* whatever order and however often the repliers answer.
THEOREM FirstReply == Spec => []ReplyNamesItsRequest
<1>1. Life /\ Asking => ReplyNamesItsRequest
  <2> SUFFICES ASSUME Life, Asking, object = "REQUESTER", data # NoData
               PROVE  /\ data.number \in DOMAIN asked[Me]
                      /\ data.request = asked[Me][data.number]
                      /\ data.number \notin served
    BY Zenon DEF ReplyNamesItsRequest
  <2>1. Holding
    BY DEF Life, Holding
  <2>2. asked[Me] \in Seq(0 .. IdMod - 1)
    BY DEF Asking
  <2>3. Recorded \in Nat /\ Recorded <= Len(asked[Me]) /\ DOMAIN asked[Me] = 1 .. Len(asked[Me])
    BY <2>2 DEF Asking, Recorded
  <2> QED
    BY <2>1, <2>2, <2>3, SMTT(30) DEF Asking
<1> QED
  BY <1>1, InitAsking, NextAsking, LifeCycle, PTL DEF Spec

-----------------------------------------------------------------------------
(* A read is not sent faster than it asked for: the tokens a bucket has     *)
(* granted and time has not yet earned back never exceed its capacity.      *)

\* What the bucket holds is at most what it was left with and what it has earned, at most its
\* capacity, and does not shrink with time.
LEMMA TokensBound ==
  ASSUME NEW b \in [rate : Nat, tokens : Nat, age : Int], NEW age \in Nat
  PROVE  /\ Tokens(b, age) \in Nat /\ Tokens(b, age) <= b.rate
         /\ Second * Tokens(b, age) <= Second * b.rate
         /\ Second * Tokens(b, age) <= Second * b.tokens + b.rate * age
         /\ age > 0 => Tokens(b, age - 1) <= Tokens(b, age)
<1> DEFINE r == b.rate
           t == b.tokens
           x == r * age
           q == x \div Second
<1>1. r \in Nat /\ t \in Nat /\ x \in Nat /\ Second \in Nat /\ Second > 0
  BY SecondAssumption
<1>2. x = Second * q + (x % Second) /\ x % Second \in 0 .. Second - 1 /\ q \in Nat
  <2> HIDE DEF x
  <2> QED
    BY <1>1, DivMod
<1>3. Tokens(b, age) = IF r < t + q THEN r ELSE t + q
  BY DEF Tokens, Least
<1>4. age > 0 => Tokens(b, age - 1) <= Tokens(b, age)
  <2> SUFFICES ASSUME age > 0 PROVE Tokens(b, age - 1) <= Tokens(b, age)
    OBVIOUS
  <2> DEFINE y == r * (age - 1)
             p == y \div Second
  <2>1. y \in Nat /\ y <= x /\ age - 1 \in Nat
    <3>1. age - 1 \in Nat /\ r * age = r * (age - 1) + r
      BY <1>1
    <3>2. y \in Nat
      BY <3>1, <1>1
    <3> HIDE DEF r
    <3> QED
      BY <3>1, <3>2, <1>1
  <2>2. y = Second * p + (y % Second) /\ y % Second \in 0 .. Second - 1 /\ p \in Nat
    <3> HIDE DEF y
    <3> QED
      BY <2>1, <1>1, DivMod
  <2>3. Tokens(b, age - 1) = IF r < t + p THEN r ELSE t + p
    BY <2>1 DEF Tokens, Least
  <2> DEFINE e == x % Second
             f == y % Second
  <2>4. x = Second * q + e /\ e \in 0 .. Second - 1 /\ y = Second * p + f /\ f \in 0 .. Second - 1
    BY <1>2, <2>2, Zenon
  <2> HIDE DEF x, y, p, q, r, t, e, f
  <2>5. p <= q
    <3> SUFFICES ASSUME p >= q + 1 PROVE FALSE
      BY <1>2, <2>2
    <3>1. Second * p >= Second * (q + 1)
      <4>1. PICK d \in Nat : p = q + 1 + d
        <5>1. p - q - 1 \in Nat /\ p = q + 1 + (p - q - 1)
          BY <1>2, <2>2
        <5> QED
          BY <5>1
      <4>2. Second * p = Second * (q + 1) + Second * d /\ Second * d \in Nat /\ Second * (q + 1) \in Nat
        BY <4>1, <1>1, <1>2
      <4> QED
        BY <4>2
    <3>2. Second * (q + 1) = Second * q + Second /\ Second * q \in Nat /\ Second * p \in Nat
      BY <1>1, <1>2, <2>2
    <3> QED
      BY <3>1, <3>2, <2>1, <2>4, <1>1
  <2> QED
    BY <2>3, <2>5, <1>1, <1>2, <1>3, <2>2
<1> HIDE DEF q, x
<1>5. Tokens(b, age) \in Nat /\ Tokens(b, age) <= r /\ Tokens(b, age) <= t + q
  BY <1>1, <1>2, <1>3
<1>6. \A m \in Nat, n \in Nat : m <= n => Second * m <= Second * n
  <2> SUFFICES ASSUME NEW m \in Nat, NEW n \in Nat, m <= n PROVE Second * m <= Second * n
    OBVIOUS
  <2> DEFINE d == n - m
  <2>1. d \in Nat /\ n = m + d
    OBVIOUS
  <2> HIDE DEF d
  <2>2. Second * n = Second * m + Second * d /\ Second * d \in Nat /\ Second * m \in Nat
    BY <2>1, <1>1
  <2> QED
    BY <2>2
<1>7. Second * Tokens(b, age) <= Second * r /\ Second * Tokens(b, age) <= Second * (t + q)
  BY <1>5, <1>6, <1>1, <1>2, t + q \in Nat
<1>8. Second * (t + q) = Second * t + Second * q /\ Second * q \in Nat /\ Second * t \in Nat /\ Second * q <= x
  BY <1>1, <1>2
<1>9. Second * Tokens(b, age) <= Second * t + x
  <2> DEFINE z == Second * Tokens(b, age)
  <2>1. z \in Nat
    BY <1>5, <1>1
  <2> HIDE DEF z
  <2>2. z <= Second * (t + q)
    BY <1>7 DEF z
  <2>3. z <= Second * t + x
    BY <2>1, <2>2, <1>8, <1>1
  <2> QED
    BY <2>3 DEF z
<1> QED
  BY <1>4, <1>5, <1>7, <1>9 DEF x

-----------------------------------------------------------------------------

BudgetType ==
  /\ object \in {"DATAREADER", "REQUESTER"} /\ read_control \in Controls[object]
  /\ data.number \in Nat
  /\ bucket \in [rate : Nat, tokens : Int, age : Int]
  /\ spent \in Nat /\ timer \in Int
  /\ timeout \in {-1, 0, 1} /\ left \in Nat \cup {-1, Forever}

\* What is spent and what the bucket holds are within its capacity, at the time timestamp_ says.
\* That may be ahead of now only while the thread sleeps to be there.
Earned ==
  /\ bucket.tokens \in Nat /\ bucket.age <= Second
  /\ bucket.age < 0 =>
       /\ thread_ = "sleeping" /\ granted /\ timer + bucket.age = 0
       /\ spent + Second * bucket.tokens <= Second * bucket.rate
  /\ bucket.age >= 0 =>
       spent = 0 \/ spent + bucket.rate * bucket.age + Second * bucket.tokens <= Second * bucket.rate

\* A timeout that is over before it begins asks for the tokens of a moment ago: there is one.
Elapsed ==
  /\ thread_ = "loop" /\ left = -1 => bucket.age >= 1
  /\ (thread_ \in {"waiting", "tokens"} \/ (thread_ = "sleeping" /\ ~ granted)) /\ timeout = -1 =>
       bucket.age >= 1

Budget == BudgetType /\ (bucket.rate > 1 => Earned /\ Elapsed)

\* What a read finds is a sample: its number is one.
FindsSamples ==
  /\ read_now(last_read_, read_access_).number \in Nat
  /\ Predicate(last_read_, read_access_).number \in Nat

\* At the start there is no rate.
LEMMA InitBudget == Init => Budget
<1> SUFFICES ASSUME Init PROVE Budget
  OBVIOUS
<1>1. object \in {"DATAREADER", "REQUESTER"} /\ read_control \in Controls[object]
  BY ReadingAssumption, Zenon DEF Init
<1>2. bucket = [rate |-> 0, tokens |-> 0, age |-> 0] /\ data.number = 0 /\ spent = 0
  BY Zenon DEF Init, NewBucket, NoRate, NoData
<1> QED
  BY <1>1, <1>2 DEF Init, Budget, BudgetType, Forever

\* The ends of an iteration and of a thread.
LEMMA EndBudget ==
  ASSUME Budget, NEW count, end_iteration(count), UNCHANGED <<object, read_control>>,
         bucket.rate > 1 => bucket.age >= 0
  PROVE  Budget'
<1>1. CASE StopCond(count)
  <2>1. NoTask
    BY <1>1 DEF end_iteration
  <2>2. bucket' = [rate |-> 0, tokens |-> 0, age |-> 0] /\ data'.number = 0 /\ spent' = 0
    BY <2>1, Zenon DEF NoTask, NewBucket, NoRate, NoData
  <2> QED
    BY <2>1, <2>2 DEF NoTask, Budget, BudgetType, Forever
<1>2. CASE ~ StopCond(count)
  <2>1. /\ thread_' = "loop" /\ data'.number = 0 /\ timer' = 0 /\ UNCHANGED <<bucket, timeout, left, spent>>
        /\ left # -1
    BY <1>2 DEF end_iteration, StopCond, NoData
  <2>2. BudgetType'
    BY <2>1 DEF Budget, BudgetType
  <2>3. ASSUME bucket.rate > 1 PROVE Earned' /\ Elapsed'
    <3>1. Earned /\ bucket.age >= 0 /\ bucket.age \in Int
      BY <2>3 DEF Budget, BudgetType
    <3>2. Earned'
      BY <3>1, <2>1 DEF Earned
    <3> QED
      BY <3>2, <2>1 DEF Elapsed
  <2> QED
    BY <2>1, <2>2, <2>3 DEF Budget
<1> QED
  BY <1>1, <1>2

\* Steps on which the bucket is left alone and no time passes.
LEMMA GoBudget ==
  ASSUME Budget, UNCHANGED <<object, read_control, bucket, spent, left>>,
         data'.number \in Nat, timer' \in Int, timeout' \in {-1, 0, 1},
         bucket.rate > 1 => bucket.age >= 0,
         bucket.rate > 1 => Elapsed'
  PROVE  Budget'
<1>1. BudgetType'
  BY Zenon DEF Budget, BudgetType
<1>2. ASSUME bucket.rate > 1 PROVE Earned'
  <2>1. Earned /\ bucket.age >= 0 /\ bucket.age \in Int
    BY <1>2 DEF Budget, BudgetType
  <2> QED
    BY <2>1 DEF Earned
<1> QED
  BY <1>1, <1>2 DEF Budget

\* Only while it sleeps may a thread be behind timestamp_, and then for as long as it still sleeps.
LEMMA AgeNow ==
  ASSUME Budget, bucket.rate > 1, thread_ # "sleeping" \/ ~ granted \/ timer <= 0
  PROVE  bucket.age >= 0
<1>1. Earned /\ bucket.age \in Int /\ timer \in Int
  BY DEF Budget, BudgetType
<1> QED
  BY <1>1 DEF Earned

\* A timeout, and when it is negative.
LEMMA TimeoutType ==
  ASSUME Budget
  PROVE  Timeout \in {-1, 0, 1} /\ Timeout \in Int /\ (Timeout = -1 => left = -1)
BY DEF Budget, BudgetType, Timeout, RwTimeout, Forever

\* Time passes: it earns what the bucket counts, up to a full one.
LEMMA TickBudget ==
  ASSUME Budget, tick
  PROVE  Budget'
<1>1. /\ UNCHANGED <<object, read_control, data, timeout, thread_, granted>>
      /\ timer' = Down(timer, 0) /\ left' = IF left = Forever THEN Forever ELSE Down(left, -1)
      /\ bucket' = IF bucket.rate = NoRate THEN bucket ELSE Older(bucket)
      /\ spent' = IF bucket.age < 0 THEN spent ELSE IF spent > bucket.rate THEN spent - bucket.rate ELSE 0
  BY Zenon DEF tick, clientVars, readerVars
<1> DEFINE r == bucket.rate
           t == bucket.tokens
           a == bucket.age
           S == Second
<1>2. r \in Nat /\ t \in Int /\ a \in Int /\ S \in Nat /\ S > 0 /\ spent \in Nat /\ timer \in Int
      /\ left \in Nat \cup {-1, Forever}
  BY SecondAssumption DEF Budget, BudgetType
<1>3. bucket \in [rate : Nat, tokens : Int, age : Int]
  BY DEF Budget, BudgetType
<1>4. Older(bucket) = [bucket EXCEPT !.age = IF S < a + 1 THEN S ELSE a + 1]
  BY DEF Older, Least
<1>5. BudgetType'
  <2>1. bucket' \in [rate : Nat, tokens : Int, age : Int]
    BY <1>1, <1>2, <1>3, <1>4
  <2>2. spent' \in Nat /\ timer' \in Int /\ left' \in Nat \cup {-1, Forever}
    BY <1>1, <1>2 DEF Down, Forever
  <2> QED
    BY <2>1, <2>2, <1>1, Zenon DEF Budget, BudgetType
<1>6. bucket'.rate = r
  BY <1>1, <1>3, <1>4
<1>7. ASSUME r > 1 PROVE Earned' /\ Elapsed'
  <2>1. Earned /\ Elapsed
    BY <1>7, Zenon DEF Budget
  <2>2. bucket' = [bucket EXCEPT !.age = IF S < a + 1 THEN S ELSE a + 1]
    BY <1>1, <1>4, <1>7 DEF NoRate
  <2>3. bucket'.tokens = t /\ bucket'.age = IF S < a + 1 THEN S ELSE a + 1
    BY <2>2, <1>3
  <2>4. /\ t \in Nat /\ a <= S
        /\ (a < 0 => thread_ = "sleeping" /\ granted /\ timer + a = 0 /\ spent + S * t <= S * r)
        /\ (a >= 0 => spent = 0 \/ spent + r * a + S * t <= S * r)
    BY <2>1, Zenon DEF Earned
  <2>5. S * t \in Nat /\ S * r \in Nat
    BY <2>4, <1>2
  <2>6. CASE a < 0
    <3>1. bucket'.age = a + 1 /\ a + 1 <= 0 /\ spent' = spent /\ timer' = timer - 1
      BY <2>3, <2>4, <2>6, <1>1, <1>2 DEF Down
    <3>2. a + 1 = 0 => r * (a + 1) = 0
      BY <1>2
    <3>3. Earned'
      <4>1. spent + S * t <= S * r
        BY <2>4, <2>6, Zenon
      <4>2. CASE a + 1 < 0
        <5>1. bucket'.tokens \in Nat /\ bucket'.age <= S /\ bucket'.age < 0 /\ ~ (bucket'.age >= 0)
          <6> HIDE DEF r, a, t, S
          <6> QED
            BY <4>2, <3>1, <2>3, <2>4, <1>2
        <5>2. timer' + bucket'.age = 0
          <6> HIDE DEF r, a, t, S
          <6> QED
            BY <3>1, <2>4, <2>6, <1>2
        <5>3. thread_' = "sleeping" /\ granted'
          BY <2>4, <2>6, <1>1, Zenon
        <5>4. spent' + S * bucket'.tokens <= S * bucket'.rate
          BY <4>1, <3>1, <2>3, <1>6, Zenon
        <5> QED
          BY <5>1, <5>2, <5>3, <5>4, Zenon DEF Earned
      <4>3. CASE a + 1 = 0
        <5>1. spent' + bucket'.rate * bucket'.age + S * bucket'.tokens <= S * bucket'.rate
          BY <4>1, <4>3, <3>1, <3>2, <2>3, <2>5, <1>2, <1>6, SMTT(30)
        <5> QED
          <6>1. bucket'.tokens \in Nat /\ bucket'.age <= S /\ ~ (bucket'.age < 0)
            <7> HIDE DEF r, a, t, S
            <7> QED
              BY <4>3, <3>1, <2>3, <2>4, <1>2
          <6> QED
            BY <5>1, <6>1, Zenon DEF Earned
      <4> QED
        BY <4>2, <4>3, <3>1, <1>2
    <3>4. thread_ = "sleeping" /\ granted
      BY <2>4, <2>6
    <3> QED
      BY <3>3, <3>4, <1>1, SMTT(30) DEF Elapsed
  <2>7. CASE a >= 0
    <3>1. bucket'.age \in Nat /\ bucket'.age >= 1 /\ bucket'.age <= S
      BY <2>3, <2>7, <1>2
    <3>2. spent' = 0 \/ spent' + r * bucket'.age + S * t <= S * r
      <4>1. CASE spent = 0 \/ ~ (spent > r)
        BY <4>1, <2>7, <1>1, <1>2
      <4>2. CASE spent # 0 /\ spent > r
        <5>1. spent' = spent - r /\ spent + r * a + S * t <= S * r
          BY <4>2, <2>4, <2>7, <1>1, <1>2
        <5>2. a < S
          <6> SUFFICES ASSUME a = S PROVE FALSE
            BY <2>4, <1>2
          <6>1. r * a = S * r
            BY <1>2
          <6> HIDE DEF r, a, t, S
          <6> QED
            BY <6>1, <5>1, <4>2, <2>5, <1>2
        <5>3. bucket'.age = a + 1 /\ r * (a + 1) = r * a + r /\ r * a \in Int
          BY <5>2, <2>3, <1>2
        <5> HIDE DEF r, a, t, S
        <5> QED
          BY <5>1, <5>3, <2>5, <1>2
      <4> QED
        BY <4>1, <4>2, Zenon
    <3>3. Earned'
      BY <3>1, <3>2, <2>3, <2>4, <1>6 DEF Earned
    <3> QED
      BY <3>1, <3>3 DEF Elapsed
  <2> QED
    BY <2>6, <2>7, <1>2
<1> QED
  BY <1>5, <1>6, <1>7, Zenon DEF Budget

\* Whatever the bucket, what it holds and how long it waits are numbers.
LEMMA TokensType ==
  ASSUME NEW b \in [rate : Nat, tokens : Int, age : Int], NEW age \in Int, NEW required \in Nat,
         NEW wait \in Int
  PROVE  Tokens(b, age) \in Int /\ Waiting(b, required, wait) \in Int
<1>1. Second \in Nat /\ Second > 0 /\ b.rate \in Nat /\ b.tokens \in Int
  BY SecondAssumption
<1>2. age >= 0 => (b.rate * age) \div Second \in Nat
  <2> SUFFICES ASSUME age >= 0 PROVE (b.rate * age) \div Second \in Nat
    BY Zenon
  <2> DEFINE x == b.rate * age
  <2>1. x \in Nat
    BY <1>1
  <2> HIDE DEF x
  <2>2. x \div Second \in Nat
    BY <2>1, <1>1, DivMod
  <2> QED
    BY <2>2 DEF x
<1>3. Tokens(b, age) \in Int
  BY <1>1, <1>2 DEF Tokens, Least
<1>4. Second * (b.tokens - required) \in Int
  BY <1>1
<1> QED
  BY <1>3, <1>4 DEF Waiting, Least

\* A bucket left with other tokens at another time.
LEMMA LeftWith ==
  ASSUME NEW b \in [rate : Nat, tokens : Int, age : Int], NEW u \in Int, NEW v \in Int
  PROVE  LET left_ == [b EXCEPT !.tokens = u, !.age = v]
         IN  /\ left_ \in [rate : Nat, tokens : Int, age : Int]
             /\ left_.rate = b.rate /\ left_.tokens = u /\ left_.age = v
BY Zenon

\* Tokens are granted: those there are, those that will be there after a wait, or none.
LEMMA ConsumeBudget ==
  ASSUME Life, Budget, consume
  PROVE  Budget'
<1> DEFINE size == SizeOf(data.number)
           c == consume_tokens(bucket, size, timeout)
           now == Tokens(bucket, bucket.age)
           wait == Waiting(bucket, size, timeout)
           then == Tokens(bucket, bucket.age + wait)
           r == bucket.rate
           t == bucket.tokens
           a == bucket.age
           S == Second
<1>1. /\ thread_ = "tokens" /\ thread_' = "sleeping" /\ UNCHANGED <<object, read_control, data, timeout, left>>
      /\ bucket' = c.bucket /\ granted' = c.granted /\ timer' = c.sleep
      /\ spent' = IF c.granted THEN Spend(size, c.sleep) ELSE spent
  BY Zenon DEF consume, clientVars
<1>2. BudgetType
  BY DEF Budget
<1>3. size \in Nat
  <2>1. Len(Sizes) \in Nat /\ Len(Sizes) > 0 /\ data.number \in Nat
    BY <1>2, ReadingAssumption DEF BudgetType
  <2>2. data.number % Len(Sizes) \in 0 .. Len(Sizes) - 1
    BY <2>1, DivMod
  <2>3. 1 + (data.number % Len(Sizes)) \in 1 .. Len(Sizes)
    BY <2>1, <2>2
  <2> QED
    BY <2>3, ReadingAssumption DEF SizeOf
<1> HIDE DEF size
<1>4. /\ bucket \in [rate : Nat, tokens : Int, age : Int] /\ r \in Nat /\ t \in Int /\ a \in Int
      /\ S \in Nat /\ S > 0 /\ spent \in Nat /\ timeout \in {-1, 0, 1} /\ timeout \in Int
  BY <1>2, SecondAssumption DEF BudgetType
<1>5. now \in Int /\ wait \in Int /\ a + wait \in Int
  BY <1>3, <1>4, TokensType, SMTT(30)
<1>6. then \in Int
  <2> HIDE DEF wait
  <2> QED
    BY <1>3, <1>4, <1>5, TokensType
<1>7. /\ r = 0 => c = [granted |-> TRUE, bucket |-> bucket, sleep |-> 0]
      /\ r # 0 /\ size > r => c = [granted |-> FALSE, bucket |-> bucket, sleep |-> 0]
      /\ r # 0 /\ size <= r /\ now < size /\ then >= size =>
           c.granted /\ c.sleep = wait /\ c.bucket = [bucket EXCEPT !.tokens = then - size, !.age = - wait]
      /\ r # 0 /\ size <= r /\ now < size /\ ~ (then >= size) =>
           ~ c.granted /\ c.sleep = wait /\ c.bucket = bucket
      /\ r # 0 /\ size <= r /\ now >= size =>
           c = [granted |-> TRUE, sleep |-> 0,
                bucket  |-> [bucket EXCEPT !.tokens = now - size, !.age = 0]]
  <2> HIDE DEF now, wait, then
  <2>1. size \in now + 1 .. r <=> now < size /\ size <= r
    BY <1>3, <1>4, <1>5
  <2>2. r # 0 /\ size <= r /\ now < size =>
          c = [granted |-> then >= size, sleep |-> wait,
               bucket  |-> IF then >= size THEN [bucket EXCEPT !.tokens = then - size, !.age = - wait]
                           ELSE bucket]
    BY <2>1, <1>3, <1>4, <1>5 DEF consume_tokens, NoRate, now, wait, then
  <2>3. /\ r = 0 => c = [granted |-> TRUE, bucket |-> bucket, sleep |-> 0]
        /\ r # 0 /\ size > r => c = [granted |-> FALSE, bucket |-> bucket, sleep |-> 0]
        /\ r # 0 /\ size <= r /\ now >= size =>
             c = [granted |-> TRUE, sleep |-> 0,
                  bucket  |-> [bucket EXCEPT !.tokens = now - size, !.age = 0]]
    BY <2>1, <1>3, <1>4, <1>5 DEF consume_tokens, NoRate, now, wait, then
  <2> HIDE DEF c
  <2>4. ASSUME r # 0, size <= r, now < size, then >= size
        PROVE  c.granted /\ c.sleep = wait /\ c.bucket = [bucket EXCEPT !.tokens = then - size, !.age = - wait]
    <3>1. c = [granted |-> then >= size, sleep |-> wait,
               bucket  |-> [bucket EXCEPT !.tokens = then - size, !.age = - wait]]
      BY <2>2, <2>4, Zenon
    <3> DEFINE new == [bucket EXCEPT !.tokens = then - size, !.age = - wait]
    <3> HIDE DEF new
    <3>2. c = [granted |-> then >= size, sleep |-> wait, bucket |-> new]
      BY <3>1, Zenon DEF new
    <3>3. c.sleep = wait /\ c.bucket = new /\ c.granted = (then >= size)
      BY <3>2
    <3>4. c.granted
      BY <3>3, <2>4, Zenon
    <3> QED
      BY <3>3, <3>4 DEF new
  <2>5. ASSUME r # 0, size <= r, now < size, ~ (then >= size)
        PROVE  ~ c.granted /\ c.sleep = wait /\ c.bucket = bucket
    <3>1. c = [granted |-> then >= size, sleep |-> wait, bucket |-> bucket]
      BY <2>2, <2>5
    <3>2. c.sleep = wait /\ c.bucket = bucket /\ c.granted = (then >= size)
      BY <3>1
    <3>3. ~ c.granted
      BY <3>2, <2>5, Zenon
    <3> QED
      BY <3>2, <3>3
  <2> QED
    BY <2>3, <2>4, <2>5
<1> HIDE DEF c, now, wait, then
<1>8. \A sleep \in Int : Spend(size, sleep) \in Nat
  <2> SUFFICES ASSUME NEW sleep \in Int PROVE Spend(size, sleep) \in Nat
    OBVIOUS
  <2>1. r * sleep \in Int /\ S * size \in Nat
    BY <1>3, <1>4
  <2> QED
    BY <2>1, <1>4 DEF Spend
<1>9. CASE r = 0
  <2>1. bucket' = bucket /\ timer' = 0 /\ spent' \in Nat
    BY <1>1, <1>7, <1>8, <1>9
  <2>2. ~ (bucket'.rate > 1)
    BY <2>1, <1>9
  <2>3. BudgetType'
    BY <2>1, <1>1, <1>2 DEF BudgetType
  <2> QED
    BY <2>2, <2>3, Zenon DEF Budget
<1>10. ASSUME r # 0, UNCHANGED <<bucket, spent>>, ~ granted', timer' \in Int
       PROVE  Budget'
  <2>1. BudgetType'
    BY <1>1, <1>2, <1>10 DEF BudgetType
  <2>2. ASSUME r > 1 PROVE Earned' /\ Elapsed'
    <3>1. Earned /\ Elapsed /\ a >= 0
      BY <2>2, <1>1, AgeNow DEF Budget
    <3>2. Earned'
      BY <3>1, <1>4, <1>10, SMTT(30) DEF Earned
    <3>3. Elapsed'
      BY <3>1, <1>1, <1>10, Zenon DEF Elapsed
    <3> QED
      BY <3>2, <3>3
  <2> QED
    BY <2>1, <2>2, <1>10, Zenon DEF Budget
<1>11. CASE r # 0 /\ size > r
  BY <1>1, <1>7, <1>10, <1>11
<1>12. CASE r # 0 /\ size <= r /\ now >= size
  <2>1. /\ bucket' = [bucket EXCEPT !.tokens = now - size, !.age = 0] /\ timer' = 0 /\ granted'
        /\ spent' = Spend(size, 0)
    BY <1>1, <1>7, <1>12, SMTT(30)
  <2>2. bucket' \in [rate : Nat, tokens : Int, age : Int] /\ bucket'.rate = r /\ bucket'.age = 0
        /\ bucket'.tokens = now - size /\ spent' \in Nat
    <3>1. now - size \in Int /\ 0 \in Int
      BY <1>3, <1>5
    <3> QED
      BY <3>1, <2>1, <1>4, <1>8, LeftWith, ZenonT(30)
  <2>3. BudgetType'
    BY <2>1, <2>2, <1>1, <1>2 DEF BudgetType
  <2>4. ASSUME r > 1 PROVE Earned' /\ Elapsed'
    <3>1. Earned /\ a >= 0 /\ t \in Nat
      BY <2>4, <1>1, AgeNow, Zenon DEF Budget, Earned
    <3>2. bucket \in [rate : Nat, tokens : Nat, age : Int] /\ a \in Nat
      BY <3>1, <1>4
    <3>3. now \in Nat /\ S * now <= S * r /\ S * now <= S * t + r * a
      BY <3>2, TokensBound DEF now
    <3>4. spent = 0 \/ spent + r * a + S * t <= S * r
      BY <3>1, Zenon DEF Earned
    <3>5. spent' = S * size + spent
      <4>1. r * 0 = 0
        BY <1>4
      <4> QED
        BY <4>1, <2>1, <2>4, <1>3, <1>4 DEF Spend, NoRate
    <3>6. S * (now - size) = S * now - S * size /\ r * 0 = 0
      BY <3>3, <1>3, <1>4
    <3>7. S * now \in Int /\ S * t \in Int /\ r * a \in Int /\ S * r \in Int /\ S * size \in Int
      BY <3>2, <3>3, <1>3, <1>4, SMTT(30)
    <3>8. spent + S * now <= S * r
      <4> HIDE DEF r, a, t, S
      <4> QED
        BY <3>3, <3>4, <3>7, <1>4
    <3>9. spent' + r * 0 + S * (now - size) <= S * r
      <4> HIDE DEF r, a, t, S
      <4> QED
        BY <3>5, <3>6, <3>7, <3>8, <1>4
    <3>10. now - size \in Nat
      BY <3>3, <1>3, <1>12
    <3> QED
      BY <3>9, <3>10, <2>1, <2>2, <1>1, <1>4, SMTT(30) DEF Earned, Elapsed
  <2> QED
    BY <2>2, <2>3, <2>4, Zenon DEF Budget
<1>13. CASE r # 0 /\ size <= r /\ now < size /\ ~ (then >= size)
  BY <1>1, <1>5, <1>7, <1>10, <1>13, Zenon
<1>14. CASE r # 0 /\ size <= r /\ now < size /\ then >= size
  <2>1. /\ bucket' = [bucket EXCEPT !.tokens = then - size, !.age = - wait] /\ timer' = wait /\ granted'
        /\ spent' = Spend(size, wait)
    BY <1>1, <1>7, <1>14, SMTT(30)
  <2>2. bucket' \in [rate : Nat, tokens : Int, age : Int] /\ bucket'.rate = r /\ bucket'.age = - wait
        /\ bucket'.tokens = then - size /\ spent' \in Nat
    <3>1. then - size \in Int /\ - wait \in Int
      BY <1>3, <1>5, <1>6
    <3> QED
      BY <3>1, <2>1, <1>4, <1>5, <1>8, LeftWith, ZenonT(30)
  <2>3. BudgetType'
    BY <2>1, <2>2, <1>1, <1>2, <1>5, Zenon DEF BudgetType
  <2>4. ASSUME r > 1 PROVE Earned' /\ Elapsed'
    <3>1. Earned /\ Elapsed /\ a >= 0 /\ t \in Nat
      BY <2>4, <1>1, AgeNow, Zenon DEF Budget, Earned
    <3>2. bucket \in [rate : Nat, tokens : Nat, age : Int] /\ a \in Nat /\ wait = timeout
      BY <3>1, <2>4, <1>4 DEF wait, Waiting
    <3>3. wait = 1
      <4>1. CASE wait = 0
        <5>1. a + wait = a
          BY <4>1, <1>4
        <5>2. then = now
          BY <5>1, Zenon DEF then, now
        <5> QED
          BY <5>2, <1>3, <1>5, <1>14
      <4>2. CASE wait = -1
        <5>1. a >= 1 /\ a + wait = a - 1
          BY <4>2, <3>1, <3>2, <1>1, <1>4, Zenon DEF Elapsed
        <5>2. then = Tokens(bucket, a - 1)
          BY <5>1, Zenon DEF then
        <5>3. Tokens(bucket, a - 1) <= Tokens(bucket, a)
          BY <5>1, <3>2, TokensBound
        <5> QED
          BY <5>2, <5>3, <1>3, <1>5, <1>6, <1>14, SMTT(30) DEF now
      <4> QED
        BY <4>1, <4>2, <3>2, <1>4
    <3>4. a + 1 \in Nat /\ then = Tokens(bucket, a + 1)
      BY <3>2, <3>3 DEF then
    <3>5. then \in Nat /\ S * then <= S * r /\ S * then <= S * t + r * (a + 1)
      BY <3>2, <3>4, TokensBound, Zenon
    <3>6. spent = 0 \/ spent + r * a + S * t <= S * r
      BY <3>1 DEF Earned
    <3>7. spent' = S * size + (IF spent > r THEN spent - r ELSE 0)
      <4>1. r * 1 = r
        BY <1>4
      <4> QED
        BY <4>1, <3>3, <2>1, <2>4, <1>3, <1>4 DEF Spend, NoRate
    <3>8. S * (then - size) = S * then - S * size /\ r * (a + 1) = r * a + r
      BY <3>2, <3>5, <1>3, <1>4
    <3>9. S * then \in Int /\ S * t \in Int /\ r * a \in Int /\ S * r \in Int /\ S * size \in Int
      BY <3>2, <3>5, <1>3, <1>4, SMTT(30)
    <3>10. (IF spent > r THEN spent - r ELSE 0) + S * then <= S * r
      <4> HIDE DEF r, a, t, S
      <4> QED
        BY <3>5, <3>6, <3>8, <3>9, <1>4, SMTT(30)
    <3>11. spent' + S * (then - size) <= S * r
      <4> HIDE DEF r, a, t, S
      <4> QED
        BY <3>7, <3>8, <3>9, <3>10, <1>4, SMTT(30)
    <3>12. then - size \in Nat
      BY <3>5, <1>3, <1>14
    <3> QED
      <4>1. /\ bucket'.age < 0 /\ ~ (bucket'.age >= 0) /\ timer' + bucket'.age = 0
            /\ bucket'.tokens \in Nat /\ bucket'.age <= Second
        <5>1. bucket'.age = -1
          BY <3>3, <2>2
        <5>2. timer' = 1
          BY <3>3, <2>1
        <5>3. bucket'.tokens \in Nat
          BY <3>12, <2>2
        <5> QED
          BY <5>1, <5>2, <5>3, SecondAssumption
      <4>2. spent' + Second * bucket'.tokens <= Second * bucket'.rate
        BY <3>11, <2>2, Zenon
      <4>3. Earned'
        BY <4>1, <4>2, <2>1, <1>1, SMTT(30) DEF Earned
      <4> QED
        BY <4>3, <2>1, <1>1, Zenon DEF Elapsed
  <2> QED
    BY <2>2, <2>3, <2>4, Zenon DEF Budget
<1> QED
  BY <1>3, <1>4, <1>5, <1>6, <1>9, <1>11, <1>12, <1>13, <1>14

\* The reading thread.
LEMMA TaskBudget ==
  ASSUME Life, Asking, FindsSamples, Budget, read_task
  PROVE  Budget'
<1>1. BudgetType /\ data.number \in Nat /\ timer \in Int /\ timeout \in {-1, 0, 1}
      /\ Timeout \in {-1, 0, 1} /\ Timeout \in Int /\ (Timeout = -1 => left = -1)
  BY TimeoutType, Zenon DEF Budget, BudgetType
<1>2. ASSUME NEW count, end_iteration(count), UNCHANGED <<object, read_control>>,
             thread_ # "sleeping" \/ ~ granted
      PROVE  Budget'
  BY <1>2, AgeNow, EndBudget, SMTT(30)
<1>3. CASE stopped
  <2>1. NoTask /\ UNCHANGED <<object, read_control>>
    BY <1>3 DEF stopped, clientVars
  <2>2. bucket' = [rate |-> 0, tokens |-> 0, age |-> 0] /\ data'.number = 0 /\ spent' = 0
    BY <2>1 DEF NoTask, NewBucket, NoRate, NoData
  <2>3. BudgetType'
    BY <2>1, <2>2, <1>1 DEF NoTask, BudgetType, Forever
  <2>4. ~ (bucket'.rate > 1)
    BY <2>2
  <2> QED
    BY <2>3, <2>4, Zenon DEF Budget
<1>4. CASE begin_read
  <2>1. /\ thread_ = "loop" /\ timeout' = Timeout /\ timer' = Timeout
        /\ UNCHANGED <<object, read_control, bucket, spent, left>> /\ thread_' \in {"tokens", "waiting"}
    BY <1>4, Zenon DEF begin_read, has_sample, clientVars
  <2>2. data'.number \in Nat
    <3> DEFINE got == read_now(last_read_, read_access_)
    <3>1. object = "DATAREADER" => data' = data \/ data' = [number |-> got.number, request |-> 1]
      BY <1>4, ZenonT(30) DEF begin_read, has_sample
    <3>2. object # "DATAREADER" => data' = data
      BY <1>4 DEF begin_read, has_sample
    <3>3. got.number \in Nat
      BY Zenon DEF FindsSamples
    <3> HIDE DEF got
    <3> QED
      BY <3>1, <3>2, <3>3, <1>1
  <2>3. ASSUME bucket.rate > 1 PROVE bucket.age >= 0 /\ Elapsed'
    <3>1. bucket.age >= 0 /\ (left = -1 => bucket.age >= 1)
      BY <2>1, <2>3, AgeNow, SMTT(30) DEF Budget, Elapsed
    <3> QED
      BY <3>1, <2>1, <1>1, Zenon DEF Elapsed
  <2> QED
    BY <2>1, <2>2, <2>3, <1>1, GoBudget, SMTT(30)
<1>5. CASE wait_ced
  <2> DEFINE got == Predicate(last_read_, read_access_)
  <2>1. thread_ = "waiting" /\ UNCHANGED <<object, read_control>> /\ got.number \in Nat
    BY <1>5 DEF wait_ced, clientVars, FindsSamples
  <2>2. CASE has_sample(got.number, 1) /\ UNCHANGED <<timeout, timer>>
    <3> HIDE DEF got
    <3>1. data'.number \in Nat /\ UNCHANGED <<bucket, spent, left>> /\ thread_' = "tokens"
      BY <2>1, <2>2 DEF has_sample
    <3>2. ASSUME bucket.rate > 1 PROVE bucket.age >= 0 /\ Elapsed'
      BY <3>1, <3>2, <2>1, <2>2, AgeNow DEF Budget, Elapsed
    <3> QED
      BY <3>1, <3>2, <2>1, <2>2, <1>1, GoBudget, Zenon
  <2>3. CASE UNCHANGED <<taskVars, thread_, running_cond_, spent>>
    <3>1. ASSUME bucket.rate > 1 PROVE bucket.age >= 0 /\ Elapsed'
      BY <3>1, <2>1, <2>3, AgeNow, Zenon DEF Budget, Elapsed, taskVars
    <3> QED
      BY <3>1, <2>1, <2>3, <1>1, GoBudget, Zenon DEF taskVars
  <2>4. CASE end_iteration(message_count)
    BY <2>1, <2>4, <1>2
  <2> QED
    BY <2>2, <2>3, <2>4, <1>5, SMTT(30) DEF wait_ced
<1>6. CASE wait_reply
  <2>1. thread_ = "waiting" /\ UNCHANGED <<object, read_control>> /\ object = "REQUESTER"
    BY <1>6 DEF wait_reply, clientVars
  <2>2. CASE end_iteration(message_count)
    BY <2>1, <2>2, <1>2, Zenon
  <2>3. CASE has_sample(Number(Head(unread)), RequestOf(Head(unread))) /\ UNCHANGED <<timeout, timer>>
    <3>1. UNCHANGED <<bucket, spent, left>> /\ thread_' = "tokens"
      BY <2>3, Zenon DEF has_sample
    <3>2. data'.number \in Nat
      <4>1. Asking' /\ Holding'
        BY <3>1, <2>1, <1>6, TakeAsking DEF Holding
      <4> QED
        BY <4>1 DEF Asking
    <3>3. ASSUME bucket.rate > 1 PROVE bucket.age >= 0 /\ Elapsed'
      BY <3>1, <3>3, <2>1, <2>3, AgeNow, SMTT(30) DEF Budget, Elapsed
    <3> QED
      BY <3>1, <3>2, <3>3, <2>1, <2>3, <1>1, GoBudget, SMTT(30)
  <2> QED
    BY <2>2, <2>3, <1>6 DEF wait_reply
<1>7. CASE awake
  <2>1. thread_ = "sleeping" /\ timer <= 0 /\ UNCHANGED <<object, read_control>>
    BY <1>7 DEF awake, clientVars
  <2>2. bucket.rate > 1 => bucket.age >= 0
    BY <2>1, AgeNow
  <2>3. CASE granted /\ thread_' = "pushing"
    <3>1. /\ UNCHANGED <<bucket, spent, left, data>> /\ timeout' = Timeout /\ timer' = Timeout
      BY <2>3, <1>7, Zenon DEF awake, end_iteration, taskVars
    <3> QED
      BY <3>1, <2>1, <2>2, <2>3, <1>1, GoBudget, SMTT(30) DEF Elapsed
  <2>4. CASE ~ granted /\ thread_' = "tokens" /\ UNCHANGED <<taskVars, spent>>
    <3>1. ASSUME bucket.rate > 1 PROVE Elapsed'
      BY <3>1, <2>1, <2>4, Zenon DEF Budget, Elapsed, taskVars
    <3> QED
      BY <3>1, <2>1, <2>2, <2>4, <1>1, GoBudget, SMTT(30) DEF taskVars
  <2>5. CASE ~ granted /\ end_iteration(message_count)
    BY <2>1, <2>5, <1>2, Zenon
  <2> QED
    BY <2>3, <2>4, <2>5, <1>7, Zenon DEF awake
<1>8. CASE push
  BY <1>8, <1>2, Zenon DEF push
<1>9. CASE push_times_out
  <2>1. thread_ = "pushing" /\ UNCHANGED <<object, read_control>>
    BY <1>9, Zenon DEF push_times_out, clientVars
  <2>2. CASE end_iteration(message_count)
    BY <2>1, <2>2, <1>2, Zenon
  <2>3. CASE timeout' = Timeout /\ timer' = Timeout /\ UNCHANGED <<thread_, bucket, data, left, spent>>
    <3>1. bucket.rate > 1 => bucket.age >= 0
      BY <2>1, AgeNow, Zenon
    <3> QED
      BY <3>1, <2>1, <2>3, <1>1, GoBudget, Zenon DEF Elapsed
  <2> QED
    BY <2>2, <2>3, <1>9, Zenon DEF push_times_out
<1> QED
  BY <1>3, <1>4, <1>5, <1>6, <1>7, <1>8, <1>9, ConsumeBudget, SMTT(30) DEF read_task

\* The processing thread and the others.
LEMMA NextBudget == Life /\ Asking /\ FindsSamples /\ Budget /\ [Next]_vars => Budget'
<1> SUFFICES ASSUME Life, Asking, FindsSamples, Budget, [Next]_vars PROVE Budget'
  BY SMTT(30)
<1>1. ASSUME UNCHANGED <<object, taskVars, thread_, spent>>, read_control' \in Controls[object] PROVE Budget'
  BY <1>1 DEF Budget, BudgetType, Earned, Elapsed, taskVars
<1>2. read_control \in Controls[object] /\ object \in {"DATAREADER", "REQUESTER"}
  BY SMTT(30) DEF Budget, BudgetType
<1>3. CASE \E control \in Controls[object] : process_read_data(control)
  BY <1>1, <1>3, ZenonT(30) DEF process_read_data
<1>4. CASE join
  <2>1. UNCHANGED <<object, read_control, taskVars, spent>> /\ thread_ = "ended" /\ thread_' = "none"
    BY <1>4 DEF join, clientVars
  <2>2. bucket.rate > 1 => bucket.age >= 0
    BY <2>1, AgeNow
  <2>3. data.number \in Nat /\ timer \in Int /\ timeout \in {-1, 0, 1}
    BY Zenon DEF Budget, BudgetType
  <2> QED
    BY <2>1, <2>2, <2>3, GoBudget, SMTT(30) DEF Elapsed, taskVars
<1>5. CASE start_reading
  <2>1. CASE running_cond_
    BY <2>1, <1>1, <1>2, <1>5, Zenon DEF start_reading, readerVars, clientVars
  <2>2. CASE ~ running_cond_
    <3> DEFINE rate == read_control.max_bytes_per_second
               elapsed == read_control.max_elapsed_time
    <3>1. rate \in Nat /\ elapsed \in Nat
      BY <1>2, ReadingAssumption, SMTT(30)
    <3>2. /\ bucket' = NewBucket(rate) /\ thread_' = "loop" /\ data' = NoData /\ timeout' = 0 /\ timer' = 0
          /\ left' = IF elapsed = 0 THEN Forever ELSE Second * elapsed
          /\ spent' = 0 /\ UNCHANGED <<object, read_control>>
      BY <2>2, <1>5, Zenon DEF start_reading, clientVars
    <3> HIDE DEF rate, elapsed
    <3>3. bucket' = [rate |-> rate, tokens |-> rate, age |-> 0] /\ data'.number = 0
      BY <3>2, Zenon DEF NewBucket, NoData
    <3>4. left' \in Nat \cup {-1, Forever} /\ left' # -1
      BY <3>1, <3>2, SecondAssumption, SMTT(30) DEF Forever
    <3>5. BudgetType'
      <4>1. bucket' \in [rate : Nat, tokens : Int, age : Int]
        BY <3>1, <3>3
      <4>2. spent' \in Nat /\ timer' \in Int /\ timeout' \in {-1, 0, 1} /\ data'.number \in Nat
        BY <3>2, <3>3
      <4> QED
        BY <4>1, <4>2, <3>2, <3>4, <1>2, Zenon DEF BudgetType
    <3>6. Earned' /\ Elapsed'
      <4>1. bucket'.tokens \in Nat /\ bucket'.age = 0 /\ 0 <= Second /\ ~ (0 < 0)
        BY <3>1, <3>3, SecondAssumption
      <4>2. Earned'
        BY <4>1, <3>2, Zenon DEF Earned
      <4>3. thread_' = "loop" /\ left' # -1
        BY <3>2, <3>4, Zenon
      <4>4. Elapsed'
        BY <4>3 DEF Elapsed
      <4> QED
        BY <4>2, <4>4, Zenon
    <3> QED
      BY <3>5, <3>6, Zenon DEF Budget
  <2> QED
    BY <2>1, <2>2, SMTT(30)
<1>6. CASE delete_datareader \/ delete_requester \/ process_write_request \/ record_request \/ process_acknack
             \/ write_topic \/ service
  <2>1. CASE delete_datareader
    BY <2>1, <1>1, <1>2, Zenon DEF delete_datareader, destroy, clientVars
  <2>2. CASE delete_requester
    BY <2>2, <1>1, <1>2, Zenon DEF delete_requester, destroy, clientVars
  <2>3. CASE process_write_request \/ record_request \/ process_acknack
    BY <2>3, <1>1, <1>2, Zenon DEF process_write_request, record_request, process_acknack, clientVars, readerVars
  <2>4. CASE write_topic \/ service
    BY <2>4, <1>1, <1>2, Zenon DEF write_topic, service, clientVars, readerVars
  <2> QED
    BY <2>1, <2>2, <2>3, <2>4, <1>6, Zenon
<1>7. CASE UNCHANGED vars
  BY <1>1, <1>2, <1>7, Zenon DEF vars, clientVars, readerVars
<1> QED
  BY <1>3, <1>4, <1>5, <1>6, <1>7, TaskBudget, TickBudget, Zenon DEF Next, processing_thread

\* What is under way is then within the capacity.
LEMMA BudgetIsKept == Budget => RateIsKept
<1> SUFFICES ASSUME Budget, bucket.rate > 1 PROVE spent <= Second * bucket.rate
  BY Zenon DEF RateIsKept
<1> DEFINE r == bucket.rate
           t == bucket.tokens
           a == bucket.age
<1>1. r \in Nat /\ a \in Int /\ spent \in Nat /\ Second \in Nat
  BY SecondAssumption, Zenon DEF Budget, BudgetType
<1>2. /\ t \in Nat
      /\ (a < 0 => spent + Second * t <= Second * r)
      /\ (a >= 0 => spent = 0 \/ spent + r * a + Second * t <= Second * r)
  BY Zenon DEF Budget, Earned
<1>3. Second * t \in Nat /\ Second * r \in Nat /\ (a >= 0 => r * a \in Nat)
  BY <1>1, <1>2
<1> HIDE DEF r, t, a
<1>4. spent <= Second * r
  BY <1>1, <1>2, <1>3
<1> QED
  BY <1>4, Zenon DEF r
=============================================================================
