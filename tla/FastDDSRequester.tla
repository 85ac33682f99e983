-------------------------- MODULE FastDDSRequester --------------------------
(***************************************************************************)
(* Classes Requester (requester/Requester.cpp) and FastDDSRequester        *)
(* (middleware/fastdds/FastDDSEntities.cpp): requests written by a client  *)
(* to a DDS service, and the replies it reads.  The service is external:   *)
(* its repliers see the requests of all requesters and answer them in any  *)
(* order, several of them the same one; every requester receives all the   *)
(* replies.  sequence_to_sequence_ is used by the processing thread and by *)
(* the reading thread without a lock; each use of it is taken to be whole. *)
(***************************************************************************)
EXTENDS Integers, Sequences

CONSTANTS
  IdMod,         \* 2^16, the values of a request_id
  RequestIds,    \* the request_ids of the requests of a requester
  RawId,         \* get_raw_id()
  Me, Other,     \* the data writers of this requester and of another one
  MaxRequests,   \* bound: requests, by data writer
  MaxReplies     \* bound: replies

ASSUME RequesterAssumption ==
  /\ Me # Other /\ RawId \in Nat /\ IdMod \in Nat \ {0}
  /\ RequestIds \in Seq(0 .. IdMod - 1)
  /\ MaxRequests \in [{Me, Other} -> 0 .. Len(RequestIds)]

VARIABLES
  asked,                   \* by data writer, the request_id of each request in the order of the samples
  sequence_to_sequence_,
  unread,                  \* the samples of datareader_ptr_ not yet taken
  replied                  \* how many replies there were

requesterVars == <<asked, sequence_to_sequence_, unread, replied>>

RequesterInit ==
  /\ asked = [w \in {Me, Other} |-> <<>>]
  /\ sequence_to_sequence_ = <<>>
  /\ unread = <<>>
  /\ replied = 0

\* Requester::write up to the return of datawriter_ptr_->write: the sample is sent, its sequence
\* number is the next of this data writer.
write_request(w) ==
  /\ Len(asked[w]) < MaxRequests[w]
  /\ asked' = [asked EXCEPT ![w] = Append(@, RequestIds[Len(@) + 1])]
  /\ UNCHANGED <<sequence_to_sequence_, unread, replied>>

\* FastDDSRequester::write after it: the entry that a reply is looked up with.
emplace ==
  /\ sequence_to_sequence_' =
       [s \in DOMAIN sequence_to_sequence_ \cup {Len(asked[Me])} |->
          IF s \in DOMAIN sequence_to_sequence_ THEN sequence_to_sequence_[s]
          ELSE RawId * IdMod + asked[Me][s]]
  /\ UNCHANGED <<asked, unread, replied>>

\* A reply arrives, related to the request it answers.  own: it comes from a replier of this very
\* client, and intraprocess_enabled_ is set.
reply(own, w, s) ==
  /\ s \in DOMAIN asked[w] /\ replied < MaxReplies
  /\ unread' = Append(unread, [own |-> own, writer |-> w, sequence |-> s])
  /\ replied' = replied + 1
  /\ UNCHANGED <<asked, sequence_to_sequence_>>

\* Mutant: a reply is found without forgetting its request.
Bug_Kept == unread' = Tail(unread) /\ UNCHANGED <<asked, sequence_to_sequence_, replied>>

\* FastDDSRequester::read with a sample to take, Requester::read_fn and
\* FastDDSMiddleware::read_reply: the reply counts if it answers a request of this requester that
\* is in the map, whatever becomes of it later.
Found(sample) == sample.writer = Me /\ sample.sequence \in DOMAIN sequence_to_sequence_

Answers(sample) == Found(sample) /\ ~ sample.own

RequestOf(sample) == sequence_to_sequence_[sample.sequence] % IdMod

take_next_sample ==
  /\ unread' = Tail(unread)
  /\ sequence_to_sequence_' =
       [s \in DOMAIN sequence_to_sequence_ \
                (IF Found(Head(unread)) THEN {Head(unread).sequence} ELSE {}) |-> sequence_to_sequence_[s]]
  /\ UNCHANGED <<asked, replied>>
=============================================================================
