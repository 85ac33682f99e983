--------------------------- MODULE ReliableStream ---------------------------
(***************************************************************************)
(* One reliable stream end to end: a ReliableOutputStream, the handlers of *)
(* Processor that drive it, a network, and the ReliableInputStream and     *)
(* handlers of the other side.  The agent has both halves, one per         *)
(* direction; the half of the client is the mirror image of the agent's.   *)
(*                                                                         *)
(* Threads: readers and the processing thread push and send, the heartbeat *)
(* thread sends HEARTBEATs, the processing thread handles ACKNACKs on one  *)
(* side and messages and HEARTBEATs on the other.                          *)
(*                                                                         *)
(* The network loses, duplicates and reorders packets.  The numbers have   *)
(* 16 bits, so it must not keep a packet for ever: none is delivered once  *)
(* its stream has moved on by more than Lifetime messages, which is at     *)
(* least a window and at most what half the number space leaves.           *)
(***************************************************************************)
EXTENDS ReliableOutputStream, ReliableInputStream, FiniteSets

CONSTANTS Lifetime,         \* messages a packet may be late by
          MaxSubmessages,   \* bound on the submessages pushed
          Capacity          \* bound on the packets in flight

ASSUME LifetimeAssumption ==
  /\ Lifetime \in Nat
  /\ Depth + MaxFragments =< Lifetime
  /\ Lifetime + Depth + MaxFragments =< Half
  /\ MaxSubmessages \in Nat
  /\ Capacity \in Nat

VARIABLES
  draining,    \* the receiving processing thread is in its pop_input_message loop
  net,         \* packets in flight
  submitted,   \* history: submessages pushed, each the sequence of its pieces
  processed,   \* history: submessages handed to process_submessage
  log,         \* history: messages pushed
  delivered,   \* history: messages popped
  sent,        \* history: messages handed out by get_next_message
  acked        \* history: messages erased by update_from_acknack

history == <<submitted, processed, log, delivered, sent, acked>>

vars == <<outVars, inVars, draining, net, history>>

-----------------------------------------------------------------------------
Data(m) == [kind |-> "DATA", pos |-> m.pos, msg |-> m]

\* check_heartbeats: what fill_heartbeat reads, wrapped in a packet.
Heartbeat == [kind |-> "HEARTBEAT", pos |-> acked,
              first |-> first_unacked, last |-> last_unacked]

\* fill_acknack, in the state after the handler's updates.
Acknack(handled, announced, kept, n) ==
  [kind |-> "ACKNACK", pos |-> n,
   first |-> Add(handled, 1), bitmap |-> NackBitmap(handled, announced, kept)]

\* The assumption on the network.
Fresh(p) ==
  IF p.kind = "ACKNACK" THEN acked - p.pos =< Lifetime
  ELSE Len(delivered) - p.pos =< Lifetime

\* The packets of sends enter the network, as far as it has room for them.
Transmit(from, sends) ==
  \E kept \in SUBSET sends :
    /\ Cardinality(from \cup kept) =< Capacity
    /\ kept = sends \/ Cardinality(from \cup kept) = Capacity
    /\ net' = from \cup kept

\* Handling p takes it from the network, or leaves a duplicate there.
Handled(p, sends) == Transmit(net, sends) \/ Transmit(net \ {p}, sends)

Init ==
  /\ OutInit
  /\ InInit
  /\ draining = FALSE
  /\ net = {}
  /\ submitted = << >> /\ processed = << >>
  /\ log = << >> /\ delivered = << >>
  /\ sent = 0 /\ acked = 0

-----------------------------------------------------------------------------
(* The sending side. *)

\* read_data_callback and the handlers that answer with a STATUS: one
\* submessage, in n messages.
Push(n) ==
  LET pieces == [j \in 1..n |-> <<Len(submitted) + 1, j>>]
      msgs   == Fragments(pieces, Len(log))
  IN  /\ Len(submitted) < MaxSubmessages
      /\ push_submessage(msgs)
      /\ submitted' = Append(submitted, pieces)
      /\ log' = log \o msgs
      /\ UNCHANGED <<inVars, draining, net, processed, delivered, sent, acked>>

\* The loop after a push sends what get_next_message hands out; a round of it
\* belongs to whichever thread gets there first.
SendNext ==
  /\ get_next_message
  /\ Transmit(net, {Data(NextMessage)})
  /\ sent' = sent + 1
  /\ UNCHANGED <<inVars, draining, submitted, processed, log, delivered, acked>>

\* check_heartbeats, for one stream of one alive client.
SendHeartbeat ==
  /\ HasHeartbeat
  /\ Transmit(net, {Heartbeat})
  /\ UNCHANGED <<outVars, inVars, draining, history>>

\* Mutant: the first bit taken for the number after first_unacked_seq_num.
Bug_RetransmitShifted(p) == {(p.first + i + 1) % MAX : i \in p.bitmap}

\* The numbers whose bits are set in the two bytes of the bitmap.
Nacked(p) == {FromInt(p.first + i) : i \in p.bitmap}

\* process_acknack_submessage: what is nacked is sent again, then what is
\* acknowledged is dropped.
RecvAcknack(p) ==
  /\ p.kind = "ACKNACK" /\ Fresh(p)
  /\ Handled(p, {Data(m) : m \in get_messages(Nacked(p))})
  /\ update_from_acknack(p.first)
  /\ acked' = acked + Sub(first_unacked', first_unacked)
  /\ UNCHANGED <<inVars, draining, submitted, processed, log, delivered, sent>>

-----------------------------------------------------------------------------
(* The receiving side. *)

\* process_input_packet: push_input_message, then the loop (Pop) and the
\* ACKNACK at its end (EndDrain).
RecvData(p) ==
  /\ p.kind = "DATA" /\ Fresh(p)
  /\ ~ draining
  /\ push_message(p.msg.seq, p.msg)
  /\ Handled(p, {})
  /\ draining' = TRUE
  /\ UNCHANGED <<outVars, history>>

\* pop_message and process_input_message: a FRAGMENT goes to the reassembly
\* buffer, anything else to its handler.
Pop ==
  LET m == in_messages[NextExpected]
  IN  /\ draining
      /\ take_next
      /\ delivered' = Append(delivered, m)
      /\ fragment_msg' = IF m.frag THEN FragmentsAfter(m) ELSE fragment_msg
      /\ processed' = IF ~ m.frag THEN Append(processed, <<m.piece>>)
                      ELSE IF m.last THEN Append(processed, Reassembled(m))
                      ELSE processed
      /\ UNCHANGED <<outVars, draining, net, submitted, log, sent, acked>>

EndDrain ==
  /\ draining
  /\ NextExpected \notin DOMAIN in_messages
  /\ draining' = FALSE
  /\ Transmit(net, {Acknack(last_handled, last_announced, DOMAIN in_messages,
                            Len(delivered))})
  /\ UNCHANGED <<outVars, inVars, history>>

\* process_heartbeat_submessage: the HEARTBEAT came on stream NONE, so no
\* message of this stream is popped.
RecvHeartbeat(p) ==
  /\ p.kind = "HEARTBEAT" /\ Fresh(p)
  /\ ~ draining
  /\ update_from_heartbeat(p.first, p.last)
  /\ Handled(p, {Acknack(last_handled', last_announced', DOMAIN in_messages,
                         Len(delivered))})
  /\ UNCHANGED <<outVars, draining, history>>

\* Losing a packet for the receiver while its thread is in the loop comes to the
\* same as losing it when the loop has ended.
Lose(p) ==
  /\ draining => p.kind = "ACKNACK"
  /\ net' = net \ {p}
  /\ UNCHANGED <<outVars, inVars, draining, history>>

Next ==
  \/ \E n \in 1..MaxFragments : Push(n)
  \/ SendNext
  \/ SendHeartbeat
  \/ \E p \in net : RecvAcknack(p)
  \/ \E p \in net : RecvData(p)
  \/ Pop
  \/ EndDrain
  \/ \E p \in net : RecvHeartbeat(p)
  \/ \E p \in net : Lose(p)

Spec == Init /\ [][Next]_vars

\* Threads that can run do run: the heartbeat thread wakes up every
\* HEARTBEAT_PERIOD and the sending and popping loops wait for nobody.  A packet
\* that is sent over and over gets through: the heartbeat and the
\* acknowledgement of the present state, and the message that is due.
FairSpec ==
  /\ Spec
  /\ WF_vars(SendNext)
  /\ WF_vars(SendHeartbeat)
  /\ WF_vars(Pop)
  /\ WF_vars(EndDrain)
  /\ SF_vars(\E p \in net : p = Heartbeat /\ RecvHeartbeat(p))
  /\ SF_vars(\E p \in net : /\ p = Acknack(last_handled, last_announced,
                                           DOMAIN in_messages, Len(delivered))
                            /\ RecvAcknack(p))
  /\ SF_vars(\E p \in net : p.pos = Len(delivered) + 1 /\ RecvData(p))

-----------------------------------------------------------------------------
(* Properties. *)

Messages ==
  [seq : SeqNums, pos : Nat, piece : Nat \X Nat, frag : BOOLEAN, last : BOOLEAN]

PacketType(p) ==
  \/ /\ p.kind = "DATA"
     /\ p = Data(p.msg) /\ p.msg \in Messages
  \/ /\ p.kind = "HEARTBEAT"
     /\ p \in [kind : {"HEARTBEAT"}, pos : Nat, first : SeqNums, last : SeqNums]
  \/ /\ p.kind = "ACKNACK"
     /\ p \in [kind : {"ACKNACK"}, pos : Nat, first : SeqNums,
               bitmap : SUBSET (0..(NackBits - 1))]

\* Type correctness of the two stream objects, the packets and the history.
TypeOK ==
  /\ DOMAIN out_messages \subseteq SeqNums
  /\ \A s \in DOMAIN out_messages : out_messages[s] \in Messages
  /\ {last_unacked, last_sent, first_unacked} \subseteq SeqNums
  /\ DOMAIN in_messages \subseteq SeqNums
  /\ \A s \in DOMAIN in_messages : in_messages[s] \in Messages
  /\ {last_handled, last_announced} \subseteq SeqNums
  /\ fragment_msg \in Seq(Nat \X Nat)
  /\ draining \in BOOLEAN
  /\ \A p \in net : PacketType(p)
  /\ submitted \in Seq(Seq(Nat \X Nat)) /\ processed \in Seq(Seq(Nat \X Nat))
  /\ log \in Seq(Messages) /\ delivered \in Seq(Messages)
  /\ sent \in Nat /\ acked \in Nat

\* Messages are popped in the order they were pushed, each once and none left
\* out, whatever the network does: pop_message against the wrap-around of the
\* numbers, retransmissions, and heartbeats that move last_handled_.
InOrderDelivery ==
  /\ Len(delivered) =< Len(log)
  /\ \A i \in 1..Len(delivered) : delivered[i] = log[i]

\* Submessages reach their handlers whole and in order: push_fragment never
\* mixes the pieces of two of them.
WholeSubmessages ==
  /\ Len(processed) =< Len(submitted)
  /\ \A k \in 1..Len(processed) : processed[k] = submitted[k]

\* update_from_acknack drops no message the other side still needs.
UndeliveredIsKept ==
  \A n \in (Len(delivered) + 1)..Len(log) :
    \E s \in DOMAIN out_messages : out_messages[s] = log[n]

\* messages_.at(last_sent_) in get_next_message finds its message: an ACKNACK,
\* for a message sent again before its first get_next_message, cannot have
\* erased it (at() would throw).
NextToSendIsKept ==
  Lt(last_sent, last_unacked) => Add(last_sent, 1) \in DOMAIN out_messages

\* The sender keeps at most the depth of the window and the rest of the one
\* submessage that was being pushed when the window filled.
BoundedOutput == Cardinality(DOMAIN out_messages) < Depth + MaxFragments

\* What the unit test StreamCapacity says of push_submessage: no more than
\* RELIABLE_STREAM_DEPTH messages in the stream.  Not so for the fragments of a
\* large submessage, which are pushed together.
NoMoreThanDepth == Cardinality(DOMAIN out_messages) =< Depth

\* The receiver keeps only messages of the window after the last handled one:
\* at most RELIABLE_STREAM_DEPTH of them, and none that last_handled_ has passed
\* (pop_message would find it again after a turn of the numbers).
BoundedInput ==
  \A s \in DOMAIN in_messages :
    in_messages[s].pos \in (Len(delivered) + 1)..(Len(delivered) + Depth)

\* What an ACKNACK asks for (fill_acknack) has been pushed: the announced number
\* never runs ahead of the sender.
NacksAreOutstanding ==
  \A p \in net :
    p.kind = "ACKNACK" => \A i \in p.bitmap : p.pos + i + 1 =< Len(log)

\* last_handled_ moves only by popping: the jump in update_from_heartbeat, for
\* messages the sender no longer has, is never taken.
HandledOnlyByPop ==
  [][last_handled' # last_handled => Len(delivered') = Len(delivered) + 1]_vars

\* When all submessages have been pushed, the sender has in the end dropped every message:
\* heartbeats, ACKNACKs and retransmissions bring all of them through the losses.
EventuallyAcknowledged ==
  (Len(submitted) = MaxSubmessages) ~> (DOMAIN out_messages = {})

\* The stream implements the queue of submessages.
Fifo == INSTANCE SubmessageFifo
  WITH Submessages <- Seq(Nat \X Nat), pushed <- submitted, handed <- processed

\* An unbounded set of submessages is out of TLC's reach; these are the ones
\* the bounds allow.
BoundedFifo == INSTANCE SubmessageFifo
  WITH Submessages <- {[j \in 1..n |-> <<k, j>>] :
                         n \in 1..MaxFragments, k \in 1..MaxSubmessages},
       pushed <- submitted, handed <- processed

ImplementsFifo == BoundedFifo!FifoSpec

ImplementsFairFifo == BoundedFifo!FairFifoSpec
=============================================================================
