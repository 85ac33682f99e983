------------------------ MODULE ReliableOutputStream ------------------------
(***************************************************************************)
(* Class ReliableOutputStream (client/session/stream/OutputStream.hpp):    *)
(* the sending half of a reliable stream.  Every method runs under mtx_,   *)
(* so each is one atomic step of the thread that calls it.                 *)
(*                                                                         *)
(* A message is a record                                                   *)
(*   seq    the sequence number in its header,                             *)
(*   pos    its position in the whole history of the stream (a history     *)
(*          value the program does not have, used to state properties),    *)
(*   piece  the part of a submessage it carries, frag and last its FRAGMENT *)
(*          kind and FLAG_LAST_FRAGMENT.                                   *)
(***************************************************************************)
EXTENDS StreamConfig

VARIABLES out_messages, last_unacked, last_sent, first_unacked

outVars == <<out_messages, last_unacked, last_sent, first_unacked>>

OutInit ==
  /\ out_messages = << >>
  /\ last_unacked = MAX - 1
  /\ last_sent = MAX - 1
  /\ first_unacked = 0

\* Mutant: one message more than the depth.
Bug_WideWindow == Lt(last_unacked, Add(first_unacked, Depth))

\* The predicate push_submessage waits for (or times out on).
HasRoom == Lt(last_unacked, AddSeq(first_unacked, Depth - 1))

\* Messages of a submessage given as the sequence of its pieces, numbered from
\* last_unacked_ + 1 on; base is the number of messages pushed before.
Fragments(pieces, base) ==
  [j \in 1..Len(pieces) |->
     [seq   |-> (last_unacked + j) % MAX,
      pos   |-> base + j,
      piece |-> pieces[j],
      frag  |-> Len(pieces) > 1,
      last  |-> Len(pieces) > 1 /\ j = Len(pieces)]]

\* push_submessage: one message when it fits the MTU, else all of its fragments.
\* The room is tested once, before the first of them.
push_submessage(msgs) ==
  LET new == {msgs[j].seq : j \in DOMAIN msgs}
  IN  /\ HasRoom
      /\ last_unacked' = (last_unacked + Len(msgs)) % MAX
      /\ out_messages' = [s \in DOMAIN out_messages \cup new |->
                            IF s \in DOMAIN out_messages
                            THEN out_messages[s]
                            ELSE msgs[Sub(s, last_unacked)]]
      /\ UNCHANGED <<last_sent, first_unacked>>

\* get_next_message: the next message never handed out before.
get_next_message ==
  /\ Lt(last_sent, last_unacked)
  /\ last_sent' = Add(last_sent, 1)
  /\ UNCHANGED <<out_messages, last_unacked, first_unacked>>

NextMessage == out_messages[Add(last_sent, 1)]

\* get_message for every sequence number of a set: those still kept.
get_messages(seqs) == {out_messages[s] : s \in seqs \cap DOMAIN out_messages}

\* Sequence numbers from a up to, not including, b: what the loop of
\* update_from_acknack erases.
From(a, b) == {(a + i) % MAX : i \in 0..(Sub(b, a) - 1)}

\* Mutant: an acknowledgement is believed whatever was sent.
Bug_AckUnsent(first) ==
  /\ IF Gt(first, first_unacked)
     THEN /\ first_unacked' = first
          /\ out_messages' = [s \in DOMAIN out_messages \ From(first_unacked, first)
                                |-> out_messages[s]]
     ELSE UNCHANGED <<out_messages, first_unacked>>
  /\ UNCHANGED <<last_unacked, last_sent>>

\* Mutant: the loop runs one message too far.
Bug_EraseOneMore(first) ==
  /\ IF Le(first, Add(last_sent, 1)) /\ Gt(first, first_unacked)
     THEN /\ first_unacked' = first
          /\ out_messages' =
               [s \in DOMAIN out_messages \ From(first_unacked, Add(first, 1))
                  |-> out_messages[s]]
     ELSE UNCHANGED <<out_messages, first_unacked>>
  /\ UNCHANGED <<last_unacked, last_sent>>

\* Mutant: the acknowledgement of the last message sent is refused.
Bug_AckStrict(first) ==
  /\ IF Lt(first, Add(last_sent, 1)) /\ Gt(first, first_unacked)
     THEN /\ first_unacked' = first
          /\ out_messages' = [s \in DOMAIN out_messages \ From(first_unacked, first)
                                |-> out_messages[s]]
     ELSE UNCHANGED <<out_messages, first_unacked>>
  /\ UNCHANGED <<last_unacked, last_sent>>

\* update_from_acknack
update_from_acknack(first) ==
  /\ IF Le(first, Add(last_sent, 1)) /\ Gt(first, first_unacked)
     THEN /\ first_unacked' = first
          /\ out_messages' = [s \in DOMAIN out_messages \ From(first_unacked, first)
                                |-> out_messages[s]]
     ELSE UNCHANGED <<out_messages, first_unacked>>
  /\ UNCHANGED <<last_unacked, last_sent>>

\* fill_heartbeat returns false, and nothing is sent, when no message is kept.
HasHeartbeat == DOMAIN out_messages # {}
=============================================================================
