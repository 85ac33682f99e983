------------------------ MODULE ReliableInputStream -------------------------
(***************************************************************************)
(* Class ReliableInputStream (client/session/stream/InputStream.hpp): the  *)
(* receiving half of a reliable stream, with the reassembly of fragments.  *)
(* fragment_msg is the sequence of the pieces appended so far;             *)
(* fragment_message_available_ is set by push_fragment and consumed by the *)
(* pop_fragment_message that follows it in the same handler, so it is not  *)
(* a variable here.                                                        *)
(***************************************************************************)
EXTENDS StreamConfig

VARIABLES in_messages, last_handled, last_announced, fragment_msg

inVars == <<in_messages, last_handled, last_announced, fragment_msg>>

InInit ==
  /\ in_messages = << >>
  /\ last_handled = MAX - 1
  /\ last_announced = MAX - 1
  /\ fragment_msg = << >>

\* The window of push_message.
Acceptable(s) == Gt(s, last_handled) /\ Le(s, AddSeq(last_handled, Depth))

\* push_message (and emplace_message, which differs only in building the
\* message): a message outside the window, or already kept, is dropped.
push_message(s, msg) ==
  /\ IF Acceptable(s)
     THEN /\ last_announced' = IF Gt(s, last_announced) THEN s ELSE last_announced
          /\ in_messages' = [t \in DOMAIN in_messages \cup {s} |->
                               IF t \in DOMAIN in_messages THEN in_messages[t] ELSE msg]
     ELSE UNCHANGED <<last_announced, in_messages>>
  /\ UNCHANGED <<last_handled, fragment_msg>>

NextExpected == Add(last_handled, 1)

\* The bookkeeping of pop_message.
take_next ==
  /\ NextExpected \in DOMAIN in_messages
  /\ last_handled' = NextExpected
  /\ in_messages' = [t \in DOMAIN in_messages \ {NextExpected} |-> in_messages[t]]
  /\ UNCHANGED last_announced

\* Mutant: the first message still available taken for one already handled.
Bug_SkipFirst(first, last) ==
  /\ last_handled' = IF Lt(last_handled, first) THEN first ELSE last_handled
  /\ last_announced' = IF Lt(last_announced, last) THEN last ELSE last_announced
  /\ UNCHANGED <<in_messages, fragment_msg>>

\* update_from_heartbeat
update_from_heartbeat(first, last) ==
  /\ last_handled' = IF Lt(NextExpected, first) THEN Sub(first, 1) ELSE last_handled
  /\ last_announced' = IF Lt(last_announced, last) THEN last ELSE last_announced
  /\ UNCHANGED <<in_messages, fragment_msg>>

\* Mutant: one bit too many, past the last announced message.
Bug_NackPastEnd(handled, announced, kept) ==
  {i \in 0..(NackBits - 1) :
     /\ Le(AddSeq(handled, i), announced)
     /\ AddSeq(handled, i + 1) \notin kept}

\* fill_acknack: bit i of the bitmap, for the (i+1)-th number after the last
\* handled one.
NackBitmap(handled, announced, kept) ==
  {i \in 0..(NackBits - 1) :
     /\ Lt(AddSeq(handled, i), announced)
     /\ AddSeq(handled, i + 1) \notin kept}

\* The message a FRAGMENT completes.
Reassembled(msg) == Append(fragment_msg, msg.piece)

\* Mutant: the buffer of fragments not cleared by pop_fragment_message.
Bug_KeepFragments(msg) == Reassembled(msg)

\* What push_fragment, then pop_fragment_message, leave in fragment_msg_.
FragmentsAfter(msg) == IF msg.last THEN << >> ELSE Reassembled(msg)
=============================================================================
