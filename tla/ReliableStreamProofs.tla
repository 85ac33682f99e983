------------------------ MODULE ReliableStreamProofs ------------------------
(***************************************************************************)
(* Proofs about ReliableStream, for every size of the number space, depth, *)
(* size of submessages and number of messages.                             *)
(***************************************************************************)
EXTENDS ReliableStream, SeqNumTheorems

-----------------------------------------------------------------------------
(* The inductive invariant: the 16-bit numbers of both sides are those of  *)
(* the positions the history records, which are close to each other.       *)

\* Messages carry their position and its number.
LogInv ==
  \A n \in 1..Len(log) : log[n].seq = NumberOf(n) /\ log[n].pos = n

\* The sender keeps the messages after the last acknowledged one.
SenderInv ==
  /\ acked =< sent /\ sent =< Len(log)
  /\ Len(log) - acked < Depth + MaxFragments
  /\ last_unacked = NumberOf(Len(log))
  /\ last_sent = NumberOf(sent)
  /\ first_unacked = NumberOf(acked + 1)
  /\ DOMAIN out_messages = {NumberOf(n) : n \in (acked + 1)..Len(log)}
  /\ \A n \in (acked + 1)..Len(log) : out_messages[NumberOf(n)] = log[n]

\* The receiver has popped a prefix of the messages and keeps some of its window.
ReceiverInv ==
  /\ acked =< Len(delivered) /\ Len(delivered) =< Len(log)
  /\ \A i \in 1..Len(delivered) : delivered[i] = log[i]
  /\ last_handled = NumberOf(Len(delivered))
  /\ \A s \in DOMAIN in_messages :
       \E n \in (Len(delivered) + 1)..(Len(delivered) + Depth) :
         n =< Len(log) /\ s = NumberOf(n) /\ in_messages[s] = log[n]

\* Packets say what was true when they were sent: p against the messages pushed
\* and the numbers of messages acknowledged and handled.
PacketTrue(p, messages, a, h) ==
  \/ /\ p.kind = "DATA"
     /\ p.pos \in 1..Len(messages) /\ p.msg = messages[p.pos]
  \/ /\ p.kind = "HEARTBEAT"
     /\ p.pos =< a /\ p.first = NumberOf(p.pos + 1)
  \/ /\ p.kind = "ACKNACK"
     /\ p.pos =< h /\ p.first = NumberOf(p.pos + 1)

NetInv == \A p \in net : PacketTrue(p, log, acked, Len(delivered))

IInv == TypeOK /\ LogInv /\ SenderInv /\ ReceiverInv /\ NetInv

\* The announced number is that of a message pushed, no earlier than any the
\* receiver has had; so is the last number of a heartbeat.
AnnouncedInv ==
  /\ \E a \in Len(delivered)..Len(log) :
       /\ last_announced = NumberOf(a)
       /\ \A s \in DOMAIN in_messages : in_messages[s].pos =< a
  /\ \A p \in net :
       p.kind = "HEARTBEAT" => \E n \in p.pos..Len(log) : p.last = NumberOf(n)

\* Message m carries piece j of submessage s, the k-th one.
Carries(m, s, k, j) ==
  /\ m.piece = <<k, j>>
  /\ m.frag = (Len(s) > 1)
  /\ m.last = (Len(s) > 1 /\ j = Len(s))

\* The log is the pieces of the submessages one after the other.
PiecesInv ==
  /\ \A k \in 1..Len(submitted) :
       Len(submitted[k]) > 0 /\ \A j \in 1..Len(submitted[k]) : submitted[k][j] = <<k, j>>
  /\ \A n \in 1..Len(log) : \E k \in 1..Len(submitted) : \E j \in 1..Len(submitted[k]) :
       /\ Carries(log[n], submitted[k], k, j)
       /\ n = Len(log) => k = Len(submitted) /\ j = Len(submitted[k])
       /\ n < Len(log) =>
            log[n + 1].piece = IF j < Len(submitted[k]) THEN <<k, j + 1>> ELSE <<k + 1, 1>>

\* What has been handled is whole, and the buffer of fragments holds the pieces of
\* the next submessage up to the next message expected.
ReassemblyInv ==
  /\ WholeSubmessages
  /\ \A i \in 1..Len(fragment_msg) : fragment_msg[i] = <<Len(processed) + 1, i>>
  /\ Len(delivered) < Len(log) =>
       log[Len(delivered) + 1].piece = <<Len(processed) + 1, Len(fragment_msg) + 1>>
  /\ Len(delivered) = Len(log) =>
       Len(processed) = Len(submitted) /\ Len(fragment_msg) = 0

-----------------------------------------------------------------------------
\* Two sequences one after the other.
LEMMA ConcatFacts ==
  ASSUME NEW S, NEW s \in Seq(S), NEW t \in Seq(S)
  PROVE  /\ s \o t \in Seq(S) /\ Len(s \o t) = Len(s) + Len(t)
         /\ \A i \in 1..(Len(s) + Len(t)) :
              (s \o t)[i] = IF i =< Len(s) THEN s[i] ELSE t[i - Len(s)]
  BY SMT

\* The sequence without elements.
LEMMA EmptyType ==
  ASSUME NEW S
  PROVE  << >> \in Seq(S) /\ Len(<< >>) = 0
  BY SMT

\* A sequence with one more element.
LEMMA AppendFacts ==
  ASSUME NEW S, NEW s \in Seq(S), NEW e \in S
  PROVE  /\ Append(s, e) \in Seq(S) /\ Len(Append(s, e)) = Len(s) + 1
         /\ \A i \in 1..Len(s) : Append(s, e)[i] = s[i]
         /\ Append(s, e)[Len(s) + 1] = e
  BY SMT

\* Sequences with the same elements are equal.
LEMMA SameElements ==
  ASSUME NEW S, NEW s \in Seq(S), NEW t \in Seq(S), Len(s) = Len(t),
         \A i \in 1..Len(s) : s[i] = t[i]
  PROVE  s = t
<1>1. DOMAIN s = 1..Len(s) /\ DOMAIN t = 1..Len(s)
  OBVIOUS
<1>2. s = [i \in DOMAIN s |-> s[i]] /\ t = [i \in DOMAIN t |-> t[i]]
  OBVIOUS
<1> QED
  BY <1>1, <1>2, Zenon

\* The constants are numbers, and windows are small against the number space.
LEMMA ConstantFacts ==
  /\ Half \in Nat /\ Half > 1 /\ MAX = 2 * Half /\ MAX \in Nat
  /\ Depth \in Nat /\ Depth > 0
  /\ MaxFragments \in Nat /\ MaxFragments > 0
  /\ NackBits \in Nat /\ NackBits < Half
  /\ Lifetime \in Nat
  /\ Depth + MaxFragments =< Lifetime
  /\ Lifetime + Depth + MaxFragments =< Half
  BY HalfAssumption, StreamAssumption, LifetimeAssumption DEF MAX

\* Adding a SeqNum follows the positions too.
LEMMA AddSeqIsPlus ==
  ASSUME NEW n \in Nat, NEW d \in 0..(Half - 1)
  PROVE  AddSeq(NumberOf(n), d) = NumberOf(n + d)
<1>1. NumberOf(n) \in SeqNums
  BY NumberOfType
<1>2. d \in SeqNums
  BY ConstantFacts DEF SeqNums
<1> QED
  BY <1>1, <1>2, AddSeqIsAdd, AddIsPlus, Zenon

\* The room push_submessage waits for, in positions.
LEMMA RoomInPositions ==
  ASSUME TypeOK, SenderInv, HasRoom
  PROVE  Len(log) - acked < Depth
<1>1. acked \in Nat /\ sent \in Nat /\ Len(log) \in Nat
  BY DEF TypeOK
<1>2. AddSeq(NumberOf(acked + 1), Depth - 1) = NumberOf(acked + Depth)
  <2>1. Depth - 1 \in 0..(Half - 1) /\ acked + 1 \in Nat
    BY ConstantFacts, <1>1
  <2>2. AddSeq(NumberOf(acked + 1), Depth - 1) = NumberOf((acked + 1) + (Depth - 1))
    BY <2>1, AddSeqIsPlus
  <2>3. (acked + 1) + (Depth - 1) = acked + Depth
    BY <1>1, ConstantFacts
  <2> QED
    BY <2>2, <2>3
<1>3. Lt(NumberOf(Len(log)), NumberOf(acked + Depth))
  BY <1>2 DEF HasRoom, SenderInv
<1>4. acked + Depth \in Nat
  BY <1>1, ConstantFacts
<1>5. /\ (acked + Depth) - Len(log) < Half
      /\ Len(log) - (acked + Depth) =< Half
  BY <1>1, ConstantFacts DEF SenderInv
<1>6. Len(log) < acked + Depth
  BY <1>1, <1>3, <1>4, <1>5, SerialOrder, Zenon
<1> QED
  BY <1>6, <1>1, ConstantFacts

\* The messages of a submessage, in positions.
LEMMA FragmentsInPositions ==
  ASSUME TypeOK, SenderInv, NEW n \in 1..MaxFragments, NEW pieces \in Seq(Nat \X Nat),
         Len(pieces) = n
  PROVE  /\ Fragments(pieces, Len(log)) \in Seq(Messages)
         /\ Len(Fragments(pieces, Len(log))) = n
         /\ \A j \in 1..n : /\ Fragments(pieces, Len(log))[j].seq = NumberOf(Len(log) + j)
                            /\ Fragments(pieces, Len(log))[j].pos = Len(log) + j
<1> DEFINE L == Len(log)
<1> DEFINE ms == Fragments(pieces, L)
<1>1. L \in Nat /\ last_unacked = NumberOf(L) /\ n \in Nat
  BY ConstantFacts DEF TypeOK, SenderInv
<1>2. ms = [j \in 1..n |->
              [seq |-> (NumberOf(L) + j) % MAX, pos |-> L + j, piece |-> pieces[j],
               frag |-> n > 1, last |-> n > 1 /\ j = n]]
  BY <1>1 DEF Fragments
<1>3. ASSUME NEW j \in 1..n
      PROVE  ms[j] \in Messages /\ ms[j].seq = NumberOf(L + j) /\ ms[j].pos = L + j
  <2>1. j \in Nat /\ L + j \in Nat
    BY <1>1
  <2>2. (NumberOf(L) + j) % MAX = NumberOf(L + j)
    BY <1>1, <2>1, NumberOfPlus
  <2>3. NumberOf(L + j) \in SeqNums
    BY <2>1, NumberOfType
  <2>4. pieces[j] \in Nat \X Nat
    <3> DEFINE P == Nat \X Nat
    <3>1. pieces \in Seq(P) /\ j \in 1..Len(pieces)
      BY Zenon
    <3> HIDE DEF P
    <3>2. pieces[j] \in P
      BY <3>1
    <3> QED
      BY <3>2, Zenon DEF P
  <2>5. ms[j] = [seq |-> (NumberOf(L) + j) % MAX, pos |-> L + j, piece |-> pieces[j],
                 frag |-> n > 1, last |-> n > 1 /\ j = n]
    BY <1>2, Zenon
  <2> HIDE DEF ms, L
  <2>6. ms[j] = [seq |-> NumberOf(L + j), pos |-> L + j, piece |-> pieces[j],
                 frag |-> n > 1, last |-> n > 1 /\ j = n]
    BY <2>2, <2>5, Zenon
  <2>7. (n > 1) \in BOOLEAN /\ (n > 1 /\ j = n) \in BOOLEAN
    OBVIOUS
  <2> QED
    BY <2>1, <2>3, <2>4, <2>6, <2>7 DEF Messages
<1>4. ms \in Seq(Messages) /\ Len(ms) = n
  <2> HIDE DEF ms
  <2> QED
    BY <1>1, <1>2, <1>3
<1> QED
  BY <1>3, <1>4

\* The parts of the invariant, and the order of the positions.
LEMMA IInvFacts ==
  ASSUME IInv
  PROVE  /\ TypeOK /\ LogInv /\ SenderInv /\ ReceiverInv /\ NetInv
         /\ Len(log) \in Nat /\ acked \in Nat /\ sent \in Nat /\ Len(delivered) \in Nat
         /\ acked =< sent /\ sent =< Len(log)
         /\ acked =< Len(delivered) /\ Len(delivered) =< Len(log)
         /\ Len(log) - acked < Depth + MaxFragments
<1>1. TypeOK /\ LogInv /\ SenderInv /\ ReceiverInv /\ NetInv
  BY DEF IInv
<1>2. Len(log) \in Nat /\ acked \in Nat /\ sent \in Nat /\ Len(delivered) \in Nat
  BY <1>1 DEF TypeOK
<1>3. /\ acked =< sent /\ sent =< Len(log)
      /\ Len(log) - acked < Depth + MaxFragments
  BY <1>1 DEF SenderInv
<1>4. acked =< Len(delivered) /\ Len(delivered) =< Len(log)
  BY <1>1 DEF ReceiverInv
<1> QED
  BY <1>1, <1>2, <1>3, <1>4

-----------------------------------------------------------------------------
(* One lemma per action: it preserves the inductive invariant. *)

\* push_submessage appends to the history and to what the sender keeps; the new
\* numbers are not in use because the window is smaller than the number space.
LEMMA PushStep ==
  ASSUME IInv, NEW n \in 1..MaxFragments, Push(n)
  PROVE  IInv'
<1> DEFINE L == Len(log)
<1> DEFINE pieces == [j \in 1..n |-> <<Len(submitted) + 1, j>>]
<1> DEFINE ms == Fragments(pieces, L)
<1>1. /\ TypeOK /\ LogInv /\ SenderInv /\ ReceiverInv /\ NetInv
      /\ L \in Nat /\ acked \in Nat /\ sent \in Nat /\ n \in Nat
      /\ log \in Seq(Messages) /\ delivered \in Seq(Messages)
  <2>1. n \in Nat
    BY ConstantFacts
  <2>2. TypeOK /\ log \in Seq(Messages) /\ delivered \in Seq(Messages)
    BY DEF IInv, TypeOK
  <2> QED
    BY <2>1, <2>2, IInvFacts
<1>2. pieces \in Seq(Nat \X Nat) /\ Len(pieces) = n
  <2>1. Len(submitted) + 1 \in Nat
    BY <1>1 DEF TypeOK
  <2> QED
    BY <1>1, <2>1
<1>3. /\ HasRoom
      /\ log' = log \o ms
      /\ submitted' = Append(submitted, pieces)
      /\ last_unacked' = (last_unacked + Len(ms)) % MAX
      /\ out_messages' = [s \in DOMAIN out_messages \cup {ms[j].seq : j \in DOMAIN ms} |->
                            IF s \in DOMAIN out_messages THEN out_messages[s]
                            ELSE ms[Sub(s, last_unacked)]]
      /\ UNCHANGED <<last_sent, first_unacked, inVars, draining, net, processed,
                     delivered, sent, acked>>
  BY Zenon DEF Push, push_submessage
<1> HIDE DEF pieces
<1>4. /\ ms \in Seq(Messages) /\ Len(ms) = n
      /\ \A j \in 1..n : ms[j].seq = NumberOf(L + j) /\ ms[j].pos = L + j
  BY <1>1, <1>2, FragmentsInPositions, Zenon
<1> HIDE DEF ms
<1>5. /\ log' \in Seq(Messages) /\ Len(log') = L + n
      /\ \A i \in 1..L : log'[i] = log[i]
      /\ \A j \in 1..n : log'[L + j] = ms[j]
  <2>1. /\ log' \in Seq(Messages) /\ Len(log') = L + n
        /\ \A i \in 1..(L + n) : log'[i] = IF i =< L THEN log[i] ELSE ms[i - L]
    BY <1>1, <1>3, <1>4, ConcatFacts, Zenon
  <2>2. \A i \in 1..L : i \in 1..(L + n) /\ i =< L
    BY <1>1
  <2>3. \A j \in 1..n : L + j \in 1..(L + n) /\ ~ (L + j =< L) /\ (L + j) - L = j
    BY <1>1
  <2> QED
    BY <2>1, <2>2, <2>3, Zenon
<1>6. L - acked < Depth
  BY <1>1, <1>3, RoomInPositions, Zenon
<1>7. LogInv'
  <2> SUFFICES ASSUME NEW i \in 1..(L + n)
               PROVE  log'[i].seq = NumberOf(i) /\ log'[i].pos = i
    BY <1>5 DEF LogInv
  <2>1. CASE i =< L
    BY <2>1, <1>1, <1>5, SMTT(60) DEF LogInv
  <2>2. CASE i > L
    <3>1. i - L \in 1..n /\ L + (i - L) = i
      BY <2>2, <1>1
    <3>2. log'[i] = ms[i - L]
      BY <3>1, <1>5
    <3> QED
      BY <3>1, <3>2, <1>4, Zenon
  <2> QED
    BY <2>1, <2>2, <1>1
<1>8. DOMAIN out_messages' = {NumberOf(i) : i \in (acked + 1)..(L + n)}
  <2>1. {ms[j].seq : j \in DOMAIN ms} = {NumberOf(L + j) : j \in 1..n}
    <3>1. DOMAIN ms = 1..n
      BY <1>4
    <3> QED
      BY <3>1, <1>4, Zenon
  <2>2. {NumberOf(L + j) : j \in 1..n} = {NumberOf(i) : i \in (L + 1)..(L + n)}
    <3>1. ASSUME NEW i \in (L + 1)..(L + n)
          PROVE  i - L \in 1..n /\ L + (i - L) = i
      BY <1>1
    <3>2. ASSUME NEW j \in 1..n
          PROVE  L + j \in (L + 1)..(L + n)
      BY <1>1
    <3> QED
      BY <3>1, <3>2, Zenon
  <2>3. DOMAIN out_messages = {NumberOf(i) : i \in (acked + 1)..L}
    BY <1>1 DEF SenderInv
  <2>4. acked =< L
    BY <1>1 DEF SenderInv
  <2>5. (acked + 1)..(L + n) = ((acked + 1)..L) \cup ((L + 1)..(L + n))
    BY <2>4, <1>1
  <2>6. DOMAIN out_messages' = DOMAIN out_messages \cup {ms[j].seq : j \in DOMAIN ms}
    BY <1>3, Zenon
  <2> QED
    BY <2>1, <2>2, <2>3, <2>5, <2>6, Zenon
<1>9. \A i \in (acked + 1)..(L + n) : out_messages'[NumberOf(i)] = log'[i]
  <2> SUFFICES ASSUME NEW i \in (acked + 1)..(L + n)
               PROVE  out_messages'[NumberOf(i)] = log'[i]
    OBVIOUS
  <2>0. i \in Nat /\ NumberOf(i) \in DOMAIN out_messages'
    BY <1>1, <1>8
  <2>1. CASE i =< L
    <3>1. NumberOf(i) \in DOMAIN out_messages /\ out_messages[NumberOf(i)] = log[i]
      BY <1>1, <2>1 DEF SenderInv
    <3> QED
      BY <3>1, <2>0, <2>1, <1>1, <1>3, <1>5
  <2>2. CASE i > L
    <3>1. i - L \in 1..n /\ L + (i - L) = i /\ i - L \in 0..(MAX - 1)
      BY <2>2, <1>1, ConstantFacts
    <3>2. NumberOf(i) \notin DOMAIN out_messages
      <4> SUFFICES ASSUME NEW k \in (acked + 1)..L, NumberOf(k) = NumberOf(i)
                   PROVE  FALSE
        BY <1>1 DEF SenderInv
      <4>1. k \in Nat /\ k < i /\ i - k < MAX
        BY <1>1, <1>6, <2>2, ConstantFacts
      <4> QED
        BY <4>1, <2>0, NumberOfInjective, ConstantFacts
    <3>3. Sub(NumberOf(i), last_unacked) = i - L
      <4>1. Sub(NumberOf(L + (i - L)), NumberOf(L)) = i - L
        BY <1>1, <3>1, SubIsDistance
      <4> QED
        BY <4>1, <3>1, <1>1, Zenon DEF SenderInv
    <3>4. out_messages'[NumberOf(i)] = ms[i - L]
      BY <2>0, <3>2, <3>3, <1>3
    <3>5. log'[i] = ms[i - L]
      BY <3>1, <1>5
    <3> QED
      BY <3>4, <3>5
  <2> QED
    BY <2>1, <2>2, <2>0, <1>1
<1>10. SenderInv'
  <2>1. last_unacked' = NumberOf(L + n)
    BY <1>1, <1>3, <1>4, NumberOfPlus, Zenon DEF SenderInv
  <2>2. acked =< sent /\ sent =< L
    BY <1>1, Zenon DEF SenderInv
  <2>3. sent =< L + n /\ L + n - acked < Depth + MaxFragments
    BY <1>1, <1>6, <2>2, ConstantFacts
  <2>4. last_sent' = NumberOf(sent) /\ first_unacked' = NumberOf(acked + 1)
    BY <1>1, <1>3, Zenon DEF SenderInv
  <2>5. sent' = sent /\ acked' = acked /\ Len(log') = L + n
    BY <1>3, <1>5
  <2>6. DOMAIN out_messages' = {NumberOf(i) : i \in (acked' + 1)..Len(log')}
    BY <1>8, <2>5, Zenon
  <2>7. \A i \in (acked' + 1)..Len(log') : out_messages'[NumberOf(i)] = log'[i]
    BY <1>9, <2>5, Zenon
  <2>8. /\ acked' =< sent' /\ sent' =< Len(log')
        /\ Len(log') - acked' < Depth + MaxFragments
    BY <1>1, <2>2, <2>3, <2>5, ConstantFacts
  <2>9. last_unacked' = NumberOf(Len(log'))
    BY <2>1, <2>5, Zenon
  <2>10. last_sent' = NumberOf(sent') /\ first_unacked' = NumberOf(acked' + 1)
    BY <2>4, <2>5, Zenon
  <2> QED
    BY <2>6, <2>7, <2>8, <2>9, <2>10, Zenon DEF SenderInv
<1>11. ReceiverInv'
  <2>1. Len(delivered) \in Nat /\ Len(delivered) =< L
    BY <1>1 DEF ReceiverInv
  <2>2. \A i \in 1..Len(delivered) : delivered[i] = log'[i]
    BY <1>1, <1>5, <2>1 DEF ReceiverInv
  <2>3. ASSUME NEW s \in DOMAIN in_messages
        PROVE  \E k \in (Len(delivered) + 1)..(Len(delivered) + Depth) :
                 k =< Len(log') /\ s = NumberOf(k) /\ in_messages[s] = log'[k]
    <3>1. PICK k \in (Len(delivered) + 1)..(Len(delivered) + Depth) :
                 k =< L /\ s = NumberOf(k) /\ in_messages[s] = log[k]
      BY <1>1 DEF ReceiverInv
    <3>2. k \in 1..L /\ k =< L + n
      BY <3>1, <2>1, <1>1
    <3> QED
      BY <3>1, <3>2, <1>5, Zenon
  <2>4. Len(delivered) =< Len(log')
    BY <2>1, <1>1, <1>5
  <2> QED
    BY <1>1, <1>3, <2>2, <2>3, <2>4, Zenon DEF ReceiverInv, inVars
<1>12. NetInv'
  <2> SUFFICES ASSUME NEW p \in net
               PROVE  PacketTrue(p, log', acked, Len(delivered))
    BY <1>3 DEF NetInv
  <2>1. PacketTrue(p, log, acked, Len(delivered))
    BY <1>1, Zenon DEF NetInv
  <2>2. CASE p.kind = "DATA"
    <3>1. p.pos \in 1..L /\ p.msg = log[p.pos]
      BY <2>1, <2>2, Zenon DEF PacketTrue
    <3>2. p.pos \in 1..(L + n) /\ log'[p.pos] = log[p.pos]
      BY <3>1, <1>1, <1>5
    <3> QED
      BY <2>2, <3>1, <3>2, <1>5, Zenon DEF PacketTrue
  <2>3. CASE p.kind # "DATA"
    BY <2>1, <2>3, Zenon DEF PacketTrue
  <2> QED
    BY <2>2, <2>3, Zenon
<1>13. TypeOK'
  <2>1. DOMAIN out_messages' \subseteq SeqNums
    <3>1. \A i \in (acked + 1)..(L + n) : NumberOf(i) \in SeqNums
      BY <1>1, NumberOfType
    <3> QED
      BY <3>1, <1>8, Zenon
  <2>2. \A s \in DOMAIN out_messages' : out_messages'[s] \in Messages
    <3>1. \A i \in (acked + 1)..(L + n) : log'[i] \in Messages
      BY <1>1, <1>5
    <3> QED
      BY <3>1, <1>8, <1>9, Zenon
  <2>3. last_unacked' \in SeqNums
    <3>1. L + n \in Nat
      BY <1>1
    <3> QED
      BY <3>1, <1>10, <1>5, NumberOfType DEF SenderInv
  <2>4. submitted' \in Seq(Seq(Nat \X Nat))
    BY <1>1, <1>2, <1>3 DEF TypeOK
  <2>5. \A p \in net' : PacketType(p)
    BY <1>1, <1>3 DEF TypeOK
  <2> QED
    BY <1>1, <1>3, <1>5, <2>1, <2>2, <2>3, <2>4, <2>5, Zenon DEF TypeOK, inVars
<1> QED
  BY <1>7, <1>10, <1>11, <1>12, <1>13 DEF IInv

\* What the network holds after a step was there before or was just sent.
LEMMA TransmitFacts ==
  ASSUME NEW from, NEW sends, Transmit(from, sends)
  PROVE  net' \subseteq from \cup sends
  BY DEF Transmit

\* Handling a packet adds what its handler sends and nothing else.
LEMMA HandledFacts ==
  ASSUME NEW p, NEW sends, Handled(p, sends)
  PROVE  net' \subseteq net \cup sends
<1>1. CASE Transmit(net, sends)
  BY <1>1, TransmitFacts, Zenon
<1>2. CASE Transmit(net \ {p}, sends)
  <2>1. net' \subseteq (net \ {p}) \cup sends
    BY <1>2, TransmitFacts
  <2> QED
    BY <2>1, Zenon
<1> QED
  BY <1>1, <1>2, Zenon DEF Handled

\* Old packets stay true when the log stays and the positions only grow.
LEMMA NetStep ==
  ASSUME TypeOK, NetInv,
         log' = log, acked' \in Nat, acked =< acked',
         Len(delivered') \in Nat, Len(delivered) =< Len(delivered'),
         \A q \in net' \ net :
           PacketType(q) /\ PacketTrue(q, log, acked', Len(delivered'))
  PROVE  NetInv' /\ \A q \in net' : PacketType(q)
<1> SUFFICES ASSUME NEW q \in net'
             PROVE  PacketTrue(q, log, acked', Len(delivered')) /\ PacketType(q)
  BY DEF NetInv
<1>1. CASE q \notin net
  BY <1>1
<1>2. CASE q \in net
  <2>1. PacketType(q) /\ PacketTrue(q, log, acked, Len(delivered))
    BY <1>2 DEF TypeOK, NetInv
  <2>2. acked \in Nat /\ Len(delivered) \in Nat
    BY DEF TypeOK
  <2>3. CASE q.kind = "DATA"
    BY <2>1, <2>3 DEF PacketTrue
  <2>4. CASE q.kind = "HEARTBEAT"
    <3>1. q.pos \in Nat /\ q.pos =< acked /\ q.first = NumberOf(q.pos + 1)
      BY <2>1, <2>4 DEF PacketTrue, PacketType
    <3>2. q.pos =< acked'
      BY <3>1, <2>2
    <3> QED
      BY <2>1, <2>4, <3>1, <3>2, Zenon DEF PacketTrue
  <2>5. CASE q.kind = "ACKNACK"
    <3>1. q.pos \in Nat /\ q.pos =< Len(delivered) /\ q.first = NumberOf(q.pos + 1)
      BY <2>1, <2>5 DEF PacketTrue, PacketType
    <3>2. q.pos =< Len(delivered')
      BY <3>1, <2>2
    <3> QED
      BY <2>1, <2>5, <3>1, <3>2, Zenon DEF PacketTrue
  <2> QED
    BY <2>1, <2>3, <2>4, <2>5, Zenon DEF PacketType
<1> QED
  BY <1>1, <1>2, Zenon

\* A message of the log makes a DATA packet.
LEMMA DataPacket ==
  ASSUME TypeOK, LogInv, NEW n \in 1..Len(log), NEW a, NEW h
  PROVE  PacketType(Data(log[n])) /\ PacketTrue(Data(log[n]), log, a, h)
<1>1. log[n] \in Messages /\ log[n].pos = n
  BY DEF TypeOK, LogInv
<1>2. /\ Data(log[n]).kind = "DATA" /\ Data(log[n]).msg = log[n]
      /\ Data(log[n]).pos = n
  BY <1>1 DEF Data
<1> QED
  BY <1>1, <1>2 DEF PacketType, PacketTrue

\* get_next_message hands out the message after the last one sent, which is kept.
LEMMA SendNextStep ==
  ASSUME IInv, SendNext
  PROVE  IInv'
<1>1. /\ TypeOK /\ LogInv /\ SenderInv /\ ReceiverInv /\ NetInv
      /\ Len(log) \in Nat /\ acked \in Nat /\ sent \in Nat
      /\ acked =< sent /\ sent =< Len(log)
      /\ Len(log) - acked < Depth + MaxFragments
      /\ Len(delivered) \in Nat
  BY IInvFacts
<1>2. /\ Lt(last_sent, last_unacked)
      /\ last_sent' = Add(last_sent, 1)
      /\ Transmit(net, {Data(NextMessage)})
      /\ sent' = sent + 1
      /\ UNCHANGED <<out_messages, last_unacked, first_unacked, inVars, draining,
                     submitted, processed, log, delivered, acked>>
  BY Zenon DEF SendNext, get_next_message
<1>3. Add(last_sent, 1) = NumberOf(sent + 1)
  <2>1. 1 \in 0..(Half - 1)
    BY ConstantFacts
  <2> QED
    BY <2>1, <1>1, AddIsPlus, Zenon DEF SenderInv
<1>4. sent < Len(log)
  <2>1. Len(log) - sent < Half /\ sent - Len(log) =< Half
    BY <1>1, ConstantFacts
  <2>2. Lt(NumberOf(sent), NumberOf(Len(log)))
    BY <1>1, <1>2 DEF SenderInv
  <2> QED
    BY <1>1, <2>1, <2>2, SerialOrder, Zenon
<1>5. sent + 1 \in (acked + 1)..Len(log) /\ sent + 1 \in 1..Len(log) /\ sent + 1 \in Nat
  BY <1>1, <1>4
<1>6. NextMessage = log[sent + 1]
  BY <1>1, <1>3, <1>5, Zenon DEF NextMessage, SenderInv
<1>7. NetInv' /\ \A q \in net' : PacketType(q)
  <2>1. net' \subseteq net \cup {Data(log[sent + 1])}
    BY <1>2, <1>6, TransmitFacts, Zenon
  <2>2. /\ PacketType(Data(log[sent + 1]))
        /\ PacketTrue(Data(log[sent + 1]), log, acked', Len(delivered'))
    BY <1>1, <1>5, DataPacket, Zenon
  <2>3. /\ log' = log /\ acked' \in Nat /\ acked =< acked'
        /\ Len(delivered') \in Nat /\ Len(delivered) =< Len(delivered')
    BY <1>1, <1>2
  <2>4. \A q \in net' \ net :
          PacketType(q) /\ PacketTrue(q, log, acked', Len(delivered'))
    BY <2>1, <2>2, Zenon
  <2> QED
    BY <1>1, <2>3, <2>4, NetStep, Zenon
<1>8. SenderInv'
  <2>1. last_sent' = NumberOf(sent') /\ acked' =< sent' /\ sent' =< Len(log)
    BY <1>1, <1>2, <1>3, <1>4
  <2> QED
    BY <1>1, <1>2, <2>1, Zenon DEF SenderInv
<1>9. LogInv' /\ ReceiverInv'
  BY <1>1, <1>2 DEF LogInv, ReceiverInv, inVars
<1>10. TypeOK'
  <2>1. last_sent' \in SeqNums
    BY <1>2, <1>3, <1>5, NumberOfType, Zenon
  <2> QED
    BY <1>1, <1>2, <1>5, <1>7, <2>1 DEF TypeOK, inVars
<1> QED
  BY <1>7, <1>8, <1>9, <1>10 DEF IInv

\* fill_heartbeat reads the first number the sender keeps.
LEMMA SendHeartbeatStep ==
  ASSUME IInv, SendHeartbeat
  PROVE  IInv'
<1>1. /\ TypeOK /\ LogInv /\ SenderInv /\ ReceiverInv /\ NetInv
      /\ acked \in Nat /\ Len(delivered) \in Nat
  BY IInvFacts
<1>2. UNCHANGED <<outVars, inVars, draining, history>> /\ Transmit(net, {Heartbeat})
  BY Zenon DEF SendHeartbeat
<1>3. PacketType(Heartbeat) /\ PacketTrue(Heartbeat, log, acked', Len(delivered'))
  <2>1. /\ Heartbeat.kind = "HEARTBEAT" /\ Heartbeat.pos = acked
        /\ Heartbeat.first = NumberOf(acked + 1)
    BY <1>1 DEF Heartbeat, SenderInv
  <2>2. PacketType(Heartbeat)
    BY <1>1 DEF Heartbeat, PacketType, TypeOK
  <2> QED
    BY <1>1, <1>2, <2>1, <2>2 DEF PacketTrue, history
<1>4. NetInv' /\ \A q \in net' : PacketType(q)
  <2>1. net' \subseteq net \cup {Heartbeat}
    BY <1>2, TransmitFacts, Zenon
  <2>2. /\ log' = log /\ acked' \in Nat /\ acked =< acked'
        /\ Len(delivered') \in Nat /\ Len(delivered) =< Len(delivered')
    BY <1>1, <1>2 DEF history
  <2>3. \A q \in net' \ net :
          PacketType(q) /\ PacketTrue(q, log, acked', Len(delivered'))
    BY <1>3, <2>1
  <2> QED
    BY <1>1, <2>2, <2>3, NetStep, Zenon
<1>5. LogInv' /\ SenderInv' /\ ReceiverInv'
  BY <1>1, <1>2 DEF LogInv, SenderInv, ReceiverInv, outVars, inVars, history
<1>6. TypeOK'
  BY <1>1, <1>2, <1>4 DEF TypeOK, outVars, inVars, history
<1> QED
  BY <1>4, <1>5, <1>6, Zenon DEF IInv

\* An acknowledgement up to position pos moves first_unacked_ exactly when it is
\* for messages sent and not yet acknowledged, and then erases just those.
LEMMA AcknackInPositions ==
  ASSUME TypeOK, SenderInv, NEW pos \in Nat, pos =< Len(log), acked - pos =< Lifetime,
         NEW first, first = NumberOf(pos + 1),
         update_from_acknack(first),
         acked' = acked + Sub(first_unacked', first_unacked),
         UNCHANGED <<log, sent>>
  PROVE  /\ SenderInv'
         /\ DOMAIN out_messages' \subseteq DOMAIN out_messages
         /\ \A s \in DOMAIN out_messages' : out_messages'[s] = out_messages[s]
         /\ acked' = acked \/ (acked' = pos /\ acked < pos)
         /\ first_unacked' \in SeqNums
<1> DEFINE L == Len(log)
<1>1. /\ L \in Nat /\ acked \in Nat /\ sent \in Nat
      /\ acked =< sent /\ sent =< L /\ L - acked < Depth + MaxFragments
      /\ last_sent = NumberOf(sent) /\ first_unacked = NumberOf(acked + 1)
      /\ last_unacked = NumberOf(L)
      /\ DOMAIN out_messages = {NumberOf(n) : n \in (acked + 1)..L}
      /\ \A n \in (acked + 1)..L : out_messages[NumberOf(n)] = log[n]
  BY SMTT(60) DEF TypeOK, SenderInv
<1> HIDE DEF L
<1>2. Le(first, Add(last_sent, 1)) <=> pos =< sent
  <2>1. Add(last_sent, 1) = NumberOf(sent + 1)
    <3>1. 1 \in 0..(Half - 1)
      BY ConstantFacts
    <3> QED
      BY <3>1, <1>1, AddIsPlus, Zenon
  <2>2. /\ sent + 1 \in Nat /\ pos + 1 \in Nat
        /\ (pos + 1) - (sent + 1) < Half /\ (sent + 1) - (pos + 1) =< Half
    BY <1>1, ConstantFacts DEF L
  <2>3. Lt(NumberOf(sent + 1), NumberOf(pos + 1)) <=> sent + 1 < pos + 1
    BY <2>2, SerialOrder, Zenon
  <2> QED
    BY <1>1, <2>1, <2>3 DEF Le, Gt
<1>3. Gt(first, first_unacked) <=> acked < pos
  <2>1. /\ acked + 1 \in Nat /\ pos + 1 \in Nat
        /\ (pos + 1) - (acked + 1) < Half /\ (acked + 1) - (pos + 1) =< Half
    BY <1>1, ConstantFacts DEF L
  <2>2. Lt(NumberOf(acked + 1), NumberOf(pos + 1)) <=> acked + 1 < pos + 1
    BY <2>1, SerialOrder, Zenon
  <2> QED
    BY <1>1, <2>2 DEF Gt
<1>4. CASE pos =< sent /\ acked < pos
  <2> DEFINE d == pos - acked
  <2>1. /\ d \in 1..(MAX - 1) /\ d \in 0..(MAX - 1) /\ d \in Nat /\ acked + 1 \in Nat
        /\ (acked + 1) + d = pos + 1
    BY <1>1, <1>4, ConstantFacts
  <2>2. Sub(first, first_unacked) = d
    <3>1. Sub(NumberOf((acked + 1) + d), NumberOf(acked + 1)) = d
      BY <2>1, SubIsDistance, Zenon
    <3> QED
      BY <3>1, <2>1, <1>1
  <2>3. From(first_unacked, first) = {NumberOf(k) : k \in (acked + 1)..pos}
    <3>1. From(first_unacked, first) = {(NumberOf(acked + 1) + i) % MAX : i \in 0..(d - 1)}
      BY <2>2, <1>1, Zenon DEF From
    <3>2. ASSUME NEW i \in 0..(d - 1)
          PROVE  /\ (NumberOf(acked + 1) + i) % MAX = NumberOf(acked + 1 + i)
                 /\ acked + 1 + i \in (acked + 1)..pos
      <4>1. i \in Nat /\ acked + 1 + i \in (acked + 1)..pos
        BY <1>1, <2>1
      <4> QED
        BY <4>1, <2>1, NumberOfPlus, Zenon
    <3>3. ASSUME NEW k \in (acked + 1)..pos
          PROVE  k - (acked + 1) \in 0..(d - 1) /\ acked + 1 + (k - (acked + 1)) = k
      BY <1>1, <2>1
    <3> HIDE DEF d
    <3>4. {(NumberOf(acked + 1) + i) % MAX : i \in 0..(d - 1)}
            = {NumberOf(k) : k \in (acked + 1)..pos}
      BY <3>2, <3>3
    <3> QED
      BY <3>1, <3>4
  <2>4. /\ first_unacked' = NumberOf(pos + 1)
        /\ out_messages' = [s \in DOMAIN out_messages \ From(first_unacked, first)
                              |-> out_messages[s]]
        /\ last_unacked' = last_unacked /\ last_sent' = last_sent
    BY <1>2, <1>3, <1>4 DEF update_from_acknack
  <2>5. acked' = pos
    BY <2>1, <2>2, <2>4, <1>1
  <2> HIDE DEF d
  <2>6. ASSUME NEW n \in (acked + 1)..L, NEW k \in (acked + 1)..pos, NumberOf(n) = NumberOf(k)
        PROVE  n =< pos
    <3>1. n \in Nat /\ k \in Nat /\ n - k < MAX /\ k - n < MAX
      BY <1>1, ConstantFacts, SMTT(60) DEF L
    <3>2. n = k
      BY <3>1, <2>6, NumberOfInjective
    <3> QED
      BY <3>2
  <2>7. DOMAIN out_messages' = {NumberOf(n) : n \in (pos + 1)..L}
    <3>1. ASSUME NEW n \in (pos + 1)..L
          PROVE  n \in (acked + 1)..L /\ ~ (n =< pos)
      BY <1>1, <1>4
    <3>2. ASSUME NEW n \in (acked + 1)..L, NumberOf(n) \notin {NumberOf(k) : k \in (acked + 1)..pos}
          PROVE  n \in (pos + 1)..L
      <4>1. n \notin (acked + 1)..pos
        BY <3>2
      <4> QED
        BY <4>1, <1>1
    <3>3. DOMAIN out_messages' = {NumberOf(n) : n \in (acked + 1)..L}
                                   \ {NumberOf(k) : k \in (acked + 1)..pos}
      BY <2>3, <2>4, <1>1
    <3> QED
      BY <3>1, <3>2, <3>3, <2>6
  <2>8. \A n \in (pos + 1)..L : out_messages'[NumberOf(n)] = log[n]
    <3> SUFFICES ASSUME NEW n \in (pos + 1)..L
                 PROVE  out_messages'[NumberOf(n)] = log[n]
      OBVIOUS
    <3>1. NumberOf(n) \in DOMAIN out_messages' /\ n \in (acked + 1)..L
      BY <2>7, <1>1, <1>4
    <3> QED
      BY <3>1, <2>4, <1>1, Zenon
  <2>9. SenderInv'
    <3>1. /\ acked' =< sent' /\ sent' =< L /\ L - acked' < Depth + MaxFragments
          /\ L' = L
      BY <1>1, <1>4, <2>5, ConstantFacts, SMTT(60) DEF L
    <3>2. /\ DOMAIN out_messages' = {NumberOf(n) : n \in (acked' + 1)..L'}
          /\ \A n \in (acked' + 1)..L' : out_messages'[NumberOf(n)] = log'[n]
      BY <2>5, <2>7, <2>8, <3>1, Zenon
    <3>3. /\ last_unacked' = NumberOf(L') /\ last_sent' = NumberOf(sent')
          /\ first_unacked' = NumberOf(acked' + 1)
      BY <1>1, <2>4, <2>5, <3>1, Zenon
    <3> QED
      BY <3>1, <3>2, <3>3, Zenon DEF SenderInv, L
  <2>10. first_unacked' \in SeqNums
    BY <2>1, <2>4, NumberOfType
  <2> QED
    BY <2>4, <2>5, <2>9, <2>10, <1>4
<1>5. CASE ~ (pos =< sent /\ acked < pos)
  <2>1. UNCHANGED <<out_messages, first_unacked, last_unacked, last_sent>>
    BY <1>2, <1>3, <1>5 DEF update_from_acknack
  <2>2. acked' = acked
    <3>1. first_unacked \in Int
      BY ConstantFacts, SMTT(60) DEF TypeOK, SeqNums
    <3>2. Sub(first_unacked, first_unacked) = 0
      BY <3>1 DEF Sub
    <3> QED
      BY <2>1, <3>2, <1>1
  <2>3. SenderInv'
    BY <2>1, <2>2, Zenon DEF SenderInv
  <2> QED
    BY <2>1, <2>2, <2>3, Zenon DEF TypeOK
<1> QED
  BY <1>4, <1>5

\* process_acknack_submessage resends kept messages and drops acknowledged ones.
LEMMA RecvAcknackStep ==
  ASSUME IInv, NEW p \in net, RecvAcknack(p)
  PROVE  IInv'
<1>1. /\ TypeOK /\ LogInv /\ SenderInv /\ ReceiverInv /\ NetInv
      /\ Len(log) \in Nat /\ acked \in Nat /\ Len(delivered) \in Nat
      /\ acked =< Len(delivered) /\ Len(delivered) =< Len(log)
  BY IInvFacts
<1>2. /\ p.kind = "ACKNACK" /\ acked - p.pos =< Lifetime
      /\ Handled(p, {Data(m) : m \in get_messages(Nacked(p))})
      /\ update_from_acknack(p.first)
      /\ acked' = acked + Sub(first_unacked', first_unacked)
      /\ UNCHANGED <<inVars, draining, submitted, processed, log, delivered, sent>>
  BY DEF RecvAcknack, Fresh
<1>3. p.pos \in Nat /\ p.pos =< Len(delivered) /\ p.first = NumberOf(p.pos + 1)
  BY <1>1, <1>2 DEF TypeOK, NetInv, PacketType, PacketTrue
<1>4. /\ SenderInv'
      /\ DOMAIN out_messages' \subseteq DOMAIN out_messages
      /\ \A s \in DOMAIN out_messages' : out_messages'[s] = out_messages[s]
      /\ acked' = acked \/ (acked' = p.pos /\ acked < p.pos)
      /\ first_unacked' \in SeqNums
  <2>1. p.pos =< Len(log)
    BY <1>1, <1>3
  <2> QED
    BY <2>1, <1>1, <1>2, <1>3, AcknackInPositions, Zenon
<1>5. acked' \in Nat /\ acked =< acked' /\ acked' =< Len(delivered)
  BY <1>1, <1>3, <1>4
<1>6. NetInv' /\ \A q \in net' : PacketType(q)
  <2>1. ASSUME NEW q \in net' \ net
        PROVE  PacketType(q) /\ PacketTrue(q, log, acked', Len(delivered'))
    <3>1. q \in {Data(m) : m \in get_messages(Nacked(p))}
      BY <1>2, HandledFacts
    <3>2. PICK s \in DOMAIN out_messages : q = Data(out_messages[s])
      BY <3>1 DEF get_messages
    <3>3. PICK n \in (acked + 1)..Len(log) : s = NumberOf(n)
      BY <1>1 DEF SenderInv
    <3>4. out_messages[s] = log[n] /\ n \in 1..Len(log)
      BY <3>3, <1>1 DEF SenderInv
    <3> QED
      BY <3>2, <3>4, <1>1, DataPacket, ZenonT(60)
  <2>2. Len(delivered') \in Nat /\ Len(delivered) =< Len(delivered') /\ log' = log
    BY <1>1, <1>2
  <2> QED
    BY <1>1, <1>5, <2>1, <2>2, NetStep
<1>7. LogInv' /\ ReceiverInv'
  BY <1>1, <1>2, <1>5 DEF LogInv, ReceiverInv, inVars
<1>8. TypeOK'
  <2>1. last_unacked' = last_unacked /\ last_sent' = last_sent
    BY <1>2 DEF update_from_acknack
  <2> QED
    BY <1>1, <1>2, <1>4, <1>5, <1>6, <2>1 DEF TypeOK, inVars
<1> QED
  BY <1>4, <1>6, <1>7, <1>8, Zenon DEF IInv

\* push_message keeps a message exactly when its position is in the window after
\* the last handled one.
LEMMA AcceptableInPositions ==
  ASSUME IInv, NEW k \in Nat, k =< Len(log), Len(delivered) - k =< Lifetime
  PROVE  Acceptable(NumberOf(k))
           <=> k \in (Len(delivered) + 1)..(Len(delivered) + Depth)
<1> DEFINE h == Len(delivered)
<1>1. /\ h \in Nat /\ Len(log) \in Nat /\ acked \in Nat /\ acked =< h
      /\ Len(log) - acked < Depth + MaxFragments
      /\ last_handled = NumberOf(h)
  BY IInvFacts, Zenon DEF ReceiverInv
<1> HIDE DEF h
<1>2. Lt(NumberOf(h), NumberOf(k)) <=> h < k
  <2>1. k - h < Half /\ h - k =< Half
    BY <1>1, ConstantFacts DEF h
  <2> QED
    BY <1>1, <2>1, SerialOrder, Zenon
<1>3. AddSeq(last_handled, Depth) = NumberOf(h + Depth)
  <2>1. Depth \in 0..(Half - 1)
    BY ConstantFacts
  <2> QED
    BY <2>1, <1>1, AddSeqIsPlus, Zenon
<1>4. Lt(NumberOf(h + Depth), NumberOf(k)) <=> h + Depth < k
  <2>1. h + Depth \in Nat /\ k - (h + Depth) < Half /\ (h + Depth) - k =< Half
    BY <1>1, ConstantFacts DEF h
  <2> QED
    BY <2>1, SerialOrder, Zenon
<1>5. Acceptable(NumberOf(k)) <=> (h < k /\ ~ (h + Depth < k))
  BY <1>1, <1>2, <1>3, <1>4, Zenon DEF Acceptable, Gt, Le
<1>6. (h < k /\ ~ (h + Depth < k)) <=> k \in (h + 1)..(h + Depth)
  BY <1>1, ConstantFacts
<1> QED
  BY <1>5, <1>6, Zenon DEF h

\* push_message keeps log messages of the window only.
LEMMA RecvDataStep ==
  ASSUME IInv, NEW p \in net, RecvData(p)
  PROVE  IInv'
<1> DEFINE h == Len(delivered)
<1> DEFINE s == p.msg.seq
<1>1. /\ TypeOK /\ LogInv /\ SenderInv /\ ReceiverInv /\ NetInv
      /\ h \in Nat /\ Len(log) \in Nat /\ acked \in Nat
  BY IInvFacts, Zenon
<1>2. /\ p.kind = "DATA" /\ h - p.pos =< Lifetime
      /\ push_message(s, p.msg) /\ Handled(p, {}) /\ draining' = TRUE
      /\ UNCHANGED <<outVars, history>>
  BY Zenon DEF RecvData, Fresh
<1>3. /\ p.pos \in 1..Len(log) /\ p.pos \in Nat /\ p.pos =< Len(log)
      /\ p.msg = log[p.pos] /\ s = NumberOf(p.pos)
      /\ p.msg \in Messages /\ s \in SeqNums
  <2>1. p.pos \in 1..Len(log) /\ p.msg = log[p.pos]
    BY <1>1, <1>2, Zenon DEF NetInv, PacketTrue
  <2>2. p.msg \in Messages
    BY <2>1, <1>1 DEF TypeOK
  <2> QED
    BY <2>1, <2>2, <1>1 DEF LogInv, Messages
<1>4. Acceptable(s) => p.pos \in (h + 1)..(h + Depth)
  BY <1>2, <1>3, AcceptableInPositions, Zenon
<1>5. NetInv' /\ \A q \in net' : PacketType(q)
  <2>1. net' \subseteq net
    BY <1>2, HandledFacts
  <2>2. /\ log' = log /\ acked' \in Nat /\ acked =< acked'
        /\ Len(delivered') \in Nat /\ Len(delivered) =< Len(delivered')
    BY <1>1, <1>2 DEF history
  <2>3. \A q \in net' \ net :
          PacketType(q) /\ PacketTrue(q, log, acked', Len(delivered'))
    BY <2>1
  <2> QED
    BY <1>1, <2>2, <2>3, NetStep, Zenon
<1>6. LogInv' /\ SenderInv'
  BY <1>1, <1>2, Zenon DEF LogInv, SenderInv, outVars, history
<1> HIDE DEF s, h
<1>7. /\ \A t \in DOMAIN in_messages' :
           \/ t \in DOMAIN in_messages /\ in_messages'[t] = in_messages[t]
           \/ Acceptable(s) /\ t = s /\ in_messages'[t] = p.msg
      /\ last_announced' \in {last_announced, s}
      /\ last_handled' = last_handled /\ fragment_msg' = fragment_msg
  BY <1>2 DEF push_message
<1>8. ReceiverInv'
  <2>1. ASSUME NEW t \in DOMAIN in_messages'
        PROVE  \E n \in (h + 1)..(h + Depth) :
                 n =< Len(log) /\ t = NumberOf(n) /\ in_messages'[t] = log[n]
    <3>1. CASE t \in DOMAIN in_messages /\ in_messages'[t] = in_messages[t]
      BY <3>1, <1>1 DEF ReceiverInv, h
    <3>2. CASE Acceptable(s) /\ t = s /\ in_messages'[t] = p.msg
      BY <3>2, <1>3, <1>4, Zenon
    <3> QED
      BY <3>1, <3>2, <1>7, Zenon
  <2> QED
    BY <2>1, <1>1, <1>2, <1>7, ZenonT(60) DEF ReceiverInv, history, h
<1>9. TypeOK'
  <2>1. /\ DOMAIN in_messages' \subseteq SeqNums
        /\ \A t \in DOMAIN in_messages' : in_messages'[t] \in Messages
        /\ last_announced' \in SeqNums /\ last_handled' \in SeqNums
        /\ fragment_msg' \in Seq(Nat \X Nat)
    BY <1>1, <1>3, <1>7, Zenon DEF TypeOK
  <2> QED
    BY <1>1, <1>2, <1>5, <2>1, Zenon DEF TypeOK, outVars, history
<1> QED
  BY <1>5, <1>6, <1>8, <1>9, Zenon DEF IInv

\* pop_message finds the message after the last one handled, and no other: within
\* a window no two positions share a number.
LEMMA PopStep ==
  ASSUME IInv, Pop
  PROVE  /\ IInv'
         /\ delivered' = Append(delivered, log[Len(delivered) + 1])
         /\ in_messages[NextExpected] = log[Len(delivered) + 1] /\ Len(delivered) < Len(log)
<1> DEFINE h == Len(delivered)
<1> DEFINE m == in_messages[NextExpected]
<1>1. /\ TypeOK /\ LogInv /\ SenderInv /\ ReceiverInv /\ NetInv
      /\ h \in Nat /\ Len(log) \in Nat /\ acked \in Nat /\ acked =< h
      /\ last_handled = NumberOf(h)
  BY IInvFacts, Zenon DEF ReceiverInv
<1>2. /\ NextExpected \in DOMAIN in_messages
      /\ last_handled' = NextExpected
      /\ in_messages' = [t \in DOMAIN in_messages \ {NextExpected} |-> in_messages[t]]
      /\ last_announced' = last_announced
      /\ delivered' = Append(delivered, m)
      /\ fragment_msg' = IF m.frag THEN FragmentsAfter(m) ELSE fragment_msg
      /\ processed' = IF ~ m.frag THEN Append(processed, <<m.piece>>)
                      ELSE IF m.last THEN Append(processed, Reassembled(m))
                      ELSE processed
      /\ UNCHANGED <<outVars, draining, net, submitted, log, sent, acked>>
  BY DEF Pop, take_next
<1>3. NextExpected = NumberOf(h + 1)
  <2>1. 1 \in 0..(Half - 1)
    BY ConstantFacts
  <2> QED
    BY <2>1, <1>1, AddIsPlus DEF NextExpected
<1>4. h + 1 \in 1..Len(log) /\ m = log[h + 1] /\ m \in Messages
  <2>1. PICK n \in (h + 1)..(h + Depth) :
               n =< Len(log) /\ NextExpected = NumberOf(n) /\ m = log[n]
    BY <1>1, <1>2, Zenon DEF ReceiverInv
  <2>2. n \in Nat /\ h + 1 \in Nat /\ n - (h + 1) < MAX /\ (h + 1) - n < MAX
    BY <1>1, ConstantFacts
  <2>3. n = h + 1
    BY <2>1, <2>2, <1>3, NumberOfInjective, Zenon
  <2>4. h + 1 \in 1..Len(log)
    BY <2>1, <2>3, <1>1
  <2> QED
    BY <2>1, <2>3, <2>4, <1>1 DEF TypeOK
<1> HIDE DEF m
<1>5. /\ delivered' \in Seq(Messages) /\ Len(delivered') = h + 1
      /\ \A i \in 1..h : delivered'[i] = delivered[i]
      /\ delivered'[h + 1] = m
  <2>1. delivered \in Seq(Messages)
    BY <1>1 DEF TypeOK
  <2>2. delivered' = Append(delivered, m)
    BY <1>2, Zenon
  <2> QED
    BY <2>1, <2>2, <1>1, <1>4, AppendFacts
<1> HIDE DEF h
<1>6. ReceiverInv'
  <2>1. ASSUME NEW i \in 1..(h + 1)
        PROVE  delivered'[i] = log[i]
    <3>1. CASE i \in 1..h
      BY <3>1, <1>1, <1>5 DEF ReceiverInv, h
    <3>2. CASE i = h + 1
      BY <3>2, <1>4, <1>5
    <3> QED
      BY <3>1, <3>2, <1>1
  <2>2. ASSUME NEW t \in DOMAIN in_messages'
        PROVE  \E n \in (h + 2)..(h + 1 + Depth) :
                 n =< Len(log) /\ t = NumberOf(n) /\ in_messages'[t] = log[n]
    <3>1. t \in DOMAIN in_messages /\ t # NumberOf(h + 1) /\ in_messages'[t] = in_messages[t]
      BY <1>2, <1>3, Zenon
    <3>2. PICK n \in (h + 1)..(h + Depth) :
                 n =< Len(log) /\ t = NumberOf(n) /\ in_messages[t] = log[n]
      BY <3>1, <1>1 DEF ReceiverInv, h
    <3>3. n # h + 1
      BY <3>1, <3>2
    <3>4. n \in (h + 2)..(h + 1 + Depth)
      BY <3>3, <1>1, ConstantFacts
    <3> QED
      BY <3>1, <3>2, <3>4
  <2>3. acked' =< h + 1 /\ h + 1 =< Len(log)
    BY <1>1, <1>2, <1>4
  <2>4. log' = log /\ Len(delivered') + 1 = h + 2 /\ Len(delivered') = h + 1
    BY <1>1, <1>2, <1>5
  <2>5. \A t \in DOMAIN in_messages' :
          \E n \in (Len(delivered') + 1)..(Len(delivered') + Depth) :
            n =< Len(log') /\ t = NumberOf(n) /\ in_messages'[t] = log'[n]
    BY <2>2, <2>4, Zenon
  <2>6. \A i \in 1..Len(delivered') : delivered'[i] = log'[i]
    BY <2>1, <2>4, Zenon
  <2>7. last_handled' = NumberOf(Len(delivered'))
    BY <1>2, <1>3, <1>5
  <2>8. acked' =< Len(delivered') /\ Len(delivered') =< Len(log')
    BY <2>3, <2>4
  <2> QED
    BY <2>5, <2>6, <2>7, <2>8, Zenon DEF ReceiverInv
<1>7. LogInv' /\ SenderInv'
  BY <1>1, <1>2 DEF LogInv, SenderInv, outVars
<1>8. NetInv' /\ \A q \in net' : PacketType(q)
  <2>1. /\ log' = log /\ acked' \in Nat /\ acked =< acked'
        /\ Len(delivered') \in Nat /\ Len(delivered) =< Len(delivered')
    BY <1>1, <1>2, <1>5 DEF h
  <2>2. \A q \in net' \ net :
          PacketType(q) /\ PacketTrue(q, log, acked', Len(delivered'))
    BY <1>2
  <2> QED
    BY <1>1, <2>1, <2>2, NetStep
<1>9. TypeOK'
  <2>1. m.piece \in Nat \X Nat
    BY <1>4 DEF Messages
  <2>2. Reassembled(m) \in Seq(Nat \X Nat) /\ fragment_msg' \in Seq(Nat \X Nat)
    <3>1. fragment_msg \in Seq(Nat \X Nat)
      BY <1>1 DEF TypeOK
    <3>2. Reassembled(m) \in Seq(Nat \X Nat)
      BY <2>1, <3>1 DEF Reassembled
    <3>3. \/ fragment_msg' = fragment_msg
          \/ fragment_msg' = << >>
          \/ fragment_msg' = Reassembled(m)
      BY <1>2, Zenon DEF FragmentsAfter
    <3> QED
      BY <3>1, <3>2, <3>3, EmptyType, Zenon
  <2>3. processed' \in Seq(Seq(Nat \X Nat))
    <3>1. processed \in Seq(Seq(Nat \X Nat)) /\ <<m.piece>> \in Seq(Nat \X Nat)
      BY <2>1, <1>1 DEF TypeOK
    <3>2. \A x \in Seq(Nat \X Nat) : Append(processed, x) \in Seq(Seq(Nat \X Nat))
      BY <3>1, AppendFacts
    <3>3. processed' \in {processed, Append(processed, <<m.piece>>),
                          Append(processed, Reassembled(m))}
      BY <1>2, Zenon
    <3> QED
      BY <3>1, <3>2, <3>3, <2>2, Zenon
  <2>4. /\ DOMAIN in_messages' \subseteq SeqNums
        /\ \A t \in DOMAIN in_messages' : in_messages'[t] \in Messages
        /\ last_handled' \in SeqNums
    BY <1>1, <1>2, Zenon DEF TypeOK
  <2> QED
    BY <1>1, <1>2, <1>5, <1>8, <2>2, <2>3, <2>4, Zenon DEF TypeOK, outVars
<1>10. delivered' = Append(delivered, log[Len(delivered) + 1])
  BY <1>2, <1>4 DEF h
<1>11. in_messages[NextExpected] = log[Len(delivered) + 1] /\ Len(delivered) < Len(log)
  BY <1>1, <1>4 DEF h, m
<1> QED
  BY <1>6, <1>7, <1>8, <1>9, <1>10, <1>11, Zenon DEF IInv

\* fill_acknack acknowledges what has been popped.
LEMMA AcknackPacket ==
  ASSUME IInv, NEW announced \in SeqNums, NEW kept, NEW a
  PROVE  LET q == Acknack(last_handled, announced, kept, Len(delivered))
         IN  PacketType(q) /\ PacketTrue(q, log, a, Len(delivered))
<1> DEFINE h == Len(delivered)
<1> DEFINE q == Acknack(last_handled, announced, kept, h)
<1>1. h \in Nat /\ last_handled = NumberOf(h)
  BY IInvFacts, Zenon DEF ReceiverInv
<1>2. Add(last_handled, 1) = NumberOf(h + 1) /\ NumberOf(h + 1) \in SeqNums
  <2>1. 1 \in 0..(Half - 1) /\ h + 1 \in Nat
    BY ConstantFacts, <1>1
  <2> QED
    BY <2>1, <1>1, AddIsPlus, NumberOfType, Zenon
<1>3. NackBitmap(last_handled, announced, kept) \in SUBSET (0..(NackBits - 1))
  BY Zenon DEF NackBitmap
<1>4. q = [kind |-> "ACKNACK", pos |-> h, first |-> NumberOf(h + 1),
           bitmap |-> NackBitmap(last_handled, announced, kept)]
  BY <1>2, Zenon DEF Acknack
<1>5. q.kind = "ACKNACK" /\ q.pos = h /\ q.first = NumberOf(h + 1)
  BY <1>4
<1>6. q \in [kind : {"ACKNACK"}, pos : Nat, first : SeqNums,
             bitmap : SUBSET (0..(NackBits - 1))]
  BY <1>1, <1>2, <1>3, <1>4, SMTT(60)
<1>7. PacketType(q)
  BY <1>5, <1>6, Zenon DEF PacketType
<1> HIDE DEF q
<1>8. PacketTrue(q, log, a, h)
  BY <1>1, <1>5 DEF PacketTrue
<1> QED
  BY <1>7, <1>8, Zenon DEF q

\* The end of the loop in process_input_packet only sends an ACKNACK.
LEMMA EndDrainStep ==
  ASSUME IInv, EndDrain
  PROVE  IInv'
<1>1. /\ TypeOK /\ LogInv /\ SenderInv /\ ReceiverInv /\ NetInv
      /\ Len(delivered) \in Nat /\ acked \in Nat
  BY IInvFacts, Zenon
<1> DEFINE q == Acknack(last_handled, last_announced, DOMAIN in_messages, Len(delivered))
<1>2. draining' = FALSE /\ Transmit(net, {q}) /\ UNCHANGED <<outVars, inVars, history>>
  BY Zenon DEF EndDrain
<1>3. PacketType(q) /\ PacketTrue(q, log, acked', Len(delivered))
  <2>1. last_announced \in SeqNums
    BY <1>1, Zenon DEF TypeOK
  <2> QED
    BY <2>1, AcknackPacket, Zenon
<1> HIDE DEF q
<1>4. NetInv' /\ \A r \in net' : PacketType(r)
  <2>1. net' \subseteq net \cup {q}
    BY <1>2, TransmitFacts, Zenon
  <2>2. /\ log' = log /\ acked' \in Nat /\ acked =< acked'
        /\ Len(delivered') \in Nat /\ Len(delivered) =< Len(delivered')
        /\ Len(delivered') = Len(delivered)
    BY <1>1, <1>2 DEF history
  <2>3. \A r \in net' \ net :
          PacketType(r) /\ PacketTrue(r, log, acked', Len(delivered'))
    BY <1>3, <2>1, <2>2, Zenon
  <2> QED
    BY <1>1, <2>2, <2>3, NetStep, Zenon
<1>5. LogInv' /\ SenderInv' /\ ReceiverInv'
  BY <1>1, <1>2 DEF LogInv, SenderInv, ReceiverInv, outVars, inVars, history
<1>6. TypeOK'
  BY <1>1, <1>2, <1>4, Zenon DEF TypeOK, outVars, inVars, history
<1> QED
  BY <1>4, <1>5, <1>6, Zenon DEF IInv

\* A heartbeat that is not too old names a first message no later than the one
\* the receiver expects, so update_from_heartbeat does not move last_handled_.
LEMMA RecvHeartbeatStep ==
  ASSUME IInv, NEW p \in net, RecvHeartbeat(p)
  PROVE  IInv' /\ last_handled' = last_handled
<1> DEFINE h == Len(delivered)
<1>1. /\ TypeOK /\ LogInv /\ SenderInv /\ ReceiverInv /\ NetInv
      /\ h \in Nat /\ acked \in Nat /\ acked =< h
      /\ last_handled = NumberOf(h) /\ last_announced \in SeqNums
  <2>1. TypeOK /\ ReceiverInv
    BY IInvFacts, Zenon
  <2>2. last_handled = NumberOf(h) /\ last_announced \in SeqNums
    BY <2>1, Zenon DEF ReceiverInv, TypeOK
  <2> QED
    BY <2>2, IInvFacts, Zenon
<1> DEFINE q == Acknack(last_handled', last_announced', DOMAIN in_messages, h)
<1>2. /\ p.kind = "HEARTBEAT" /\ h - p.pos =< Lifetime
      /\ update_from_heartbeat(p.first, p.last) /\ Handled(p, {q})
      /\ UNCHANGED <<outVars, draining, history>>
  BY Zenon DEF RecvHeartbeat, Fresh
<1>3. /\ p.pos \in Nat /\ p.pos =< acked /\ p.first = NumberOf(p.pos + 1)
      /\ p.last \in SeqNums
  BY <1>1, <1>2, Zenon DEF TypeOK, NetInv, PacketType, PacketTrue
<1>4. ~ Lt(NextExpected, p.first)
  <2>1. 1 \in 0..(Half - 1)
    BY ConstantFacts
  <2>2. NextExpected = NumberOf(h + 1)
    BY <2>1, <1>1, AddIsPlus, Zenon DEF NextExpected
  <2>3. /\ h + 1 \in Nat /\ p.pos + 1 \in Nat
        /\ (p.pos + 1) - (h + 1) < Half /\ (h + 1) - (p.pos + 1) =< Half
        /\ ~ (h + 1 < p.pos + 1)
    BY <1>1, <1>2, <1>3, ConstantFacts, SMTT(30)
  <2> QED
    BY <2>2, <2>3, <1>3, SerialOrder, Zenon
<1>5. /\ last_handled' = last_handled /\ last_announced' \in SeqNums
      /\ in_messages' = in_messages /\ fragment_msg' = fragment_msg
  BY <1>1, <1>3, <1>2, <1>4, Zenon DEF update_from_heartbeat
<1>6. PacketType(q) /\ PacketTrue(q, log, acked', h)
  BY <1>5, AcknackPacket, Zenon
<1> HIDE DEF q
<1>7. NetInv' /\ \A r \in net' : PacketType(r)
  <2>1. net' \subseteq net \cup {q}
    BY <1>2, HandledFacts, Zenon
  <2>2. /\ log' = log /\ acked' \in Nat /\ acked =< acked'
        /\ Len(delivered') \in Nat /\ Len(delivered) =< Len(delivered')
        /\ Len(delivered') = h
    BY <1>1, <1>2 DEF history
  <2>3. \A r \in net' \ net :
          PacketType(r) /\ PacketTrue(r, log, acked', Len(delivered'))
    BY <1>6, <2>1, <2>2, Zenon
  <2> QED
    BY <1>1, <2>2, <2>3, NetStep, Zenon
<1>8. LogInv' /\ SenderInv' /\ ReceiverInv'
  BY <1>1, <1>2, <1>5 DEF LogInv, SenderInv, ReceiverInv, outVars, history
<1>9. TypeOK'
  BY <1>1, <1>2, <1>5, <1>7, Zenon DEF TypeOK, outVars, history
<1> QED
  BY <1>5, <1>7, <1>8, <1>9, Zenon DEF IInv

\* Losing a packet leaves everything else as it is.
LEMMA LoseStep ==
  ASSUME IInv, NEW p \in net, Lose(p)
  PROVE  IInv'
<1>1. TypeOK /\ LogInv /\ SenderInv /\ ReceiverInv /\ NetInv
  BY IInvFacts, Zenon
<1>2. net' \subseteq net /\ UNCHANGED <<outVars, inVars, draining, history>>
  BY Zenon DEF Lose
<1>3. LogInv' /\ SenderInv' /\ ReceiverInv' /\ NetInv'
  BY <1>1, <1>2, Zenon DEF LogInv, SenderInv, ReceiverInv, NetInv, outVars, inVars, history
<1>4. TypeOK'
  BY <1>1, <1>2, Zenon DEF TypeOK, outVars, inVars, history
<1> QED
  BY <1>3, <1>4, Zenon DEF IInv

-----------------------------------------------------------------------------
(* The theorems. *)

\* The initial state.
LEMMA InitInv ==
  ASSUME Init
  PROVE  IInv
<1>1. /\ log = << >> /\ delivered = << >> /\ acked = 0 /\ sent = 0 /\ net = {}
      /\ submitted = << >> /\ processed = << >> /\ draining = FALSE
      /\ out_messages = << >> /\ last_unacked = MAX - 1 /\ last_sent = MAX - 1
      /\ first_unacked = 0
      /\ in_messages = << >> /\ last_handled = MAX - 1 /\ last_announced = MAX - 1
      /\ fragment_msg = << >>
  BY Zenon DEF Init, OutInit, InInit
<1>2. NumberOf(0) = MAX - 1 /\ NumberOf(1) = 0
  <2>1. NumberOf(0) = MAX - 1
    <3>1. MAX \in Nat /\ MAX > 0 /\ MAX * 0 + (MAX - 1) = 0 + MAX - 1
          /\ MAX - 1 \in 0..(MAX - 1)
      BY ConstantFacts
    <3> QED
      BY <3>1, ModUnique, Zenon DEF NumberOf
  <2>2. NumberOf(0 + 1) = IF NumberOf(0) + 1 < MAX THEN NumberOf(0) + 1
                          ELSE NumberOf(0) + 1 - MAX
    <3>1. 1 \in 0..MAX
      BY ConstantFacts
    <3> QED
      BY <3>1, NumberOfStep
  <2> QED
    BY <2>1, <2>2, ConstantFacts
<1>3. MAX - 1 \in SeqNums /\ 0 \in SeqNums
  BY ConstantFacts DEF SeqNums
<1>4. TypeOK
  <2>1. /\ submitted \in Seq(Seq(Nat \X Nat)) /\ processed \in Seq(Seq(Nat \X Nat))
        /\ fragment_msg \in Seq(Nat \X Nat)
        /\ log \in Seq(Messages) /\ delivered \in Seq(Messages)
    BY <1>1, EmptyType
  <2>2. DOMAIN out_messages = {} /\ DOMAIN in_messages = {}
    BY <1>1
  <2> QED
    BY <1>1, <1>3, <2>1, <2>2, Zenon DEF TypeOK
<1>5. LogInv /\ NetInv
  BY <1>1 DEF LogInv, NetInv
<1>6. SenderInv
  <2>1. Len(log) = 0 /\ (acked + 1)..Len(log) = {} /\ Depth + MaxFragments > 0
    BY <1>1, ConstantFacts
  <2>2. DOMAIN out_messages = {}
    BY <1>1
  <2> QED
    BY <1>1, <1>2, <2>1, <2>2 DEF SenderInv
<1>7. ReceiverInv
  <2>1. Len(log) = 0 /\ Len(delivered) = 0 /\ DOMAIN in_messages = {}
    BY <1>1
  <2> QED
    BY <1>1, <1>2, <2>1 DEF ReceiverInv
<1> QED
  BY <1>4, <1>5, <1>6, <1>7, Zenon DEF IInv

\* Every step of the stream preserves the invariant.
LEMMA NextInv ==
  ASSUME IInv, [Next]_vars
  PROVE  IInv'
<1>1. CASE UNCHANGED vars
  <2>1. TypeOK /\ LogInv /\ SenderInv /\ ReceiverInv /\ NetInv
    BY IInvFacts, Zenon
  <2>2. UNCHANGED <<outVars, inVars, draining, net, history>>
    BY <1>1 DEF vars
  <2>3. LogInv' /\ SenderInv' /\ ReceiverInv' /\ NetInv'
    BY <2>1, <2>2 DEF LogInv, SenderInv, ReceiverInv, NetInv, outVars, inVars, history
  <2>4. TypeOK'
    BY <2>1, <2>2 DEF TypeOK, outVars, inVars, history
  <2> QED
    BY <2>3, <2>4 DEF IInv
<1>2. CASE \E n \in 1..MaxFragments : Push(n)
  BY <1>2, PushStep, Zenon
<1>3. CASE SendNext
  BY <1>3, SendNextStep, Zenon
<1>4. CASE SendHeartbeat
  BY <1>4, SendHeartbeatStep
<1>5. CASE \E p \in net : RecvAcknack(p)
  BY <1>5, RecvAcknackStep, Zenon
<1>6. CASE \E p \in net : RecvData(p)
  BY <1>6, RecvDataStep, Zenon
<1>7. CASE Pop
  BY <1>7, PopStep
<1>8. CASE EndDrain
  BY <1>8, EndDrainStep, Zenon
<1>9. CASE \E p \in net : RecvHeartbeat(p)
  BY <1>9, RecvHeartbeatStep
<1>10. CASE \E p \in net : Lose(p)
  BY <1>10, LoseStep
<1> QED
  BY <1>1, <1>2, <1>3, <1>4, <1>5, <1>6, <1>7, <1>8, <1>9, <1>10, Zenon DEF Next

\* The inductive invariant holds in every reachable state.
THEOREM Invariance == Spec => []IInv
<1>1. Init => IInv
  BY InitInv, Zenon
<1>2. IInv /\ [Next]_vars => IInv'
  BY NextInv
<1> QED
  BY <1>1, <1>2, PTL DEF Spec

\* Type correctness of both stream objects and of the packets between them.
THEOREM TypeCorrect == Spec => []TypeOK
<1>1. IInv => TypeOK
  BY Zenon DEF IInv
<1> QED
  BY <1>1, Invariance, PTL

\* pop_message hands over the messages of push_submessage in order, without gaps
\* or repetitions, for every window and every number of turns of the numbers.
THEOREM InOrder == Spec => []InOrderDelivery
<1>1. IInv => InOrderDelivery
  BY Zenon DEF IInv, ReceiverInv, InOrderDelivery
<1> QED
  BY <1>1, Invariance, PTL

\* update_from_acknack never drops a message that has not been popped.
THEOREM NothingLost == Spec => []UndeliveredIsKept
<1>1. IInv => UndeliveredIsKept
  <2> SUFFICES ASSUME IInv, NEW n \in (Len(delivered) + 1)..Len(log)
               PROVE  \E s \in DOMAIN out_messages : out_messages[s] = log[n]
    BY Zenon DEF UndeliveredIsKept
  <2>1. n \in (acked + 1)..Len(log)
    BY IInvFacts
  <2>2. SenderInv
    BY IInvFacts, Zenon
  <2>3. NumberOf(n) \in DOMAIN out_messages /\ out_messages[NumberOf(n)] = log[n]
    BY <2>1, <2>2 DEF SenderInv
  <2> QED
    BY <2>3, Zenon
<1> QED
  BY <1>1, Invariance, PTL

\* get_next_message finds the message it is about to hand out.
THEOREM NextToSend == Spec => []NextToSendIsKept
<1>1. IInv => NextToSendIsKept
  <2> SUFFICES ASSUME IInv, Lt(last_sent, last_unacked)
               PROVE  Add(last_sent, 1) \in DOMAIN out_messages
    BY DEF NextToSendIsKept
  <2>1. /\ SenderInv /\ Len(log) \in Nat /\ acked \in Nat /\ sent \in Nat
        /\ acked =< sent /\ sent =< Len(log) /\ Len(log) - acked < Depth + MaxFragments
    BY IInvFacts, Zenon
  <2>2. Lt(NumberOf(sent), NumberOf(Len(log)))
    BY <2>1, Zenon DEF SenderInv
  <2>3. Len(log) - sent < Half /\ sent - Len(log) =< Half
    BY <2>1, ConstantFacts
  <2>4. sent < Len(log)
    BY <2>1, <2>2, <2>3, SerialOrder, Zenon
  <2>5. 1 \in 0..(Half - 1) /\ sent + 1 \in (acked + 1)..Len(log)
    BY <2>1, <2>4, ConstantFacts
  <2>6. Add(last_sent, 1) = NumberOf(sent + 1)
    BY <2>1, <2>5, AddIsPlus, Zenon DEF SenderInv
  <2> QED
    BY <2>1, <2>5, <2>6, Zenon DEF SenderInv
<1> QED
  BY <1>1, Invariance, PTL

\* push_message keeps messages of the receiving window only.
THEOREM InputIsBounded == Spec => []BoundedInput
<1>1. IInv => BoundedInput
  <2> SUFFICES ASSUME IInv, NEW s \in DOMAIN in_messages
               PROVE  in_messages[s].pos \in (Len(delivered) + 1)..(Len(delivered) + Depth)
    BY Zenon DEF BoundedInput
  <2>1. LogInv /\ ReceiverInv /\ Len(delivered) \in Nat /\ Len(log) \in Nat
    BY IInvFacts, Zenon
  <2>2. PICK n \in (Len(delivered) + 1)..(Len(delivered) + Depth) :
               n =< Len(log) /\ in_messages[s] = log[n]
    BY <2>1 DEF ReceiverInv
  <2>3. n \in 1..Len(log)
    BY <2>1, <2>2
  <2> QED
    BY <2>1, <2>2, <2>3, Zenon DEF LogInv
<1> QED
  BY <1>1, Invariance, PTL

\* No heartbeat makes update_from_heartbeat skip a message: last_handled_ moves
\* in pop_message only.
THEOREM HandledByPop == Spec => HandledOnlyByPop
<1> DEFINE A == last_handled' # last_handled => Len(delivered') = Len(delivered) + 1
<1>1. ASSUME IInv, [Next]_vars
      PROVE  [A]_vars
  <2> SUFFICES ASSUME last_handled' # last_handled
               PROVE  Len(delivered') = Len(delivered) + 1
    OBVIOUS
  <2>1. CASE Pop
    <3>1. delivered \in Seq(Messages)
      BY <1>1, IInvFacts DEF TypeOK
    <3>2. delivered' = Append(delivered, log[Len(delivered) + 1])
      BY <1>1, <2>1, PopStep
    <3> QED
      BY <3>1, <3>2
  <2>2. ASSUME NEW p \in net, RecvHeartbeat(p)
        PROVE  FALSE
    BY <1>1, <2>2, RecvHeartbeatStep
  <2>3. ASSUME NEW p \in net, RecvData(p)
        PROVE  FALSE
    BY <2>3 DEF RecvData, push_message
  <2>4. CASE UNCHANGED vars
    BY <2>4 DEF vars, inVars
  <2> QED
    BY <1>1, <2>1, <2>2, <2>3, <2>4, Zenon
    DEF Next, Push, SendNext, SendHeartbeat, RecvAcknack, EndDrain, Lose, inVars
<1>2. IInv /\ [Next]_vars => [A]_vars
  BY <1>1
<1> QED
  BY <1>2, Invariance, PTL DEF Spec, HandledOnlyByPop

-----------------------------------------------------------------------------
(* What is announced has been pushed. *)

\* Where the receiver stands still, the announced number stays that of a pushed
\* message, and packets that were right remain so.
LEMMA AnnouncedUnchanged ==
  ASSUME IInv, AnnouncedInv, UNCHANGED <<last_announced, delivered, in_messages>>,
         Len(log') \in Nat, Len(log) =< Len(log'),
         \A q \in net' \ net :
           q.kind = "HEARTBEAT" => \E n \in q.pos..Len(log') : q.last = NumberOf(n)
  PROVE  AnnouncedInv'
<1>1. PICK a \in Len(delivered)..Len(log) :
        last_announced = NumberOf(a) /\ \A s \in DOMAIN in_messages : in_messages[s].pos =< a
  BY DEF AnnouncedInv
<1>2. Len(log) \in Nat /\ Len(delivered) \in Nat
  BY IInvFacts
<1>3. a \in Len(delivered)..Len(log')
  BY <1>2
<1>4. ASSUME NEW q \in net', q.kind = "HEARTBEAT"
      PROVE  \E n \in q.pos..Len(log') : q.last = NumberOf(n)
  <2>1. CASE q \in net
    <3>1. q.pos \in Nat
      BY <2>1, <1>4, IInvFacts, Zenon DEF TypeOK, PacketType
    <3>2. PICK n \in q.pos..Len(log) : q.last = NumberOf(n)
      BY <2>1, <1>4 DEF AnnouncedInv
    <3>3. n \in q.pos..Len(log')
      BY <1>2, <3>1
    <3> QED
      BY <3>2, <3>3, Zenon
  <2> QED
    BY <2>1, <1>4
<1> QED
  BY <1>1, <1>3, <1>4, Zenon DEF AnnouncedInv

\* The same for what ACKNACKs ask for.
LEMMA NacksKept ==
  ASSUME IInv, NacksAreOutstanding, Len(log') \in Nat, Len(log) =< Len(log'),
         \A q \in net' \ net :
           q.kind = "ACKNACK" => \A i \in q.bitmap : q.pos + i + 1 =< Len(log')
  PROVE  NacksAreOutstanding'
<1> SUFFICES ASSUME NEW q \in net', q.kind = "ACKNACK", NEW i \in q.bitmap
             PROVE  q.pos + i + 1 =< Len(log')
  BY DEF NacksAreOutstanding
<1>1. CASE q \in net
  <2>1. q.pos \in Nat /\ i \in Nat /\ Len(log) \in Nat
    <3>1. q.bitmap \in SUBSET (0..(NackBits - 1)) /\ q.pos \in Nat
      BY <1>1, IInvFacts, Zenon DEF TypeOK, PacketType
    <3> QED
      BY <3>1, IInvFacts, ConstantFacts
  <2>2. q.pos + i + 1 =< Len(log)
    BY <1>1 DEF NacksAreOutstanding
  <2> QED
    BY <2>1, <2>2
<1> QED
  BY <1>1

\* fill_acknack asks for messages up to the announced one only.
LEMMA AcknackAsks ==
  ASSUME IInv, NEW a \in Len(delivered)..Len(log), NEW kept,
         NEW i \in NackBitmap(last_handled, NumberOf(a), kept)
  PROVE  Len(delivered) + i + 1 =< Len(log)
<1> DEFINE h == Len(delivered)
<1>1. /\ h \in Nat /\ Len(log) \in Nat /\ acked \in Nat /\ acked =< h
      /\ Len(log) - acked < Depth + MaxFragments /\ last_handled = NumberOf(h)
  BY IInvFacts DEF ReceiverInv
<1>2. i \in 0..(NackBits - 1) /\ Lt(AddSeq(last_handled, i), NumberOf(a))
  BY DEF NackBitmap
<1>3. i \in 0..(Half - 1) /\ i \in Nat /\ h + i \in Nat /\ a \in Nat
  BY <1>1, <1>2, ConstantFacts
<1>4. Lt(NumberOf(h + i), NumberOf(a))
  BY <1>1, <1>2, <1>3, AddSeqIsPlus
<1>5. a - (h + i) < Half /\ (h + i) - a =< Half
  BY <1>1, <1>3, ConstantFacts
<1>6. h + i < a
  BY <1>3, <1>4, <1>5, SerialOrder
<1> QED
  BY <1>1, <1>3, <1>6

\* push_message announces a message of the window, or leaves the announced one.
LEMMA RecvDataAnnounced ==
  ASSUME IInv, AnnouncedInv, NEW p \in net, RecvData(p)
  PROVE  AnnouncedInv'
<1> DEFINE h == Len(delivered)
<1> DEFINE k == p.pos
<1>1. /\ TypeOK /\ LogInv /\ NetInv /\ h \in Nat /\ Len(log) \in Nat /\ acked \in Nat /\ acked =< h
      /\ h =< Len(log) /\ Len(log) - acked < Depth + MaxFragments
  BY IInvFacts
<1>2. /\ p.kind = "DATA" /\ h - k =< Lifetime
      /\ push_message(p.msg.seq, p.msg) /\ net' \subseteq net
      /\ UNCHANGED <<outVars, history>>
  BY HandledFacts DEF RecvData, Fresh
<1>3. k \in 1..Len(log) /\ k \in Nat /\ p.msg.seq = NumberOf(k) /\ p.msg.pos = k
  <2>1. k \in 1..Len(log) /\ p.msg = log[k]
    BY <1>1, <1>2, Zenon DEF NetInv, PacketTrue
  <2> QED
    BY <2>1, <1>1 DEF LogInv
<1>4. UNCHANGED <<log, delivered>>
  BY <1>2 DEF history
<1>5. CASE ~ Acceptable(NumberOf(k))
  <2>1. UNCHANGED <<last_announced, delivered, in_messages>>
    BY <1>2, <1>3, <1>4, <1>5 DEF push_message
  <2> QED
    BY <2>1, <1>1, <1>2, <1>4, AnnouncedUnchanged
<1>6. CASE Acceptable(NumberOf(k))
  <2>1. k \in (h + 1)..(h + Depth)
    BY <1>2, <1>3, <1>6, AcceptableInPositions
  <2>2. PICK a \in h..Len(log) :
          last_announced = NumberOf(a) /\ \A s \in DOMAIN in_messages : in_messages[s].pos =< a
    BY DEF AnnouncedInv
  <2>3. a \in Nat /\ k - a < Half /\ a - k =< Half
    BY <1>1, <2>1, ConstantFacts
  <2>4. Gt(NumberOf(k), last_announced) <=> a < k
    BY <1>3, <2>2, <2>3, SerialOrder DEF Gt
  <2> DEFINE b == IF a < k THEN k ELSE a
  <2>5. b \in h..Len(log) /\ a =< b /\ k =< b
    BY <1>1, <1>3, <2>1, <2>3
  <2>6. last_announced' = NumberOf(b)
    BY <1>2, <1>3, <1>6, <2>2, <2>4 DEF push_message
  <2>7. ASSUME NEW t \in DOMAIN in_messages'
        PROVE  in_messages'[t].pos =< b
    <3>1. \/ t \in DOMAIN in_messages /\ in_messages'[t] = in_messages[t]
          \/ in_messages'[t] = p.msg
      BY <1>2, <1>3, <1>6, Zenon DEF push_message
    <3>2. CASE in_messages'[t] = p.msg
      BY <3>2, <1>3, <2>5
    <3>3. CASE t \in DOMAIN in_messages /\ in_messages'[t] = in_messages[t]
      <4>1. in_messages[t].pos \in Nat /\ in_messages[t].pos =< a
        BY <3>3, <1>1, <2>2 DEF TypeOK, Messages
      <4> QED
        BY <3>3, <4>1, <2>3, <2>5, <1>1
    <3> QED
      BY <3>1, <3>2, <3>3
  <2>8. \A q \in net' : q.kind = "HEARTBEAT" => \E n \in q.pos..Len(log') : q.last = NumberOf(n)
    BY <1>2, <1>4 DEF AnnouncedInv
  <2> HIDE DEF b
  <2> QED
    BY <2>5, <2>6, <2>7, <2>8, <1>4, Zenon DEF AnnouncedInv
<1> QED
  BY <1>5, <1>6

\* pop_message hands over a message that was announced.
LEMMA PopAnnounced ==
  ASSUME IInv, AnnouncedInv, Pop
  PROVE  AnnouncedInv'
<1> DEFINE h == Len(delivered)
<1>1. TypeOK /\ LogInv /\ ReceiverInv /\ h \in Nat /\ Len(log) \in Nat /\ IInv'
  BY IInvFacts, PopStep
<1>2. /\ NextExpected \in DOMAIN in_messages
      /\ in_messages' = [t \in DOMAIN in_messages \ {NextExpected} |-> in_messages[t]]
      /\ UNCHANGED <<last_announced, log, net>>
  BY DEF Pop, take_next
<1>3. PICK a \in h..Len(log) :
        last_announced = NumberOf(a) /\ \A s \in DOMAIN in_messages : in_messages[s].pos =< a
  BY DEF AnnouncedInv
<1>4. in_messages[NextExpected].pos \in Nat /\ in_messages[NextExpected].pos > h
  <2>1. PICK n \in (h + 1)..(h + Depth) : n =< Len(log) /\ in_messages[NextExpected] = log[n]
    BY <1>1, <1>2 DEF ReceiverInv
  <2>2. n \in 1..Len(log)
    BY <1>1, <2>1
  <2> QED
    BY <1>1, <2>1, <2>2 DEF LogInv
<1>5. Len(delivered') = h + 1
  <2>1. delivered \in Seq(Messages) /\ delivered' = Append(delivered, log[h + 1])
    BY <1>1, PopStep DEF TypeOK
  <2> QED
    BY <2>1
<1>6. a \in Len(delivered')..Len(log')
  BY <1>1, <1>2, <1>3, <1>4, <1>5
<1>7. \A t \in DOMAIN in_messages' : in_messages'[t].pos =< a
  BY <1>2, <1>3
<1> QED
  BY <1>2, <1>3, <1>6, <1>7, Zenon DEF AnnouncedInv

\* update_from_heartbeat announces what the heartbeat names, unless more is announced.
LEMMA HeartbeatAnnounced ==
  ASSUME IInv, AnnouncedInv, NEW p \in net, RecvHeartbeat(p)
  PROVE  \E b \in Len(delivered)..Len(log) :
           last_announced' = NumberOf(b) /\ \A s \in DOMAIN in_messages : in_messages[s].pos =< b
<1> DEFINE h == Len(delivered)
<1>1. /\ TypeOK /\ NetInv /\ h \in Nat /\ Len(log) \in Nat /\ acked \in Nat /\ acked =< h
      /\ h =< Len(log) /\ Len(log) - acked < Depth + MaxFragments
  BY IInvFacts
<1>2. /\ p.kind = "HEARTBEAT" /\ h - p.pos =< Lifetime
      /\ update_from_heartbeat(p.first, p.last)
  BY DEF RecvHeartbeat, Fresh
<1>3. p.pos \in Nat /\ p.pos =< acked
  BY <1>1, <1>2, Zenon DEF TypeOK, NetInv, PacketType, PacketTrue
<1>4. PICK n \in p.pos..Len(log) : p.last = NumberOf(n)
  BY <1>2 DEF AnnouncedInv
<1>5. PICK a \in h..Len(log) :
        last_announced = NumberOf(a) /\ \A s \in DOMAIN in_messages : in_messages[s].pos =< a
  BY DEF AnnouncedInv
<1>6. n \in Nat /\ a \in Nat /\ n - a < Half /\ a - n =< Half
  BY <1>1, <1>2, <1>3, <1>4, <1>5, ConstantFacts
<1>7. Lt(last_announced, p.last) <=> a < n
  BY <1>4, <1>5, <1>6, SerialOrder
<1> DEFINE b == IF a < n THEN n ELSE a
<1>8. b \in h..Len(log) /\ a =< b /\ b \in Nat
  BY <1>1, <1>4, <1>5, <1>6
<1>9. last_announced' = NumberOf(b)
  BY <1>2, <1>4, <1>5, <1>7 DEF update_from_heartbeat
<1> HIDE DEF b
<1>10. ASSUME NEW s \in DOMAIN in_messages
       PROVE  in_messages[s].pos =< b
  <2>1. in_messages[s].pos \in Nat /\ in_messages[s].pos =< a
    BY <1>1, <1>5 DEF TypeOK, Messages
  <2> QED
    BY <2>1, <1>6, <1>8
<1> QED
  BY <1>8, <1>9, <1>10

\* Every step keeps what is announced and what is asked for among the messages pushed.
LEMMA NextAnnounced ==
  ASSUME IInv, AnnouncedInv, NacksAreOutstanding, [Next]_vars
  PROVE  AnnouncedInv' /\ NacksAreOutstanding'
<1>1. /\ TypeOK /\ SenderInv /\ ReceiverInv /\ Len(log) \in Nat /\ acked \in Nat
      /\ Len(delivered) \in Nat /\ acked =< Len(log) /\ IInv' /\ Len(log') \in Nat
  <2>1. IInv' /\ TypeOK'
    BY NextInv DEF IInv
  <2>2. Len(log') \in Nat
    BY <2>1 DEF TypeOK
  <2> QED
    BY <2>1, <2>2, IInvFacts
<1>2. ASSUME UNCHANGED <<last_announced, delivered, in_messages>>, Len(log) =< Len(log'),
             \A q \in net' \ net : q.kind = "DATA"
      PROVE  AnnouncedInv' /\ NacksAreOutstanding'
  BY <1>1, <1>2, AnnouncedUnchanged, NacksKept
<1>3. CASE UNCHANGED vars
  BY <1>1, <1>2, <1>3 DEF vars, inVars, history
<1>4. CASE \E n \in 1..MaxFragments : Push(n)
  <2>1. PICK n \in 1..MaxFragments : Push(n)
    BY <1>4
  <2> DEFINE ms == Fragments([j \in 1..n |-> <<Len(submitted) + 1, j>>], Len(log))
  <2>2. log' = log \o ms /\ UNCHANGED <<inVars, delivered, net>>
    BY <2>1 DEF Push
  <2>3. log \in Seq(Messages) /\ ms \in Seq(Messages)
    <3>1. Len(submitted) + 1 \in Nat /\ n \in Nat /\ log \in Seq(Messages)
      BY <1>1, ConstantFacts DEF TypeOK
    <3> DEFINE pieces == [j \in 1..n |-> <<Len(submitted) + 1, j>>]
    <3>2. pieces \in Seq(Nat \X Nat) /\ Len(pieces) = n
      BY <3>1
    <3> HIDE DEF pieces
    <3>3. Fragments(pieces, Len(log)) \in Seq(Messages)
      BY <3>2, <1>1, FragmentsInPositions, Zenon
    <3> QED
      BY <3>1, <3>3 DEF pieces
  <2> HIDE DEF ms
  <2>4. Len(log') = Len(log) + Len(ms) /\ Len(ms) \in Nat
    BY <2>2, <2>3, ConcatFacts
  <2> QED
    BY <2>2, <2>4, <1>1, <1>2 DEF inVars
<1>5. CASE SendNext
  <2>1. net' \subseteq net \cup {Data(NextMessage)} /\ UNCHANGED <<inVars, log, delivered>>
    BY <1>5, TransmitFacts DEF SendNext
  <2> QED
    BY <2>1, <1>1, <1>2 DEF inVars, Data
<1>6. CASE SendHeartbeat
  <2>1. net' \subseteq net \cup {Heartbeat} /\ UNCHANGED <<inVars, log, delivered>>
    BY <1>6, TransmitFacts DEF SendHeartbeat, history
  <2>2. Heartbeat.kind = "HEARTBEAT" /\ Heartbeat.pos = acked /\ Heartbeat.last = NumberOf(Len(log))
    BY <1>1 DEF Heartbeat, SenderInv
  <2>3. Len(log) \in Heartbeat.pos..Len(log')
    BY <1>1, <2>1, <2>2
  <2>4. AnnouncedInv'
    BY <2>1, <2>2, <2>3, <1>1, AnnouncedUnchanged DEF inVars
  <2>5. NacksAreOutstanding'
    BY <2>1, <2>2, <1>1, NacksKept
  <2> QED
    BY <2>4, <2>5
<1>7. CASE \E p \in net : RecvAcknack(p)
  <2>1. PICK p \in net : RecvAcknack(p)
    BY <1>7
  <2>2. /\ net' \subseteq net \cup {Data(m) : m \in get_messages(Nacked(p))}
        /\ UNCHANGED <<inVars, log, delivered>>
    BY <2>1, HandledFacts DEF RecvAcknack
  <2>3. \A q \in net' \ net : q.kind = "DATA"
    BY <2>2 DEF Data
  <2> QED
    BY <2>2, <2>3, <1>1, <1>2 DEF inVars
<1>8. CASE \E p \in net : RecvData(p)
  <2>1. PICK p \in net : RecvData(p)
    BY <1>8
  <2>2. net' \subseteq net /\ log' = log
    BY <2>1, HandledFacts DEF RecvData, history
  <2>3. NacksAreOutstanding'
    BY <2>2, <1>1, NacksKept
  <2> QED
    BY <2>1, <2>3, RecvDataAnnounced
<1>9. CASE Pop
  <2>1. net' = net /\ log' = log
    BY <1>9 DEF Pop
  <2>2. NacksAreOutstanding'
    BY <2>1, <1>1, NacksKept
  <2> QED
    BY <2>2, <1>9, PopAnnounced
<1>10. CASE EndDrain
  <2> DEFINE r == Acknack(last_handled, last_announced, DOMAIN in_messages, Len(delivered))
  <2>1. net' \subseteq net \cup {r} /\ UNCHANGED <<inVars, log, delivered>>
    BY <1>10, TransmitFacts DEF EndDrain, history
  <2>2. /\ r.kind = "ACKNACK" /\ r.pos = Len(delivered)
        /\ r.bitmap = NackBitmap(last_handled, last_announced, DOMAIN in_messages)
    BY DEF Acknack
  <2>3. PICK a \in Len(delivered)..Len(log) : last_announced = NumberOf(a)
    BY DEF AnnouncedInv
  <2> HIDE DEF r
  <2>4. \A i \in r.bitmap : r.pos + i + 1 =< Len(log')
    BY <2>1, <2>2, <2>3, AcknackAsks
  <2>5. AnnouncedInv'
    BY <2>1, <2>2, <1>1, AnnouncedUnchanged DEF inVars
  <2>6. NacksAreOutstanding'
    BY <2>1, <2>4, <1>1, NacksKept
  <2> QED
    BY <2>5, <2>6
<1>11. CASE \E p \in net : RecvHeartbeat(p)
  <2>1. PICK p \in net : RecvHeartbeat(p)
    BY <1>11
  <2> DEFINE r == Acknack(last_handled', last_announced', DOMAIN in_messages, Len(delivered))
  <2>2. /\ net' \subseteq net \cup {r} /\ UNCHANGED <<log, delivered, in_messages>>
        /\ last_handled' = last_handled
    BY <2>1, HandledFacts, RecvHeartbeatStep, Zenon DEF RecvHeartbeat, update_from_heartbeat, history
  <2>3. /\ r.kind = "ACKNACK" /\ r.pos = Len(delivered)
        /\ r.bitmap = NackBitmap(last_handled, last_announced', DOMAIN in_messages)
    BY <2>2 DEF Acknack
  <2>4. PICK b \in Len(delivered)..Len(log) :
          last_announced' = NumberOf(b) /\ \A s \in DOMAIN in_messages : in_messages[s].pos =< b
    BY <2>1, HeartbeatAnnounced
  <2> HIDE DEF r
  <2>5. \A i \in r.bitmap : r.pos + i + 1 =< Len(log')
    BY <2>2, <2>3, <2>4, AcknackAsks
  <2>6. \A q \in net' : q.kind = "HEARTBEAT" => \E n \in q.pos..Len(log') : q.last = NumberOf(n)
    BY <2>2, <2>3 DEF AnnouncedInv
  <2>7. AnnouncedInv'
    BY <2>2, <2>4, <2>6, Zenon DEF AnnouncedInv
  <2>8. NacksAreOutstanding'
    BY <2>2, <2>5, <1>1, NacksKept
  <2> QED
    BY <2>7, <2>8
<1>12. CASE \E p \in net : Lose(p)
  BY <1>1, <1>2, <1>12 DEF Lose, inVars, history
<1> QED
  BY <1>3, <1>4, <1>5, <1>6, <1>7, <1>8, <1>9, <1>10, <1>11, <1>12, Zenon DEF Next

\* No ACKNACK asks for a message that has not been pushed.
THEOREM NacksOutstanding == Spec => []NacksAreOutstanding
<1>1. Init => AnnouncedInv /\ NacksAreOutstanding
  <2> SUFFICES ASSUME Init PROVE AnnouncedInv /\ NacksAreOutstanding
    OBVIOUS
  <2>1. /\ net = {} /\ log = << >> /\ delivered = << >> /\ in_messages = << >>
        /\ last_announced = last_handled /\ ReceiverInv
    BY InitInv, IInvFacts, Zenon DEF Init, InInit
  <2>2. Len(log) = 0 /\ Len(delivered) = 0 /\ DOMAIN in_messages = {}
    BY <2>1
  <2>3. 0 \in Len(delivered)..Len(log) /\ last_announced = NumberOf(0)
    BY <2>1, <2>2 DEF ReceiverInv
  <2> QED
    BY <2>1, <2>2, <2>3, Zenon DEF AnnouncedInv, NacksAreOutstanding
<1>2. IInv /\ AnnouncedInv /\ NacksAreOutstanding /\ [Next]_vars => AnnouncedInv' /\ NacksAreOutstanding'
  BY NextAnnounced
<1> QED
  BY <1>1, <1>2, Invariance, PTL DEF Spec

-----------------------------------------------------------------------------
(* Submessages: their pieces in the log, and their reassembly. *)

\* What push_submessage adds to the history: submessage K with n pieces, and a
\* message for each of them.
LEMMA PushAdds ==
  ASSUME IInv, NEW n \in 1..MaxFragments, Push(n)
  PROVE  LET L == Len(log)
             K == Len(submitted) + 1
         IN  /\ Len(submitted') = K /\ Len(log') = L + n /\ n \in Nat
             /\ \A k \in 1..Len(submitted) : submitted'[k] = submitted[k]
             /\ submitted'[K] = [j \in 1..n |-> <<K, j>>]
             /\ \A i \in 1..L : log'[i] = log[i]
             /\ \A j \in 1..n : /\ log'[L + j].piece = <<K, j>>
                                /\ log'[L + j].frag = (n > 1)
                                /\ log'[L + j].last = (n > 1 /\ j = n)
<1> DEFINE L == Len(log)
           K == Len(submitted) + 1
           pieces == [j \in 1..n |-> <<K, j>>]
           ms == Fragments(pieces, L)
<1>1. /\ TypeOK /\ SenderInv /\ L \in Nat /\ log \in Seq(Messages)
      /\ submitted \in Seq(Seq(Nat \X Nat)) /\ K \in Nat /\ n \in Nat
  <2>1. TypeOK /\ SenderInv /\ L \in Nat /\ n \in Nat
    BY IInvFacts, ConstantFacts
  <2> QED
    BY <2>1 DEF TypeOK
<1>2. pieces \in Seq(Nat \X Nat) /\ Len(pieces) = n
  BY <1>1
<1>3. log' = log \o ms /\ submitted' = Append(submitted, pieces)
  BY DEF Push
<1>4. \A j \in 1..n : ms[j].piece = pieces[j] /\ ms[j].frag = (n > 1) /\ ms[j].last = (n > 1 /\ j = n)
  <2> HIDE DEF pieces
  <2> QED
    BY <1>2 DEF Fragments
<1>5. \A j \in 1..n : pieces[j] = <<K, j>>
  OBVIOUS
<1>6. /\ Len(submitted') = K
      /\ \A k \in 1..Len(submitted) : submitted'[k] = submitted[k]
      /\ submitted'[K] = pieces
  <2> HIDE DEF pieces, K
  <2>1. /\ Len(Append(submitted, pieces)) = Len(submitted) + 1
        /\ \A k \in 1..Len(submitted) : Append(submitted, pieces)[k] = submitted[k]
        /\ Append(submitted, pieces)[Len(submitted) + 1] = pieces
    <3>1. submitted \in Seq(Seq(Nat \X Nat)) /\ pieces \in Seq(Nat \X Nat)
      BY <1>1, <1>2
    <3> QED
      BY <3>1, AppendFacts
  <2> QED
    BY <2>1, <1>3, Zenon DEF K
<1> HIDE DEF K
<1>7. ms \in Seq(Messages) /\ Len(ms) = n
  <2> HIDE DEF pieces
  <2> QED
    BY <1>1, <1>2, FragmentsInPositions, Zenon
<1> HIDE DEF ms
<1>8. /\ Len(log') = L + n
      /\ \A i \in 1..(L + n) : log'[i] = IF i =< L THEN log[i] ELSE ms[i - L]
  BY <1>1, <1>3, <1>7, ConcatFacts, Zenon
<1>9. \A i \in 1..L : i \in 1..(L + n) /\ i =< L
  BY <1>1
<1>10. \A j \in 1..n : L + j \in 1..(L + n) /\ ~ (L + j =< L) /\ (L + j) - L = j
  BY <1>1
<1>11. \A i \in 1..L : log'[i] = log[i]
  BY <1>8, <1>9, Zenon
<1>12. \A j \in 1..n : log'[L + j] = ms[j]
  BY <1>8, <1>10, Zenon
<1>13. \A j \in 1..n : /\ log'[L + j].piece = <<K, j>> /\ log'[L + j].frag = (n > 1)
                       /\ log'[L + j].last = (n > 1 /\ j = n)
  BY <1>4, <1>5, <1>12, Zenon
<1> QED
  BY <1>1, <1>6, <1>8, <1>11, <1>13, Zenon DEF K

\* push_submessage puts the pieces of its submessage after those of the ones before.
LEMMA PushPieces ==
  ASSUME IInv, PiecesInv, NEW n \in 1..MaxFragments, Push(n)
  PROVE  PiecesInv'
<1> DEFINE L == Len(log)
           K == Len(submitted) + 1
<1>1. /\ Len(submitted') = K /\ Len(log') = L + n /\ n \in Nat
      /\ \A k \in 1..Len(submitted) : submitted'[k] = submitted[k]
      /\ submitted'[K] = [j \in 1..n |-> <<K, j>>]
      /\ \A i \in 1..L : log'[i] = log[i]
      /\ \A j \in 1..n : /\ log'[L + j].piece = <<K, j>>
                         /\ log'[L + j].frag = (n > 1)
                         /\ log'[L + j].last = (n > 1 /\ j = n)
  BY PushAdds, Zenon
<1>2. L \in Nat /\ Len(submitted) \in Nat /\ K \in Nat /\ n > 0
  BY IInvFacts DEF TypeOK
<1>3. Len(submitted'[K]) = n /\ \A j \in 1..n : submitted'[K][j] = <<K, j>>
  BY <1>1
<1>4. ASSUME NEW k \in 1..K
      PROVE  Len(submitted'[k]) > 0 /\ \A j \in 1..Len(submitted'[k]) : submitted'[k][j] = <<k, j>>
  <2>1. CASE k = K
    BY <2>1, <1>2, <1>3
  <2>2. CASE k \in 1..Len(submitted)
    <3>1. submitted'[k] = submitted[k]
      BY <2>2, <1>1
    <3> QED
      BY <2>2, <3>1 DEF PiecesInv
  <2> QED
    BY <2>1, <2>2, <1>2
<1> DEFINE Placed(i, k, j) ==
             /\ Carries(log'[i], submitted'[k], k, j)
             /\ i = Len(log') => k = Len(submitted') /\ j = Len(submitted'[k])
             /\ i < Len(log') =>
                  log'[i + 1].piece = IF j < Len(submitted'[k]) THEN <<k, j + 1>> ELSE <<k + 1, 1>>
<1>5. ASSUME NEW i \in 1..L
      PROVE  \E k \in 1..K : \E j \in 1..Len(submitted'[k]) : Placed(i, k, j)
  <2> DEFINE Before(k, j) ==
               /\ Carries(log[i], submitted[k], k, j)
               /\ i = L => k = Len(submitted) /\ j = Len(submitted[k])
               /\ i < L => log[i + 1].piece = IF j < Len(submitted[k]) THEN <<k, j + 1>> ELSE <<k + 1, 1>>
  <2>0. PICK k \in 1..Len(submitted) : \E j \in 1..Len(submitted[k]) : Before(k, j)
    BY Zenon DEF PiecesInv
  <2>1. PICK j \in 1..Len(submitted[k]) : Before(k, j)
    BY <2>0, Zenon
  <2>2. submitted'[k] = submitted[k] /\ k \in 1..K /\ log'[i] = log[i]
    BY <1>1, <1>2
  <2>3. Carries(log'[i], submitted'[k], k, j)
    BY <2>1, <2>2, SMTT(30) DEF Carries
  <2>4. i # Len(log')
    BY <1>1, <1>2
  <2>5. log'[i + 1].piece = IF j < Len(submitted[k]) THEN <<k, j + 1>> ELSE <<k + 1, 1>>
    <3>1. CASE i < L
      <4>1. i + 1 \in 1..L
        BY <3>1, <1>2
      <4> QED
        BY <4>1, <3>1, <2>1, <1>1, Zenon
    <3>2. CASE i = L
      <4>1. k + 1 = K /\ ~ (j < Len(submitted[k]))
        BY <3>2, <2>1, <1>2
      <4>2. log'[L + 1].piece = <<K, 1>>
        <5>1. 1 \in 1..n
          BY <1>1, <1>2
        <5> QED
          BY <5>1, <1>1, Zenon
      <4> QED
        BY <4>1, <4>2, <3>2, Zenon
    <3> QED
      BY <3>1, <3>2, <1>2
  <2>6. j \in 1..Len(submitted'[k]) /\ Placed(i, k, j)
    BY <2>2, <2>3, <2>4, <2>5
  <2> HIDE DEF Placed
  <2> QED
    BY <2>2, <2>6
<1>6. ASSUME NEW i \in 1..n
      PROVE  Placed(L + i, K, i) /\ K \in 1..K /\ i \in 1..Len(submitted'[K])
  <2>1. Carries(log'[L + i], submitted'[K], K, i)
    BY <1>1, <1>3, Zenon DEF Carries
  <2>2. L + i = Len(log') => i = Len(submitted'[K])
    BY <1>1, <1>2, <1>3
  <2>3. ASSUME L + i < Len(log')
        PROVE  log'[(L + i) + 1].piece = <<K, i + 1>> /\ i < Len(submitted'[K])
    <3>1. i + 1 \in 1..n /\ (L + i) + 1 = L + (i + 1) /\ i < n
      BY <2>3, <1>1, <1>2
    <3> QED
      BY <3>1, <1>1, <1>3, Zenon
  <2>4. K \in 1..K /\ i \in 1..Len(submitted'[K]) /\ K = Len(submitted')
    BY <1>1, <1>2, <1>3
  <2>5. Placed(L + i, K, i)
    <3> HIDE DEF L, K
    <3> QED
      BY <2>1, <2>2, <2>3, <2>4, SMTT(30)
  <2> QED
    BY <2>4, <2>5
<1> HIDE DEF Placed
<1>7. ASSUME NEW i \in 1..Len(log')
      PROVE  \E k \in 1..Len(submitted') : \E j \in 1..Len(submitted'[k]) : Placed(i, k, j)
  <2>1. CASE i \in 1..L
    BY <2>1, <1>1, <1>5
  <2>2. CASE i > L
    <3>1. i - L \in 1..n /\ L + (i - L) = i
      BY <2>2, <1>1, <1>2
    <3>2. K \in 1..Len(submitted') /\ i - L \in 1..Len(submitted'[K]) /\ Placed(L + (i - L), K, i - L)
      BY <3>1, <1>1, <1>6
    <3> QED
      BY <3>1, <3>2
  <2>3. i \in 1..L \/ i > L
    BY <1>1, <1>2
  <2> QED
    BY <2>1, <2>2, <2>3, Zenon
<1> QED
  BY <1>1, <1>4, <1>7, Zenon DEF PiecesInv, Placed

\* push_submessage leaves what has been handled alone; a receiver that had everything
\* now waits for the first piece.
LEMMA PushReassembly ==
  ASSUME IInv, ReassemblyInv, NEW n \in 1..MaxFragments, Push(n)
  PROVE  ReassemblyInv'
<1> DEFINE L == Len(log)
           K == Len(submitted) + 1
           h == Len(delivered)
<1>1. /\ Len(submitted') = K /\ Len(log') = L + n /\ n \in Nat
      /\ \A k \in 1..Len(submitted) : submitted'[k] = submitted[k]
      /\ \A i \in 1..L : log'[i] = log[i]
      /\ \A j \in 1..n : log'[L + j].piece = <<K, j>>
  BY PushAdds, Zenon
<1>2. /\ L \in Nat /\ h \in Nat /\ h =< L /\ n > 0
      /\ Len(submitted) \in Nat /\ Len(processed) \in Nat
  BY IInvFacts DEF TypeOK
<1>3. UNCHANGED <<inVars, processed, delivered>>
  BY DEF Push
<1>4. WholeSubmessages'
  <2>1. Len(processed) =< K
    BY <1>2 DEF ReassemblyInv, WholeSubmessages
  <2>2. ASSUME NEW k \in 1..Len(processed) PROVE processed[k] = submitted'[k]
    <3>1. k \in 1..Len(submitted) /\ processed[k] = submitted[k]
      BY <1>2 DEF ReassemblyInv, WholeSubmessages
    <3> QED
      BY <3>1, <1>1
  <2> QED
    BY <2>1, <2>2, <1>1, <1>3 DEF WholeSubmessages
<1>5. log'[h + 1].piece = <<Len(processed) + 1, Len(fragment_msg) + 1>>
  <2>1. CASE h < L
    <3>1. h + 1 \in 1..L
      BY <2>1, <1>2
    <3> QED
      BY <2>1, <3>1, <1>1, Zenon DEF ReassemblyInv
  <2>2. CASE h = L
    <3>1. Len(processed) + 1 = K /\ Len(fragment_msg) + 1 = 1
      BY <2>2 DEF ReassemblyInv
    <3>2. 1 \in 1..n
      BY <1>1, <1>2
    <3> QED
      BY <2>2, <3>1, <3>2, <1>1
  <2> QED
    BY <2>1, <2>2, <1>2
<1>6. ~ (h = Len(log'))
  BY <1>1, <1>2
<1>7. \A i \in 1..Len(fragment_msg) : fragment_msg[i] = <<Len(processed) + 1, i>>
  BY DEF ReassemblyInv
<1> QED
  BY <1>3, <1>4, <1>5, <1>6, <1>7 DEF ReassemblyInv, inVars

\* Handling the message that is due continues the submessage that is due, and hands
\* it over exactly when that was its last piece.
LEMMA PopReassembly ==
  ASSUME IInv, PiecesInv, ReassemblyInv, Pop
  PROVE  /\ ReassemblyInv'
         /\ \/ processed' = processed
            \/ /\ Len(processed) < Len(submitted)
               /\ processed' = Append(processed, submitted[Len(processed) + 1])
<1> DEFINE h == Len(delivered)
           P == Len(processed)
           f == Len(fragment_msg)
           m == log[h + 1]
           s == submitted[P + 1]
<1>1. /\ TypeOK /\ h \in Nat /\ Len(log) \in Nat
  BY IInvFacts
<1>2. /\ h < Len(log) /\ delivered' = Append(delivered, m)
      /\ fragment_msg' = IF m.frag THEN FragmentsAfter(m) ELSE fragment_msg
      /\ processed' = IF ~ m.frag THEN Append(processed, <<m.piece>>)
                      ELSE IF m.last THEN Append(processed, Append(fragment_msg, m.piece))
                      ELSE processed
      /\ UNCHANGED <<submitted, log>>
  BY PopStep, Zenon DEF Pop, Reassembled
<1>3. /\ delivered \in Seq(Messages) /\ processed \in Seq(Seq(Nat \X Nat))
      /\ submitted \in Seq(Seq(Nat \X Nat)) /\ fragment_msg \in Seq(Nat \X Nat)
      /\ P \in Nat /\ f \in Nat /\ Len(submitted) \in Nat /\ h + 1 \in 1..Len(log)
      /\ m \in Messages /\ log \in Seq(Messages)
  BY <1>1, <1>2, SMTT(30) DEF TypeOK
<1>4. Len(delivered') = h + 1
  BY <1>2, <1>3, AppendFacts, Zenon
<1>5. /\ m.piece = <<P + 1, f + 1>> /\ m.piece \in Nat \X Nat
      /\ \A i \in 1..f : fragment_msg[i] = <<P + 1, i>>
  BY <1>2, <1>3, Zenon DEF ReassemblyInv, Messages
<1>6. /\ P + 1 \in 1..Len(submitted) /\ f + 1 \in 1..Len(s)
      /\ m.frag = (Len(s) > 1) /\ m.last = (Len(s) > 1 /\ f + 1 = Len(s))
      /\ h + 1 = Len(log) => P + 1 = Len(submitted) /\ f + 1 = Len(s)
      /\ h + 1 < Len(log) =>
           log[h + 2].piece = IF f + 1 < Len(s) THEN <<P + 1, f + 2>> ELSE <<P + 2, 1>>
  <2> DEFINE At(k, j) ==
               /\ Carries(m, submitted[k], k, j)
               /\ h + 1 = Len(log) => k = Len(submitted) /\ j = Len(submitted[k])
               /\ h + 1 < Len(log) => log[(h + 1) + 1].piece = IF j < Len(submitted[k]) THEN <<k, j + 1>>
                                                              ELSE <<k + 1, 1>>
  <2>1. PICK k \in 1..Len(submitted) : \E j \in 1..Len(submitted[k]) : At(k, j)
    BY <1>3, Zenon DEF PiecesInv
  <2>2. PICK j \in 1..Len(submitted[k]) : At(k, j)
    BY <2>1, Zenon
  <2>3. m.piece = <<k, j>>
    BY <2>2 DEF Carries
  <2>4. k = P + 1 /\ j = f + 1
    BY <2>3, <1>5
  <2>5. (h + 1) + 1 = h + 2 /\ (P + 1) + 1 = P + 2 /\ (f + 1) + 1 = f + 2
    BY <1>1, <1>3
  <2> QED
    BY <2>2, <2>4, <2>5, Zenon DEF Carries
<1>7. /\ s \in Seq(Nat \X Nat) /\ Len(s) \in Nat /\ Len(s) > 0
      /\ \A j \in 1..Len(s) : s[j] = <<P + 1, j>>
  <2>1. s \in Seq(Nat \X Nat)
    BY <1>3, <1>6
  <2>2. Len(s) > 0 /\ \A j \in 1..Len(s) : s[j] = <<P + 1, j>>
    BY <1>6, Zenon DEF PiecesInv
  <2> QED
    BY <2>1, <2>2
<1> HIDE DEF m, s, P, f, h
<1>8. (m.frag <=> Len(s) > 1) /\ (m.last <=> Len(s) > 1 /\ f + 1 = Len(s))
  BY <1>6, Zenon
<1>9. f + 1 =< Len(s) /\ f \in Nat /\ Len(s) \in Nat
  BY <1>3, <1>6, <1>7
<1> DEFINE whole == Append(fragment_msg, m.piece)
<1>10. whole \in Seq(Nat \X Nat) /\ Len(whole) = f + 1 /\ \A i \in 1..(f + 1) : whole[i] = <<P + 1, i>>
  <2>1. /\ whole \in Seq(Nat \X Nat) /\ Len(whole) = f + 1
        /\ \A i \in 1..f : whole[i] = fragment_msg[i]
        /\ whole[f + 1] = m.piece
    BY <1>3, <1>5, AppendFacts DEF f
  <2>2. \A i \in 1..(f + 1) : i \in 1..f \/ i = f + 1
    BY <1>3
  <2> HIDE DEF whole
  <2> QED
    BY <2>1, <2>2, <1>5, SMTT(30)
<1> HIDE DEF whole
<1>11. ASSUME f + 1 = Len(s) PROVE whole = s
  BY <1>7, <1>10, <1>11, SameElements, Zenon
<1>12. ASSUME processed' = Append(processed, s), fragment_msg' = << >>, f + 1 = Len(s)
       PROVE  ReassemblyInv'
  <2>1. /\ Len(processed') = P + 1
        /\ \A k \in 1..P : processed'[k] = processed[k]
        /\ processed'[P + 1] = s
    BY <1>3, <1>7, <1>12, AppendFacts DEF P
  <2>2. WholeSubmessages'
    <3>1. \A k \in 1..P : processed[k] = submitted[k]
      BY DEF ReassemblyInv, WholeSubmessages, P
    <3>2. \A k \in 1..(P + 1) : k \in 1..P \/ k = P + 1
      BY <1>3
    <3>3. \A k \in 1..(P + 1) : processed'[k] = submitted[k]
      BY <3>1, <3>2, <2>1 DEF s
    <3>4. P + 1 =< Len(submitted)
      BY <1>3, <1>6
    <3> QED
      BY <3>3, <3>4, <2>1, <1>2, Zenon DEF WholeSubmessages
  <2>3. Len(fragment_msg') = 0
    BY <1>12
  <2>4. h + 1 < Len(log) => log[h + 2].piece = <<P + 2, 1>>
    BY <1>3, <1>6, <1>12, SMTT(30)
  <2>5. h + 1 = Len(log) => P + 1 = Len(submitted)
    BY <1>6
  <2>6. Len(delivered') + 1 = h + 2 /\ Len(processed') + 1 = P + 2 /\ Len(fragment_msg') + 1 = 1
    BY <2>1, <2>3, <1>1, <1>3, <1>4 DEF h
  <2>7. \A i \in 1..Len(fragment_msg') : FALSE
    BY <2>3
  <2>8. Len(delivered') < Len(log') =>
          log'[Len(delivered') + 1].piece = <<Len(processed') + 1, Len(fragment_msg') + 1>>
    BY <2>4, <2>6, <1>2, <1>4, Zenon
  <2>9. Len(delivered') = Len(log') => Len(processed') = Len(submitted') /\ Len(fragment_msg') = 0
    BY <2>1, <2>3, <2>5, <1>2, <1>4, Zenon
  <2> QED
    BY <2>2, <2>7, <2>8, <2>9, Zenon DEF ReassemblyInv
<1>13. ASSUME processed' = processed, fragment_msg' = whole, f + 1 < Len(s)
       PROVE  ReassemblyInv'
  <2>1. WholeSubmessages'
    BY <1>2, <1>13, Zenon DEF ReassemblyInv, WholeSubmessages
  <2>2. \A i \in 1..Len(fragment_msg') : fragment_msg'[i] = <<Len(processed') + 1, i>>
    BY <1>10, <1>13, Zenon DEF P
  <2>3. h + 1 # Len(log) /\ (h + 1 < Len(log) => log[h + 2].piece = <<P + 1, f + 2>>)
    <3>1. f + 1 # Len(s)
      BY <1>13, <1>9
    <3> QED
      BY <3>1, <1>6, <1>13, Zenon
  <2>4. Len(delivered') + 1 = h + 2 /\ Len(processed') + 1 = P + 1 /\ Len(fragment_msg') + 1 = f + 2
    BY <1>1, <1>3, <1>4, <1>10, <1>13, SMTT(30) DEF h, P
  <2>5. Len(delivered') < Len(log') =>
          log'[Len(delivered') + 1].piece = <<Len(processed') + 1, Len(fragment_msg') + 1>>
    BY <2>3, <2>4, <1>2, <1>4, Zenon
  <2>6. Len(delivered') # Len(log')
    BY <2>3, <1>2, <1>4, Zenon
  <2> QED
    BY <2>1, <2>2, <2>5, <2>6, Zenon DEF ReassemblyInv
<1>14. CASE ~ m.frag
  <2>1. Len(s) = 1 /\ f = 0 /\ f + 1 = Len(s)
    <3>1. ~ (Len(s) > 1)
      BY <1>14, <1>8, Zenon
    <3>2. \A a, b \in Nat : a + 1 =< b /\ ~ (b > 1) => b = 1 /\ a = 0 /\ a + 1 = b
      OBVIOUS
    <3> QED
      BY <3>1, <3>2, <1>9, Zenon
  <2>2. <<m.piece>> = s
    <3>1. whole = s
      BY <2>1, <1>11
    <3>2. fragment_msg = << >>
      BY <2>1, <1>3 DEF f
    <3> QED
      BY <3>1, <3>2, <1>5 DEF whole
  <2>3. fragment_msg' = << >>
    BY <1>14, <1>2, <1>3, <2>1 DEF f
  <2>4. processed' = Append(processed, s)
    BY <1>14, <1>2, <2>2
  <2>5. P < Len(submitted)
    BY <1>3, <1>6
  <2> QED
    BY <2>1, <2>3, <2>4, <2>5, <1>12, Zenon DEF s, P
<1>15. CASE m.frag /\ m.last
  <2>1. f + 1 = Len(s)
    BY <1>15, <1>8
  <2>2. fragment_msg' = << >> /\ processed' = Append(processed, whole)
    BY <1>15, <1>2, Zenon DEF FragmentsAfter, whole
  <2>3. P < Len(submitted) /\ whole = s
    BY <1>3, <1>6, <1>11, <2>1
  <2> QED
    BY <2>1, <2>2, <2>3, <1>12, Zenon DEF s, P
<1>16. CASE m.frag /\ ~ m.last
  <2>1. f + 1 < Len(s)
    BY <1>16, <1>8, <1>9
  <2>2. fragment_msg' = whole /\ processed' = processed
    BY <1>16, <1>2, Zenon DEF FragmentsAfter, Reassembled, whole
  <2> QED
    BY <2>1, <2>2, <1>13
<1> QED
  BY <1>14, <1>15, <1>16

\* Only push_submessage and pop_message touch what the submessages are made of.
LEMMA OtherSteps ==
  ASSUME IInv, [Next]_vars, ~ \E n \in 1..MaxFragments : Push(n), ~ Pop
  PROVE  UNCHANGED <<submitted, processed, log, delivered, fragment_msg>>
<1>1. CASE SendNext \/ SendHeartbeat \/ EndDrain \/ UNCHANGED vars
  BY <1>1, Zenon DEF SendNext, SendHeartbeat, EndDrain, vars, inVars, history
<1>2. ASSUME NEW p \in net, RecvAcknack(p) \/ RecvData(p) \/ RecvHeartbeat(p) \/ Lose(p)
      PROVE  UNCHANGED <<submitted, processed, log, delivered, fragment_msg>>
  BY <1>2, Zenon DEF RecvAcknack, RecvData, push_message, RecvHeartbeat, update_from_heartbeat, Lose,
                     inVars, history
<1> QED
  BY <1>1, <1>2, Zenon DEF Next

\* Every step keeps the pieces in order and the reassembly where the log says.
LEMMA NextReassembly ==
  ASSUME IInv, PiecesInv, ReassemblyInv, [Next]_vars
  PROVE  PiecesInv' /\ ReassemblyInv'
<1>1. ASSUME NEW n \in 1..MaxFragments, Push(n)
      PROVE  PiecesInv' /\ ReassemblyInv'
  BY <1>1, PushPieces, PushReassembly
<1>2. CASE Pop
  <2>1. UNCHANGED <<submitted, log>>
    BY <1>2, Zenon DEF Pop, history, inVars
  <2>2. PiecesInv'
    BY <2>1, ZenonT(30) DEF PiecesInv
  <2> QED
    BY <1>2, <2>2, PopReassembly, Zenon
<1>3. CASE ~ (\E n \in 1..MaxFragments : Push(n)) /\ ~ Pop
  <2>1. UNCHANGED <<submitted, processed, log, delivered, fragment_msg>>
    BY <1>3, OtherSteps
  <2>2. PiecesInv'
    BY <2>1, ZenonT(30) DEF PiecesInv
  <2>3. ReassemblyInv'
    BY <2>1, Zenon DEF ReassemblyInv, WholeSubmessages
  <2> QED
    BY <2>2, <2>3
<1> QED
  BY <1>1, <1>2, <1>3

\* Both invariants hold of an empty stream.
LEMMA InitReassembly ==
  ASSUME Init
  PROVE  PiecesInv /\ ReassemblyInv
<1>1. /\ submitted = << >> /\ processed = << >> /\ log = << >> /\ delivered = << >>
      /\ fragment_msg = << >>
  BY DEF Init, InInit
<1>2. /\ Len(submitted) = 0 /\ Len(processed) = 0 /\ Len(log) = 0 /\ Len(delivered) = 0
      /\ Len(fragment_msg) = 0
  BY <1>1
<1>3. \A i \in 1..0 : FALSE
  OBVIOUS
<1> QED
  BY <1>2, <1>3 DEF PiecesInv, ReassemblyInv, WholeSubmessages

\* The log and the reassembly, in every reachable state.
THEOREM Reassembly == Spec => [](PiecesInv /\ ReassemblyInv)
<1>1. Init => PiecesInv /\ ReassemblyInv
  BY InitReassembly
<1>2. IInv /\ (PiecesInv /\ ReassemblyInv) /\ [Next]_vars => (PiecesInv /\ ReassemblyInv)'
  BY NextReassembly
<1> QED
  BY <1>1, <1>2, Invariance, PTL DEF Spec

\* Handlers get the submessages whole, in the order they were pushed, however large
\* they are and whatever happened to their fragments on the way.
THEOREM WholeAndInOrder == Spec => []WholeSubmessages
<1>1. ReassemblyInv => WholeSubmessages
  BY DEF ReassemblyInv
<1> QED
  BY <1>1, Reassembly, PTL

\* The stream implements the queue of submessages: push_submessage accepts one, a
\* pop_message that completes a submessage hands over the oldest, and every other
\* step of either side or of the network is none of the queue's.
THEOREM StreamImplementsFifo == Spec => ImplementsFifo
<1>1. Init => BoundedFifo!FifoInit
  BY DEF Init, BoundedFifo!FifoInit
<1>2. ASSUME IInv, PiecesInv, ReassemblyInv, [Next]_vars
      PROVE  [BoundedFifo!FifoNext]_(BoundedFifo!fifoVars)
  <2>1. ASSUME NEW n \in 1..MaxFragments, Push(n)
        PROVE  BoundedFifo!Accept
    <3> DEFINE K == Len(submitted) + 1
               pieces == [j \in 1..n |-> <<K, j>>]
    <3>1. Len(submitted) \in Nat /\ MaxSubmessages \in Nat
      BY <1>2, IInvFacts, LifetimeAssumption DEF TypeOK
    <3>2. submitted' = Append(submitted, pieces) /\ processed' = processed
          /\ Len(submitted) < MaxSubmessages
      BY <2>1 DEF Push
    <3>3. K \in 1..MaxSubmessages
      BY <3>1, <3>2
    <3>4. pieces \in {[j \in 1..c |-> <<k, j>>] : c \in 1..MaxFragments, k \in 1..MaxSubmessages}
      BY <3>3, <2>1
    <3> HIDE DEF pieces
    <3> QED
      BY <3>2, <3>4 DEF BoundedFifo!Accept
  <2>2. CASE Pop
    <3>1. submitted' = submitted
      BY <2>2 DEF Pop
    <3>2. \/ processed' = processed
          \/ /\ Len(processed) < Len(submitted)
             /\ processed' = Append(processed, submitted[Len(processed) + 1])
      BY <1>2, <2>2, PopReassembly
    <3> QED
      BY <3>1, <3>2, Zenon DEF BoundedFifo!FifoNext, BoundedFifo!HandOver, BoundedFifo!fifoVars
  <2>3. CASE ~ (\E n \in 1..MaxFragments : Push(n)) /\ ~ Pop
    BY <1>2, <2>3, OtherSteps DEF BoundedFifo!fifoVars
  <2> QED
    BY <2>1, <2>2, <2>3, Zenon DEF BoundedFifo!FifoNext
<1>3. IInv /\ (PiecesInv /\ ReassemblyInv) /\ [Next]_vars
        => [BoundedFifo!FifoNext]_(BoundedFifo!fifoVars)
  BY <1>2
<1> QED
  BY <1>1, <1>3, Invariance, Reassembly, PTL DEF Spec, ImplementsFifo, BoundedFifo!FifoSpec

-----------------------------------------------------------------------------
(* How much the sender keeps. *)

FS == INSTANCE FiniteSetTheorems

\* The theorems of an instance are about its own Cardinality.
LEMMA SameCardinality ==
  ASSUME NEW S
  PROVE  FS!Cardinality(S) = Cardinality(S)
BY Zenon DEF FS!Cardinality, Cardinality

\* The sender never keeps more than a window and the rest of the submessage that
\* push_submessage was cutting up when the window filled.
THEOREM OutputIsBounded == Spec => []BoundedOutput
<1>1. IInv => BoundedOutput
  <2> SUFFICES ASSUME IInv PROVE FS!Cardinality(DOMAIN out_messages) < Depth + MaxFragments
    BY SameCardinality DEF BoundedOutput
  <2> DEFINE S == (acked + 1)..Len(log)
  <2> DEFINE f == [n \in S |-> NumberOf(n)]
  <2>1. /\ SenderInv /\ Len(log) \in Nat /\ acked \in Nat /\ acked =< Len(log)
        /\ Len(log) - acked < Depth + MaxFragments
    BY IInvFacts
  <2>2. DOMAIN out_messages = {NumberOf(n) : n \in S}
    BY <2>1 DEF SenderInv
  <2>3. f \in FS!Surjection(S, DOMAIN out_messages)
    <3>1. f \in [S -> DOMAIN out_messages]
      BY <2>2
    <3>2. \A t \in DOMAIN out_messages : \E n \in S : f[n] = t
      BY <2>2
    <3> HIDE DEF f
    <3> QED
      BY <3>1, <3>2, Zenon DEF FS!Surjection
  <2>4. FS!IsFiniteSet(S) /\ FS!Cardinality(S) = Len(log) - acked
    <3>1. acked + 1 \in Int /\ Len(log) \in Int
      BY <2>1
    <3>2. /\ FS!IsFiniteSet(S)
          /\ FS!Cardinality(S) = IF acked + 1 > Len(log) THEN 0 ELSE Len(log) - (acked + 1) + 1
      BY <3>1, FS!FS_Interval, Zenon
    <3> QED
      BY <2>1, <3>2
  <2> HIDE DEF S, f
  <2>5. /\ FS!IsFiniteSet(DOMAIN out_messages)
        /\ FS!Cardinality(DOMAIN out_messages) =< FS!Cardinality(S)
    BY <2>3, <2>4, FS!FS_Surjection
  <2>6. FS!Cardinality(DOMAIN out_messages) \in Nat
    BY <2>5, FS!FS_CardinalityType
  <2> QED
    BY <2>1, <2>4, <2>5, <2>6, ConstantFacts
<1> QED
  BY <1>1, Invariance, PTL
=============================================================================
