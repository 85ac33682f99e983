---------------------------- MODULE ServerProofs ----------------------------
(***************************************************************************)
(* Proofs about Server: its queues are bounded, and packets are processed  *)
(* and sent in their order, for queues of any size, any number of packets, *)
(* errors and restarts.                                                    *)
(***************************************************************************)
EXTENDS Server, SequenceTheorems, TLAPS

\* Packets in the order of their numbers, all after low and none after high.
Increasing(s, low, high) ==
  /\ \A i \in 1 .. Len(s) : low < s[i] /\ s[i] =< high
  /\ \A i, j \in 1 .. Len(s) : i < j => s[i] < s[j]

-----------------------------------------------------------------------------
(* Sequences.                                                              *)

\* What remains of a queue without its front lies after the front.
LEMMA TailIncreasing ==
  ASSUME NEW s \in Seq(Nat), s # << >>, NEW low \in Nat, NEW high \in Nat, Increasing(s, low, high)
  PROVE  /\ Tail(s) \in Seq(Nat) /\ Len(Tail(s)) = Len(s) - 1
         /\ Head(s) \in Nat /\ low < Head(s) /\ Head(s) =< high
         /\ Increasing(Tail(s), Head(s), high)
         /\ Increasing(Tail(s), low, high)
<1>1. /\ Len(s) \in Nat \ {0} /\ Tail(s) \in Seq(Nat) /\ Len(Tail(s)) = Len(s) - 1
      /\ Head(s) = s[1] /\ \A i \in 1 .. Len(Tail(s)) : Tail(s)[i] = s[i + 1]
  OBVIOUS
<1>2. \A i \in 1 .. Len(s) : s[i] \in Nat
  OBVIOUS
<1> QED
  BY <1>1, <1>2 DEF Increasing

\* A new packet goes to the end of a queue.
LEMMA AppendIncreasing ==
  ASSUME NEW s \in Seq(Nat), NEW low \in Nat, NEW high \in Nat, Increasing(s, low, high), low =< high
  PROVE  /\ Append(s, high + 1) \in Seq(Nat) /\ Len(Append(s, high + 1)) = Len(s) + 1
         /\ Increasing(Append(s, high + 1), low, high + 1)
<1> DEFINE t == Append(s, high + 1)
           n == Len(s)
<1>1. t \in Seq(Nat) /\ Len(t) = n + 1
  OBVIOUS
<1>2. n \in Nat /\ t[n + 1] = high + 1 /\ \A i \in 1 .. n : t[i] = s[i]
  OBVIOUS
<1>3. \A i \in 1 .. n : s[i] \in Nat /\ low < s[i] /\ s[i] < high + 1
  BY DEF Increasing
<1>4. \A i, j \in 1 .. n : i < j => s[i] < s[j]
  BY DEF Increasing
<1> HIDE DEF t, n
<1>5. ASSUME NEW i \in 1 .. n + 1
      PROVE  low < t[i] /\ t[i] =< high + 1
  <2>1. CASE i = n + 1
    BY <2>1, <1>2
  <2>2. CASE i \in 1 .. n
    BY <2>2, <1>2, <1>3, SMTT(30)
  <2> QED
    BY <2>1, <2>2, <1>2
<1>6. ASSUME NEW i \in 1 .. n + 1, NEW j \in 1 .. n + 1, i < j
      PROVE  t[i] < t[j]
  <2>1. i \in 1 .. n /\ t[i] = s[i]
    BY <1>2, <1>6
  <2>2. CASE j = n + 1
    BY <2>1, <2>2, <1>2, <1>3
  <2>3. CASE j \in 1 .. n
    BY <2>1, <2>3, <1>2, <1>4, <1>6
  <2> QED
    BY <2>2, <2>3, <1>2
<1> QED
  BY <1>1, <1>5, <1>6, Zenon DEF t, n, Increasing

\* A packet that lies before all others can be put back at the front.
LEMMA FrontIncreasing ==
  ASSUME NEW s \in Seq(Nat), NEW x \in Nat, NEW low \in Nat, NEW high \in Nat,
         Increasing(s, x, high), low < x, x =< high
  PROVE  /\ <<x>> \o s \in Seq(Nat) /\ Len(<<x>> \o s) = Len(s) + 1
         /\ Increasing(<<x>> \o s, low, high)
<1> DEFINE t == <<x>> \o s
           n == Len(s)
<1>1. <<x>> \in Seq(Nat) /\ Len(<<x>>) = 1 /\ <<x>>[1] = x
  OBVIOUS
<1>2. t \in Seq(Nat) /\ Len(t) = n + 1
  BY <1>1, ConcatProperties
<1>3. n \in Nat /\ t[1] = x /\ \A i \in 2 .. n + 1 : t[i] = s[i - 1]
  BY <1>1, ConcatProperties
<1>4. \A i \in 1 .. n : s[i] \in Nat /\ x < s[i] /\ s[i] =< high
  BY DEF Increasing
<1>5. \A i, j \in 1 .. n : i < j => s[i] < s[j]
  BY DEF Increasing
<1> HIDE DEF t, n
<1>6. ASSUME NEW i \in 2 .. n + 1
      PROVE  i - 1 \in 1 .. n /\ t[i] = s[i - 1]
  BY <1>3
<1>7. ASSUME NEW i \in 1 .. n + 1
      PROVE  low < t[i] /\ t[i] =< high
  <2>1. CASE i = 1
    BY <2>1, <1>3
  <2>2. CASE i \in 2 .. n + 1
    BY <2>2, <1>6, <1>4
  <2> QED
    BY <2>1, <2>2, <1>3
<1>8. ASSUME NEW i \in 1 .. n + 1, NEW j \in 1 .. n + 1, i < j
      PROVE  t[i] < t[j]
  <2>1. j \in 2 .. n + 1 /\ j - 1 \in 1 .. n /\ t[j] = s[j - 1]
    BY <1>3, <1>6, <1>8
  <2>2. CASE i = 1
    BY <2>1, <2>2, <1>3, <1>4
  <2>3. CASE i \in 2 .. n + 1
    <3>1. i - 1 \in 1 .. n /\ t[i] = s[i - 1] /\ i - 1 < j - 1
      BY <2>3, <1>3, <1>6, <1>8
    <3> QED
      BY <3>1, <2>1, <1>5
  <2> QED
    BY <2>2, <2>3, <1>3
<1> QED
  BY <1>2, <1>7, <1>8, Zenon DEF t, n, Increasing

-----------------------------------------------------------------------------
(* The scheduler.                                                          *)

\* Whose queue of priority p holds packets after low, none after high, and at most max.
Holds(s, p, low, high, max) ==
  Increasing(s.deque[p], low, high) /\ Len(s.deque[p]) =< max

\* push keeps the order, and the bound of a queue that is not over its size.
LEMMA PushKeeps ==
  ASSUME NEW s \in Scheduler, NEW p \in Priorities, NEW low \in Nat, NEW high \in Nat, low =< high,
         NEW max \in Nat, 0 < s.sizes[p], s.sizes[p] =< max, Holds(s, p, low, high, max)
  PROVE  /\ push(s, high + 1, p) \in Scheduler
         /\ push(s, high + 1, p).sizes = s.sizes
         /\ Holds(push(s, high + 1, p), p, low, high + 1, max)
         /\ \A q \in Priorities \ {p} : push(s, high + 1, p).deque[q] = s.deque[q]
<1> DEFINE old == s.deque[p]
           kept == IF s.sizes[p] =< Len(old) THEN Tail(old) ELSE old
<1>1. old \in Seq(Nat) /\ Len(old) \in Nat /\ s.sizes[p] \in Nat
  BY DEF Scheduler
<1>2. Increasing(old, low, high) /\ Len(old) =< max
  BY DEF Holds
<1>3. kept \in Seq(Nat) /\ Len(kept) + 1 =< max /\ Increasing(kept, low, high)
  <2>1. CASE s.sizes[p] =< Len(old)
    <3>1. old # << >>
      BY <2>1, <1>1
    <3> QED
      BY <3>1, <2>1, <1>1, <1>2, TailIncreasing
  <2>2. CASE ~ (s.sizes[p] =< Len(old))
    BY <2>2, <1>1, <1>2
  <2> QED
    BY <2>1, <2>2
<1> DEFINE t == push(s, high + 1, p)
<1>4. t = [s EXCEPT !.deque = [s.deque EXCEPT ![p] = Append(kept, high + 1)]]
  BY DEF push, Scheduler
<1>5. /\ Append(kept, high + 1) \in Seq(Nat) /\ Len(Append(kept, high + 1)) = Len(kept) + 1
      /\ Increasing(Append(kept, high + 1), low, high + 1)
  BY <1>3, AppendIncreasing, Zenon
<1> HIDE DEF kept, t
<1>6. [s.deque EXCEPT ![p] = Append(kept, high + 1)] \in [Priorities -> Seq(Nat)]
  BY <1>5 DEF Scheduler
<1>7. t \in Scheduler /\ t.sizes = s.sizes /\ t.deque = [s.deque EXCEPT ![p] = Append(kept, high + 1)]
  BY <1>4, <1>6, Zenon DEF Scheduler
<1>8. t.deque[p] = Append(kept, high + 1) /\ \A q \in Priorities \ {p} : t.deque[q] = s.deque[q]
  BY <1>7, Zenon DEF Scheduler
<1> QED
  BY <1>3, <1>5, <1>7, <1>8, Zenon DEF Holds, t

\* pop takes the front of a queue, which lies before all that remains.
LEMMA PopTakes ==
  ASSUME NEW s \in Scheduler, ~ empty(s), NEW low \in Nat, NEW high \in Nat, NEW max \in Nat,
         Holds(s, available_priority(s), low, high, max)
  PROVE  /\ available_priority(s) \in Priorities
         /\ popped(s) \in Scheduler /\ popped(s).sizes = s.sizes
         /\ front(s) \in Nat /\ low < front(s) /\ front(s) =< high
         /\ Holds(popped(s), available_priority(s), front(s), high, max - 1)
         /\ \A q \in Priorities \ {available_priority(s)} : popped(s).deque[q] = s.deque[q]
<1> DEFINE p == available_priority(s)
           old == s.deque[p]
           t == popped(s)
<1>1. p \in Priorities /\ old # << >>
  BY DEF available_priority, empty, Priorities
<1>2. old \in Seq(Nat) /\ Increasing(old, low, high) /\ Len(old) =< max
  BY <1>1 DEF Scheduler, Holds
<1>3. /\ Tail(old) \in Seq(Nat) /\ Len(Tail(old)) = Len(old) - 1
      /\ front(s) = Head(old) /\ front(s) \in Nat /\ low < front(s) /\ front(s) =< high
      /\ Increasing(Tail(old), front(s), high)
  BY <1>1, <1>2, TailIncreasing, Zenon DEF front
<1>4. t = [s EXCEPT !.deque = [s.deque EXCEPT ![p] = Tail(old)]]
  BY <1>1 DEF popped, Scheduler
<1> HIDE DEF p, t
<1>5. [s.deque EXCEPT ![p] = Tail(old)] \in [Priorities -> Seq(Nat)]
  BY <1>3, Zenon DEF Scheduler
<1>6. t \in Scheduler /\ t.sizes = s.sizes /\ t.deque = [s.deque EXCEPT ![p] = Tail(old)]
  BY <1>4, <1>5, Zenon DEF Scheduler
<1>7. t.deque[p] = Tail(old) /\ \A q \in Priorities \ {p} : t.deque[q] = s.deque[q]
  BY <1>1, <1>6 DEF Scheduler
<1>8. Len(old) \in Nat /\ Len(Tail(old)) =< max - 1
  BY <1>2, <1>3
<1> QED
  BY <1>1, <1>3, <1>6, <1>7, <1>8, Zenon DEF Holds, p, t

\* push_front may make a queue one too long.
LEMMA PushFrontKeeps ==
  ASSUME NEW s \in Scheduler, NEW x \in Nat, NEW low \in Nat, NEW high \in Nat, low < x, x =< high,
         NEW max \in Nat, Holds(s, 0, x, high, max)
  PROVE  /\ push_front(s, x, 0) \in Scheduler
         /\ push_front(s, x, 0).sizes = s.sizes
         /\ Holds(push_front(s, x, 0), 0, low, high, max + 1)
         /\ push_front(s, x, 0).deque[1] = s.deque[1]
<1> DEFINE t == push_front(s, x, 0)
           new == <<x>> \o s.deque[0]
<1>1. s.deque[0] \in Seq(Nat) /\ Increasing(s.deque[0], x, high) /\ Len(s.deque[0]) =< max
  BY DEF Scheduler, Holds, Priorities
<1>2. new \in Seq(Nat) /\ Len(new) = Len(s.deque[0]) + 1 /\ Increasing(new, low, high)
  BY <1>1, FrontIncreasing
<1>3. t = [s EXCEPT !.deque = [s.deque EXCEPT ![0] = new]]
  BY DEF push_front, Scheduler
<1> HIDE DEF t, new
<1>4. [s.deque EXCEPT ![0] = new] \in [Priorities -> Seq(Nat)]
  BY <1>2, Zenon DEF Scheduler
<1>5. t \in Scheduler /\ t.sizes = s.sizes /\ t.deque = [s.deque EXCEPT ![0] = new]
  BY <1>3, <1>4, Zenon DEF Scheduler
<1>6. t.deque[0] = new /\ t.deque[1] = s.deque[1]
  BY <1>5 DEF Scheduler, Priorities
<1>7. Len(s.deque[0]) \in Nat
  BY <1>1
<1>8. Len(new) =< max + 1
  BY <1>1, <1>2, <1>7
<1>9. Holds(t, 0, low, high, max + 1)
  BY <1>2, <1>6, <1>8, Zenon DEF Holds
<1> QED
  BY <1>5, <1>6, <1>9, Zenon DEF t

-----------------------------------------------------------------------------
(* The invariant.                                                          *)

AllDone == \A t \in Threads : pc[t] = "done"

\* start has set the sizes of the queues.
Sized == input.sizes[0] = MaxSize /\ input.sizes[1] = 1 /\ output.sizes[0] = MaxSize

Sending == pc["sender"] \in {"send", "report"}

\* The packet of the sender lies between those sent and those queued, and the place it has
\* left is free as long as the sender has it: without that, push_front would add one packet
\* with each error.
InFlight ==
  IF Sending
  THEN sent < packet /\ packet =< made /\ Holds(output, 0, packet, made, MaxSize)
  ELSE Holds(output, 0, sent, made, MaxSize + 1)

IInv ==
  /\ TypeOK
  /\ main = "stopped" => AllDone
  /\ Sized \/ AllDone
  /\ Holds(input, 0, handled[0], arrived, MaxSize) /\ Holds(input, 1, handled[1], arrived, 1)
  /\ handled[0] =< arrived /\ handled[1] =< arrived /\ sent =< made
  /\ output.deque[1] = << >>
  /\ InFlight

\* The bounds of a queue may be weakened.
LEMMA HoldsWeaken ==
  ASSUME NEW s \in Scheduler, NEW p \in Priorities, NEW low \in Nat, NEW high \in Nat, NEW max \in Nat,
         NEW low2 \in Nat, NEW high2 \in Nat, NEW max2 \in Nat,
         low2 =< low, high =< high2, max =< max2, Holds(s, p, low, high, max)
  PROVE  Holds(s, p, low2, high2, max2)
<1> DEFINE d == s.deque[p]
           n == Len(d)
<1>1. n \in Nat /\ \A i \in 1 .. n : d[i] \in Nat
  BY DEF Scheduler
<1>2. /\ n =< max /\ \A i \in 1 .. n : low < d[i] /\ d[i] =< high
      /\ \A i, j \in 1 .. n : i < j => d[i] < d[j]
  BY Zenon DEF Holds, Increasing
<1> HIDE DEF d, n
<1>3. n =< max2 /\ \A i \in 1 .. n : low2 < d[i] /\ d[i] =< high2
  BY <1>1, <1>2
<1> QED
  BY <1>2, <1>3, Zenon DEF Holds, Increasing, d, n

\* At the start the queues are empty.
LEMMA InitIInv == Init => IInv
<1> SUFFICES ASSUME Init PROVE IInv
  OBVIOUS
<1>1. TypeOK
  <2>1. [p \in Priorities |-> << >>] \in [Priorities -> Seq(Nat)]
    OBVIOUS
  <2>2. [p \in Priorities |-> 0] \in [Priorities -> Nat]
    OBVIOUS
  <2>3. NewScheduler \in Scheduler
    BY <2>1, <2>2 DEF NewScheduler, Scheduler
  <2> QED
    BY <2>2, <2>3, Zenon DEF Init, TypeOK
<1>2. AllDone /\ ~ Sending
  BY DEF Init, AllDone, Sending, Threads
<1>3. input.deque[0] = << >> /\ input.deque[1] = << >> /\ output.deque[0] = << >> /\ output.deque[1] = << >>
  BY DEF Init, NewScheduler, Priorities
<1>4. Len(<< >>) = 0 /\ \A low, high : Increasing(<< >>, low, high)
  <2>1. Len(<< >>) = 0 /\ 1 .. 0 = {}
    OBVIOUS
  <2> QED
    BY <2>1, Zenon DEF Increasing
<1> QED
  BY <1>1, <1>2, <1>3, <1>4, ServerAssumption DEF IInv, InFlight, Holds, Init, Priorities

-----------------------------------------------------------------------------
(* Types.                                                                  *)

\* A thread of the server goes from one place to another.
LEMMA GoType ==
  ASSUME TypeOK, NEW t \in Threads, NEW to, Go(t, to),
         to \in {"done", "loop", "receive", "report", "asleep", "pop", "send", "process",
                "lock", "wait", "test", "handle"}
  PROVE  /\ pc' \in [Threads -> {"done", "loop", "receive", "report", "asleep", "pop", "send", "process",
                                 "lock", "wait", "test", "handle"}]
         /\ pc'[t] = to /\ \A u \in Threads \ {t} : pc'[u] = pc[u]
BY Zenon DEF TypeOK, Go

\* A step that leaves the queues and the packets alone, and moves no packet between the sender
\* and its queue.
LEMMA Quiet ==
  ASSUME IInv, TypeOK', main' = "stopped" => AllDone', Sized' \/ AllDone', (Sending' <=> Sending),
         input'.deque = input.deque, output'.deque = output.deque,
         UNCHANGED <<packet, arrived, made, handled, sent>>
  PROVE  IInv'
BY DEF IInv, InFlight, Holds

\* The same for a step of one thread that is not done.
LEMMA QuietThread ==
  ASSUME IInv, NEW t \in Threads, pc[t] # "done", NEW to, Go(t, to),
         to \in {"done", "loop", "receive", "report", "asleep", "pop", "send", "process",
                "lock", "wait", "test", "handle"},
         t = "sender" => (to \in {"send", "report"} <=> Sending),
         rc' \in {"ok", "error"}, handling' \in BOOLEAN, waiting' \subseteq {"receiver", "sender", "handler"},
         UNCHANGED <<running, input, output, main, packet, arrived, made, starts, handled, sent>>
  PROVE  IInv'
<1>1. /\ pc' \in [Threads -> {"done", "loop", "receive", "report", "asleep", "pop", "send", "process",
                              "lock", "wait", "test", "handle"}]
      /\ pc'[t] = to /\ \A u \in Threads \ {t} : pc'[u] = pc[u]
  BY GoType DEF IInv
<1>2. TypeOK'
  BY <1>1, Zenon DEF IInv, TypeOK
<1>3. ~ AllDone /\ Sized /\ main # "stopped"
  BY DEF IInv, AllDone
<1>4. Sized' /\ main' # "stopped"
  BY <1>3 DEF Sized
<1>5. (Sending' <=> Sending)
  BY <1>1 DEF Sending, Threads
<1> QED
  BY <1>2, <1>4, <1>5, Quiet

-----------------------------------------------------------------------------
(* The steps that move packets.                                            *)

\* A packet arrives.
LEMMA ReceiveStep ==
  ASSUME IInv, NEW p \in Priorities, Receive(p)
  PROVE  IInv'
<1>1. /\ pc' \in [Threads -> {"done", "loop", "receive", "report", "asleep", "pop", "send", "process",
                              "lock", "wait", "test", "handle"}]
      /\ \A u \in Threads \ {"receiver"} : pc'[u] = pc[u]
  BY GoType DEF IInv, Receive, Threads
<1>2. Sized /\ main # "stopped" /\ (Sending' <=> Sending)
  BY <1>1 DEF IInv, AllDone, Receive, Sending, Threads
<1>3. input \in Scheduler /\ arrived \in Nat /\ handled[0] \in Nat /\ handled[1] \in Nat
  BY Zenon DEF IInv, TypeOK, Priorities
<1> DEFINE max == [q \in Priorities |-> IF q = 0 THEN MaxSize ELSE 1]
<1>4. \A q \in Priorities : /\ max[q] \in Nat /\ 0 < input.sizes[q] /\ input.sizes[q] =< max[q]
                            /\ handled[q] \in Nat /\ handled[q] =< arrived
                            /\ Holds(input, q, handled[q], arrived, max[q])
  BY <1>2, <1>3, ServerAssumption DEF IInv, Sized, Priorities
<1>max. max[0] = MaxSize /\ max[1] = 1
  BY DEF Priorities
<1> HIDE DEF max
<1>5. /\ input' \in Scheduler /\ input'.sizes = input.sizes
      /\ Holds(input', p, handled[p], arrived + 1, max[p])
      /\ \A q \in Priorities \ {p} : input'.deque[q] = input.deque[q]
  BY <1>3, <1>4, PushKeeps, SMTT(30) DEF Receive
<1>6. ASSUME NEW q \in Priorities \ {p}
      PROVE  Holds(input', q, handled[q], arrived + 1, max[q])
  <2> DEFINE low == handled[q]
             m == max[q]
  <2>1. low \in Nat /\ m \in Nat /\ low =< low /\ m =< m /\ arrived + 1 \in Nat /\ arrived =< arrived + 1
    BY <1>3, <1>4
  <2>2. Holds(input, q, low, arrived, m)
    BY <1>4
  <2> HIDE DEF low, m
  <2>3. Holds(input, q, low, arrived + 1, m)
    BY <2>1, <2>2, <1>3, HoldsWeaken, SMTT(30)
  <2> QED
    BY <2>3, <1>5 DEF Holds, low, m
<1>7. TypeOK'
  <2>1. /\ arrived' = arrived + 1
        /\ UNCHANGED <<running, output, rc, handling, waiting, main, packet, made, starts, handled, sent>>
    BY DEF Receive, errorVars
  <2>2. TypeOK
    BY DEF IInv
  <2>3. arrived' \in Nat
    BY <2>1, <1>3
  <2>4. input' \in Scheduler
    BY <1>5
  <2> QED
    BY <2>1, <2>2, <2>3, <2>4, <1>1, Zenon DEF TypeOK
<1>8. /\ Holds(input', 0, handled[0], arrived + 1, MaxSize)
      /\ Holds(input', 1, handled[1], arrived + 1, 1)
  BY <1>5, <1>6, <1>max DEF Priorities
<1>9. Sized'
  BY <1>2, <1>5 DEF Sized, Receive
<1>10. InFlight'
  BY <1>2 DEF IInv, InFlight, Receive, Holds
<1> QED
  BY <1>2, <1>3, <1>7, <1>8, <1>9, <1>10 DEF IInv, Receive

\* The sender takes a packet, or finds the queue stopped.
LEMMA SenderPopStep ==
  ASSUME IInv, SenderPop
  PROVE  IInv'
<1>1. pc["sender"] = "pop" /\ "sender" \in Threads /\ ~ Sending
  BY DEF SenderPop, Threads, Sending
<1> DEFINE max == MaxSize + 1
<1>2. /\ TypeOK /\ output \in Scheduler /\ sent \in Nat /\ made \in Nat /\ max \in Nat /\ max - 1 = MaxSize
      /\ rc \in {"ok", "error"} /\ handling \in BOOLEAN /\ waiting \subseteq {"receiver", "sender", "handler"}
  <2>1. TypeOK
    BY DEF IInv
  <2>2. max \in Nat /\ max - 1 = MaxSize
    BY ServerAssumption
  <2> QED
    BY <2>1, <2>2, Zenon DEF TypeOK
<1>3. CASE ~ output.running
  <2>1. Go("sender", "loop") /\ UNCHANGED <<running, input, output, rc, handling, waiting, main, packet,
                                            arrived, made, starts, handled, sent>>
    BY <1>3, Zenon DEF SenderPop, errorVars
  <2> QED
    BY <2>1, <1>1, <1>2, QuietThread
<1>4. CASE output.running
  <2>1. /\ packet' = front(output) /\ output' = popped(output) /\ Go("sender", "send") /\ ~ empty(output)
        /\ UNCHANGED <<running, input, rc, handling, waiting, main, arrived, made, starts, handled, sent>>
    BY <1>4, Zenon DEF SenderPop, errorVars, CanReturn
  <2>2. available_priority(output) = 0 /\ Holds(output, 0, sent, made, max)
    BY <1>1, Zenon DEF IInv, InFlight, available_priority
  <2> HIDE DEF max
  <2>3. /\ output' \in Scheduler /\ output'.sizes = output.sizes
        /\ packet' \in Nat /\ sent < packet' /\ packet' =< made
        /\ Holds(output', 0, packet', made, max - 1)
        /\ \A q \in Priorities \ {0} : output'.deque[q] = output.deque[q]
    BY <2>1, <2>2, <1>2, PopTakes, Zenon
  <2>4. output'.deque[1] = << >>
    BY <2>3 DEF IInv, Priorities
  <2>5. /\ pc' \in [Threads -> {"done", "loop", "receive", "report", "asleep", "pop", "send", "process",
                                "lock", "wait", "test", "handle"}]
        /\ pc'["sender"] = "send"
    BY <2>1, <1>1, <1>2, GoType
  <2>6. TypeOK'
    BY <2>1, <2>3, <2>5, <1>2, ZenonT(30) DEF TypeOK
  <2>7. Sized' /\ main' # "stopped"
    BY <2>1, <2>3, <1>1 DEF IInv, AllDone, Sized
  <2>8. InFlight'
    BY <2>1, <2>3, <2>5, <1>2 DEF InFlight, Sending
  <2> QED
    BY <2>1, <2>4, <2>6, <2>7, <2>8 DEF IInv, Holds
<1> QED
  BY <1>3, <1>4

\* The packet of the sender is sent or dropped.
LEMMA SendStep ==
  ASSUME IInv, Send \/ SendFails
  PROVE  IInv'
<1>1. /\ pc["sender"] = "send" /\ "sender" \in Threads /\ Sending /\ Go("sender", "loop") /\ packet' = 0
      /\ sent' \in {sent, packet}
      /\ UNCHANGED <<running, input, output, rc, handling, waiting, main, arrived, made, starts, handled>>
  BY DEF Send, SendFails, Threads, Sending, errorVars
<1>2. TypeOK /\ output \in Scheduler /\ sent \in Nat /\ packet \in Nat /\ made \in Nat /\ MaxSize \in Nat
  BY ServerAssumption, Zenon DEF IInv, TypeOK
<1>3. sent < packet /\ packet =< made /\ Holds(output, 0, packet, made, MaxSize)
  BY <1>1, Zenon DEF IInv, InFlight
<1>4. /\ pc' \in [Threads -> {"done", "loop", "receive", "report", "asleep", "pop", "send", "process",
                              "lock", "wait", "test", "handle"}]
      /\ pc'["sender"] = "loop"
  BY <1>1, <1>2, GoType
<1>5. sent' \in Nat /\ sent' =< packet /\ sent' =< made
  BY <1>1, <1>2, <1>3
<1>6. Holds(output, 0, sent', made, MaxSize + 1)
  BY <1>2, <1>3, <1>5, HoldsWeaken, SMTT(30) DEF Priorities
<1>7. TypeOK'
  BY <1>1, <1>2, <1>4, <1>5, Zenon DEF TypeOK
<1>8. Sized' /\ main' # "stopped"
  BY <1>1 DEF IInv, AllDone, Sized
<1>9. InFlight'
  BY <1>1, <1>4, <1>6, SMTT(30) DEF InFlight, Sending
<1> QED
  BY <1>1, <1>5, <1>7, <1>8, <1>9 DEF IInv, Holds

\* The sender puts its packet back and reports an error.
LEMMA SenderReportStep ==
  ASSUME IInv, SenderReport
  PROVE  IInv'
<1>1. /\ pc["sender"] = "report" /\ "sender" \in Threads /\ Sending /\ Go("sender", "asleep") /\ packet' = 0
      /\ output' = push_front(output, packet, 0)
      /\ UNCHANGED <<running, input, handling, main, arrived, made, starts, handled, sent>>
  BY DEF SenderReport, Report, Threads, Sending
<1>2. TypeOK /\ output \in Scheduler /\ sent \in Nat /\ packet \in Nat /\ made \in Nat /\ MaxSize \in Nat
  BY ServerAssumption, Zenon DEF IInv, TypeOK
<1>3. sent < packet /\ packet =< made /\ Holds(output, 0, packet, made, MaxSize)
  BY <1>1 DEF IInv, InFlight
<1>4. /\ pc' \in [Threads -> {"done", "loop", "receive", "report", "asleep", "pop", "send", "process",
                              "lock", "wait", "test", "handle"}]
      /\ pc'["sender"] = "asleep"
  BY <1>1, <1>2, GoType
<1>5. /\ output' \in Scheduler /\ output'.sizes = output.sizes
      /\ Holds(output', 0, sent, made, MaxSize + 1) /\ output'.deque[1] = output.deque[1]
  BY <1>1, <1>2, <1>3, PushFrontKeeps
<1>6. rc' = "error" /\ waiting' \subseteq {"receiver", "sender", "handler"}
  BY <1>2, Zenon DEF SenderReport, Report, TypeOK
<1>7. TypeOK'
  BY <1>1, <1>2, <1>4, <1>5, <1>6, ZenonT(30) DEF TypeOK
<1>8. Sized' /\ main' # "stopped"
  BY <1>1, <1>5, Zenon DEF IInv, AllDone, Sized
<1>9. InFlight'
  BY <1>1, <1>4, <1>5, Zenon DEF InFlight, Sending
<1> QED
  BY <1>1, <1>5, <1>7, <1>8, <1>9, Zenon DEF IInv, Holds

\* The processing thread takes a packet, or finds the queue stopped.
LEMMA ProcessingPopStep ==
  ASSUME IInv, ProcessingPop
  PROVE  IInv'
<1>1. pc["processing"] = "pop" /\ "processing" \in Threads
  BY DEF ProcessingPop, Threads
<1>2. /\ TypeOK /\ input \in Scheduler /\ arrived \in Nat /\ handled \in [Priorities -> Nat]
      /\ rc \in {"ok", "error"} /\ handling \in BOOLEAN /\ waiting \subseteq {"receiver", "sender", "handler"}
  <2>1. TypeOK
    BY DEF IInv
  <2> QED
    BY <2>1, Zenon DEF TypeOK
<1>3. CASE ~ input.running
  <2>1. Go("processing", "loop") /\ UNCHANGED <<running, input, output, rc, handling, waiting, main, packet,
                                                arrived, made, starts, handled, sent>>
    BY <1>3 DEF ProcessingPop, errorVars
  <2> QED
    BY <2>1, <1>1, <1>2, QuietThread
<1>4. CASE input.running
  <2> DEFINE p == available_priority(input)
             max == [q \in Priorities |-> IF q = 0 THEN MaxSize ELSE 1]
  <2>1. /\ handled' = [handled EXCEPT ![p] = front(input)] /\ input' = popped(input)
        /\ Go("processing", "process") /\ ~ empty(input)
        /\ UNCHANGED <<running, output, rc, handling, waiting, main, packet, arrived, made, starts, sent>>
    BY <1>4, Zenon DEF ProcessingPop, errorVars, CanReturn
  <2>2. p \in Priorities /\ handled[p] \in Nat
    BY <1>2 DEF available_priority, Priorities
  <2>3. \A q \in Priorities : max[q] \in Nat /\ Holds(input, q, handled[q], arrived, max[q])
    BY ServerAssumption DEF IInv, Priorities
  <2>max. max[0] = MaxSize /\ max[1] = 1
    BY DEF Priorities
  <2> HIDE DEF p, max
  <2>4. /\ input' \in Scheduler /\ input'.sizes = input.sizes
        /\ front(input) \in Nat /\ front(input) =< arrived
        /\ Holds(input', p, front(input), arrived, max[p] - 1)
        /\ \A q \in Priorities \ {p} : input'.deque[q] = input.deque[q]
    BY <2>1, <2>2, <2>3, <1>2, PopTakes, SMTT(30) DEF p
  <2>5. Holds(input', p, front(input), arrived, max[p])
    BY <2>2, <2>3, <2>4 DEF Holds, Scheduler
  <2>6. /\ handled' \in [Priorities -> Nat] /\ handled'[p] = front(input)
        /\ \A q \in Priorities \ {p} : handled'[q] = handled[q]
    BY <2>1, <2>2, <2>4, <1>2
  <2>7. \A q \in Priorities : Holds(input', q, handled'[q], arrived, max[q]) /\ handled'[q] =< arrived
    <3> TAKE q \in Priorities
    <3>1. CASE q = p
      BY <3>1, <2>4, <2>5, <2>6, Zenon
    <3>2. CASE q # p
      <4>1. handled'[q] = handled[q] /\ input'.deque[q] = input.deque[q] /\ handled[q] =< arrived
        BY <3>2, <2>4, <2>6 DEF IInv, Priorities
      <4> QED
        BY <4>1, <2>3 DEF Holds
    <3> QED
      BY <3>1, <3>2
  <2>8. /\ pc' \in [Threads -> {"done", "loop", "receive", "report", "asleep", "pop", "send", "process",
                                "lock", "wait", "test", "handle"}]
        /\ pc'["sender"] = pc["sender"]
    BY <2>1, <1>1, <1>2, GoType, SMTT(30) DEF Threads
  <2>9. TypeOK'
    BY <2>1, <2>4, <2>6, <2>8, <1>2, ZenonT(30) DEF TypeOK
  <2>10. Sized' /\ main' # "stopped"
    BY <2>1, <2>4, <1>1 DEF IInv, AllDone, Sized
  <2>11. InFlight'
    BY <2>1, <2>8, Zenon DEF IInv, InFlight, Sending, Holds
  <2>12. 0 \in Priorities /\ 1 \in Priorities
    BY DEF Priorities
  <2> QED
    BY <2>1, <2>7, <2>9, <2>10, <2>11, <2>12, <2>max DEF IInv
<1> QED
  BY <1>3, <1>4

\* A thread in the processor makes a packet.
LEMMA PushOutputStep ==
  ASSUME IInv, NEW t \in Threads, PushOutput(t)
  PROVE  IInv'
<1>1. /\ pc[t] = "process" /\ output' = push(output, made + 1, 0) /\ made' = made + 1
      /\ UNCHANGED <<running, input, rc, handling, waiting, pc, main, packet, arrived, starts, handled, sent>>
  BY DEF PushOutput, errorVars
<1> DEFINE max == IF Sending THEN MaxSize ELSE MaxSize + 1
           low == IF Sending THEN packet ELSE sent
<1>2. TypeOK /\ output \in Scheduler /\ made \in Nat /\ sent \in Nat /\ packet \in Nat
  <2>1. TypeOK
    BY DEF IInv
  <2> QED
    BY <2>1, ZenonT(30) DEF TypeOK
<1>3. Sized /\ main # "stopped"
  BY <1>1 DEF IInv, AllDone
<1>4. max \in Nat /\ 0 < output.sizes[0] /\ output.sizes[0] =< max
  BY <1>3, ServerAssumption DEF Sized
<1>5. low \in Nat /\ low =< made /\ Holds(output, 0, low, made, max)
  BY <1>2, SMTT(30) DEF IInv, InFlight
<1> HIDE DEF max, low
<1>6. /\ output' \in Scheduler /\ output'.sizes = output.sizes
      /\ Holds(output', 0, low, made', max)
      /\ \A q \in Priorities \ {0} : output'.deque[q] = output.deque[q]
  <2>1. 0 \in Priorities
    BY DEF Priorities
  <2> QED
    BY <2>1, <1>1, <1>2, <1>4, <1>5, PushKeeps
<1>7. TypeOK'
  <2>1. made' \in Nat
    BY <1>1, <1>2, SMTT(30)
  <2> QED
    BY <2>1, <1>1, <1>2, <1>6, Zenon DEF TypeOK
<1>8. Sized' /\ main' # "stopped"
  BY <1>1, <1>3, <1>6, SMTT(30) DEF Sized
<1>9. InFlight'
  BY <1>1, <1>2, <1>5, <1>6 DEF IInv, InFlight, Sending, max, low
<1>10. sent' =< made' /\ output'.deque[1] = << >>
  BY <1>1, <1>2, <1>6 DEF IInv, Priorities
<1> QED
  BY <1>1, <1>7, <1>8, <1>9, <1>10 DEF IInv

-----------------------------------------------------------------------------
(* The steps that leave the packets alone.                                 *)

\* start keeps what is in the queues.
LEMMA StartStep ==
  ASSUME IInv, Start
  PROVE  IInv'
<1>1. TypeOK /\ input \in Scheduler /\ output \in Scheduler /\ starts \in Nat
  <2>1. TypeOK
    BY DEF IInv
  <2> QED
    BY <2>1, Zenon DEF TypeOK
<1>2. ASSUME NEW s \in Scheduler
      PROVE  /\ init(s, MaxSize) \in Scheduler /\ init(s, MaxSize).deque = s.deque
             /\ init(s, MaxSize).sizes[0] = MaxSize
  BY ServerAssumption, Zenon DEF init, Scheduler, Priorities
<1>3. ASSUME NEW s \in Scheduler
      PROVE  /\ set_priority_size(s, 1, 1) \in Scheduler /\ set_priority_size(s, 1, 1).deque = s.deque
             /\ set_priority_size(s, 1, 1).sizes[0] = s.sizes[0] /\ set_priority_size(s, 1, 1).sizes[1] = 1
  BY DEF set_priority_size, Scheduler, Priorities
<1>4. /\ input' \in Scheduler /\ input'.deque = input.deque /\ output' \in Scheduler
      /\ output'.deque = output.deque /\ Sized'
  BY <1>1, <1>2, <1>3 DEF Start, Sized
<1>5. /\ pc' = [t \in Threads |-> "loop"] /\ running' = TRUE /\ main' = "running" /\ starts' \in Nat
      /\ UNCHANGED <<rc, handling, waiting, packet, arrived, made, handled, sent>>
  BY <1>1 DEF Start, errorVars
<1>6. TypeOK'
  BY <1>1, <1>4, <1>5, Zenon DEF TypeOK
<1>7. ~ Sending /\ ~ Sending'
  BY <1>5 DEF Start, IInv, AllDone, Sending, Threads
<1> QED
  BY <1>4, <1>5, <1>6, <1>7, Quiet

\* The steps of stop, and a wakeup for no reason.
LEMMA MainStep ==
  ASSUME IInv, Stop \/ Stopping \/ \E t \in Threads : Spurious(t)
  PROVE  IInv'
<1>1. TypeOK /\ input \in Scheduler /\ output \in Scheduler /\ (Sized \/ AllDone)
  <2>1. TypeOK
    BY DEF IInv
  <2> QED
    BY <2>1, Zenon DEF TypeOK, IInv
<1>2. ASSUME NEW s \in Scheduler
      PROVE  deinit(s) \in Scheduler /\ deinit(s).deque = s.deque /\ deinit(s).sizes = s.sizes
  BY Zenon DEF deinit, Scheduler
<1>3. UNCHANGED <<rc, handling, pc, packet, arrived, made, starts, handled, sent>>
  BY Zenon DEF Stop, Stopping, StopInput, StopOutput, StopNotify, Join, Spurious, errorVars
<1>4. running' \in BOOLEAN /\ waiting' \subseteq {"receiver", "sender", "handler"}
  BY <1>1, Zenon DEF TypeOK, Stop, Stopping, StopInput, StopOutput, StopNotify, Join, Spurious, errorVars
<1>5. /\ input' \in Scheduler /\ input'.deque = input.deque /\ input'.sizes = input.sizes
      /\ output' \in Scheduler /\ output'.deque = output.deque /\ output'.sizes = output.sizes
  BY <1>1, <1>2, Zenon DEF Stop, Stopping, StopInput, StopOutput, StopNotify, Join, Spurious
<1>6. /\ main' \in {"stopped", "running", "deinit input", "deinit output", "notify", "join"}
      /\ main' = "stopped" => AllDone'
  BY <1>1, <1>3, ZenonT(30) DEF TypeOK, IInv, AllDone, Stop, Stopping, StopInput, StopOutput, StopNotify, Join, Spurious
<1>7. TypeOK'
  BY <1>1, <1>3, <1>4, <1>5, <1>6, ZenonT(30) DEF TypeOK
<1>8. (Sized' \/ AllDone') /\ (Sending' <=> Sending)
  BY <1>1, <1>3, <1>5 DEF Sized, AllDone, Sending
<1> QED
  BY <1>3, <1>5, <1>6, <1>7, <1>8, Quiet, Zenon

\* The other steps of the threads.
LEMMA ThreadStep ==
  ASSUME IInv,
         \/ \E t \in Threads, to \in {"receive", "pop", "process", "lock"} : Loop(t, to)
         \/ \E t \in Threads : Wake(t) \/ EndProcess(t)
         \/ ReceiveNothing \/ ReceiveError \/ ReceiverReport \/ SendError
         \/ HandlerLock \/ HandlerSleep \/ HandlerTest \/ HandleSucceeds \/ HandleFails
  PROVE  IInv'
<1> DEFINE Places == {"done", "loop", "receive", "report", "asleep", "pop", "send", "process",
                      "lock", "wait", "test", "handle"}
<1>1. /\ TypeOK /\ pc \in [Threads -> Places] /\ running \in BOOLEAN
      /\ rc \in {"ok", "error"} /\ handling \in BOOLEAN /\ waiting \subseteq {"receiver", "sender", "handler"}
  <2>1. TypeOK
    BY DEF IInv
  <2> QED
    BY <2>1, Zenon DEF TypeOK
<1>2. ASSUME NEW t \in Threads, NEW to \in {"receive", "pop", "process", "lock"}, Loop(t, to)
      PROVE  IInv'
  <2>1. /\ pc[t] = "loop"
        /\ UNCHANGED <<running, input, output, rc, handling, waiting, main, packet, arrived, made, starts,
                       handled, sent>>
    BY <1>2 DEF Loop, errorVars
  <2>2. PICK place \in Places \ {"send", "report"} : Go(t, place)
    BY <1>2 DEF Loop
  <2>3. t = "sender" => ~ Sending
    BY <2>1 DEF Sending
  <2> QED
    BY <2>1, <2>2, <2>3, <1>1, QuietThread
<1>3. ASSUME NEW t \in Threads, Wake(t) \/ EndProcess(t)
      PROVE  IInv'
  <2>1. /\ pc[t] \in {"asleep", "process"} /\ Go(t, "loop")
        /\ UNCHANGED <<running, input, output, rc, handling, waiting, main, packet, arrived, made, starts,
                       handled, sent>>
    BY <1>3, Zenon DEF Wake, EndProcess, errorVars
  <2>2. t = "sender" => ~ Sending
    BY <2>1, Zenon DEF Sending
  <2> QED
    BY <2>1, <2>2, <1>1, QuietThread, SMTT(30)
<1>4. ASSUME ReceiveNothing \/ ReceiveError
      PROVE  IInv'
  <2>1. /\ pc["receiver"] = "receive" /\ "receiver" \in Threads
        /\ UNCHANGED <<running, input, output, rc, handling, waiting, main, packet, arrived, made, starts,
                       handled, sent>>
    BY <1>4 DEF ReceiveNothing, ReceiveError, Threads, errorVars
  <2>2. PICK place \in {"loop", "report"} : Go("receiver", place)
    BY <1>4 DEF ReceiveNothing, ReceiveError
  <2> QED
    BY <2>1, <2>2, <1>1, QuietThread
<1>5. ASSUME ReceiverReport
      PROVE  IInv'
  <2>1. /\ pc["receiver"] = "report" /\ "receiver" \in Threads /\ Go("receiver", "asleep")
        /\ UNCHANGED <<running, input, output, handling, main, packet, arrived, made, starts, handled, sent>>
    BY <1>5 DEF ReceiverReport, Report, Threads
  <2>2. rc' \in {"ok", "error"} /\ waiting' \subseteq {"receiver", "sender", "handler"}
    BY <1>1, <1>5, Zenon DEF ReceiverReport, Report
  <2> QED
    BY <2>1, <2>2, <1>1, QuietThread
<1>6. ASSUME SendError
      PROVE  IInv'
  <2>1. /\ pc["sender"] = "send" /\ "sender" \in Threads /\ Go("sender", "report") /\ Sending
        /\ UNCHANGED <<running, input, output, rc, handling, waiting, main, packet, arrived, made, starts,
                       handled, sent>>
    BY <1>6 DEF SendError, Threads, errorVars, Sending
  <2> QED
    BY <2>1, <1>1, QuietThread
<1>7. ASSUME HandlerLock \/ HandlerSleep \/ HandlerTest \/ HandleSucceeds \/ HandleFails
      PROVE  IInv'
  <2>1. /\ "handler" \in Threads
        /\ UNCHANGED <<running, input, output, main, packet, arrived, made, starts, handled, sent>>
    BY <1>7, Zenon DEF HandlerLock, HandlerSleep, HandlerTest, HandleSucceeds, HandleFails, Threads
  <2>2. /\ rc' \in {"ok", "error"} /\ handling' \in BOOLEAN
        /\ waiting' \subseteq {"receiver", "sender", "handler"}
    BY <1>1, <1>7, ZenonT(30) DEF HandlerLock, HandlerSleep, HandlerTest, HandleSucceeds, HandleFails, Recover, errorVars
  <2>3. pc["handler"] # "done"
    BY <1>7, Zenon DEF HandlerLock, HandlerSleep, HandlerTest, HandleSucceeds, HandleFails
  <2>4. \E place \in Places : Go("handler", place)
    <3>1. CASE HandleFails /\ running
      <4>1. pc' = pc /\ pc' = [pc EXCEPT !["handler"] = pc["handler"]] /\ pc["handler"] \in Places
        BY <3>1, <2>1, <1>1 DEF HandleFails
      <4> QED
        BY <4>1, Zenon DEF Go
    <3>2. CASE ~ (HandleFails /\ running)
      BY <3>2, <1>7, Zenon DEF HandlerLock, HandlerSleep, HandlerTest, HandleSucceeds, HandleFails
    <3> QED
      BY <3>1, <3>2
  <2> QED
    BY <2>1, <2>2, <2>3, <2>4, QuietThread, Zenon
<1> QED
  BY <1>2, <1>3, <1>4, <1>5, <1>6, <1>7

-----------------------------------------------------------------------------
(* The theorems.                                                           *)

\* Every step keeps the invariant.
LEMMA NextIInv == IInv /\ [Next]_vars => IInv'
<1> SUFFICES ASSUME IInv, [Next]_vars PROVE IInv'
  BY SMTT(30)
<1>1. CASE UNCHANGED vars
  <2>1. UNCHANGED <<running, input, output, rc, handling, waiting, pc, main, packet, arrived, made, starts,
                    handled, sent>>
    BY <1>1 DEF vars, errorVars
  <2> QED
    BY <2>1, Zenon DEF IInv, TypeOK, AllDone, Sized, InFlight, Sending, Holds
<1>2. CASE Receiver
  BY <1>2, ReceiveStep, ThreadStep DEF Receiver, Threads
<1>3. CASE Sender
  BY <1>3, SenderPopStep, SendStep, SenderReportStep, ThreadStep DEF Sender, Threads
<1>4. CASE Processing
  BY <1>4, ProcessingPopStep, PushOutputStep, ThreadStep DEF Processing, Threads
<1>5. CASE HeartbeatThread
  BY <1>5, PushOutputStep, ThreadStep, Zenon DEF HeartbeatThread, Threads
<1>6. CASE Handler
  BY <1>6, ThreadStep DEF Handler, Threads
<1>7. CASE Start
  BY <1>7, StartStep
<1>8. CASE Stop \/ Stopping \/ \E t \in Threads : Spurious(t)
  BY <1>8, MainStep
<1> QED
  BY <1>1, <1>2, <1>3, <1>4, <1>5, <1>6, <1>7, <1>8, Zenon DEF Next

\* The queues hold packets in their order, after those taken and sent, and the packet the
\* sender has lies between those sent and those queued.
THEOREM Invariance == Spec => []IInv
<1> QED
  BY InitIInv, NextIInv, PTL DEF Spec

\* push drops the oldest packet of a full queue, and push_front, which has no limit, makes the
\* output queue one packet too long at most, however pushes, pops, errors and restarts follow
\* one another.
THEOREM QueuesAreBounded == Spec => []BoundedQueues
<1>1. IInv => BoundedQueues
  <2> SUFFICES ASSUME IInv PROVE BoundedQueues
    OBVIOUS
  <2>1. TypeOK /\ output \in Scheduler
    BY Zenon DEF IInv, TypeOK
  <2>2. Len(output.deque[0]) \in Nat
    BY <2>1 DEF Scheduler, Priorities
  <2>3. Len(output.deque[0]) =< MaxSize + 1
    BY <2>2, ServerAssumption DEF IInv, InFlight, Holds
  <2> QED
    BY <2>3, Zenon DEF IInv, Holds, BoundedQueues
<1> QED
  BY <1>1, Invariance, PTL

\* The processing thread takes the packets of a priority in the order of their arrival.
THEOREM ProcessingInOrder == Spec => ProcessedInOrder
<1>1. IInv /\ [Next]_vars => [\A p \in Priorities : handled'[p] >= handled[p]]_handled
  <2> SUFFICES ASSUME IInv, [Next]_vars, handled' # handled
               PROVE  \A p \in Priorities : handled'[p] >= handled[p]
    BY SMTT(30)
  <2>1. ProcessingPop /\ input.running
    BY Zenon DEF Next, vars, errorVars, Receiver, Sender, Processing, HeartbeatThread, Handler, Stopping, Loop,
           Receive, ReceiveNothing, ReceiveError, ReceiverReport, Wake, SenderPop, Send, SendFails, SendError,
           SenderReport, ProcessingPop, PushOutput, EndProcess, HandlerLock, HandlerSleep, HandlerTest,
           HandleSucceeds, HandleFails, Start, Stop, StopInput, StopOutput, StopNotify, Join, Spurious
  <2> DEFINE p == available_priority(input)
             max == [q \in Priorities |-> IF q = 0 THEN MaxSize ELSE 1]
  <2>2. handled' = [handled EXCEPT ![p] = front(input)] /\ ~ empty(input)
    BY <2>1 DEF ProcessingPop, CanReturn
  <2>3. input \in Scheduler /\ arrived \in Nat /\ handled \in [Priorities -> Nat]
    <3>1. TypeOK
      BY DEF IInv
    <3> QED
      BY <3>1, Zenon DEF TypeOK
  <2>4. p \in Priorities /\ max[p] \in Nat /\ Holds(input, p, handled[p], arrived, max[p])
    BY ServerAssumption, SMTT(30) DEF IInv, available_priority, Priorities
  <2> HIDE DEF p, max
  <2>5. front(input) \in Nat /\ handled[p] < front(input)
    BY <2>2, <2>3, <2>4, PopTakes, Zenon DEF p
  <2> QED
    BY <2>2, <2>3, <2>4, <2>5
<1> QED
  BY <1>1, Invariance, PTL DEF Spec, ProcessedInOrder

\* The sender sends packets in the order in which they were made, each once at most: one it has
\* put back at the front because of an error is still the oldest when it takes it again.
THEOREM SendingInOrder == Spec => SentInOrder
<1>1. IInv /\ [Next]_vars => [sent' > sent]_sent
  <2> SUFFICES ASSUME IInv, [Next]_vars, sent' # sent
               PROVE  sent' > sent
    BY SMTT(30)
  <2>1. Send
    BY Zenon DEF Next, vars, errorVars, Receiver, Sender, Processing, HeartbeatThread, Handler, Stopping, Loop,
           Receive, ReceiveNothing, ReceiveError, ReceiverReport, Wake, SenderPop, Send, SendFails, SendError,
           SenderReport, ProcessingPop, PushOutput, EndProcess, HandlerLock, HandlerSleep, HandlerTest,
           HandleSucceeds, HandleFails, Start, Stop, StopInput, StopOutput, StopNotify, Join, Spurious
  <2>2. sent' = packet /\ Sending
    BY <2>1 DEF Send, Sending
  <2>3. sent < packet
    BY <2>2, SMTT(30) DEF IInv, InFlight
  <2>4. sent \in Nat /\ packet \in Nat
    BY Zenon DEF IInv, TypeOK
  <2> QED
    BY <2>2, <2>3, <2>4
<1> QED
  BY <1>1, Invariance, PTL DEF Spec, SentInOrder

-----------------------------------------------------------------------------
(* The error monitor: error_mtx_, error_cv_ and transport_rc_.             *)

\* Who waits for the end of an error has reported it, and nobody takes the report back
\* without waking all.  The error handler sleeps alone, when there is nothing to handle:
\* so the notify_one of the first report wakes it and no other.
ErrorInv ==
  /\ waiting \cap {"receiver", "sender"} # {} => rc = "error"
  /\ "handler" \in waiting => waiting = {"handler"}
  /\ "handler" \in waiting \/ pc["handler"] = "wait" => rc = "ok"
  /\ handling <=> pc["handler"] \in {"wait", "test", "handle"}
  /\ running => pc["handler"] # "done"
  /\ \A t \in waiting : pc[t] = "asleep"

\* How far stop has come.
StopInv ==
  /\ running <=> main = "running"
  /\ main \in {"deinit output", "notify", "join"} => ~ input.running
  /\ main \in {"notify", "join"} => ~ output.running

\* A step of a thread that is neither asleep nor the owner of error_mtx_.
LEMMA ErrorsKept ==
  ASSUME TypeOK, ErrorInv, NEW t \in Threads, NEW to, Go(t, to), t \notin waiting,
         UNCHANGED <<running, rc, handling, waiting>>,
         t = "handler" => /\ pc[t] \notin {"wait", "test", "handle"}
                          /\ to \notin {"wait", "test", "handle"}
                          /\ to = "done" => ~ running
  PROVE  ErrorInv'
<1>1. /\ pc \in [Threads -> {"done", "loop", "receive", "report", "asleep", "pop", "send", "process",
                             "lock", "wait", "test", "handle"}]
      /\ waiting \subseteq {"receiver", "sender", "handler"}
  BY Zenon DEF TypeOK
<1>2. pc'[t] = to /\ \A u \in Threads \ {t} : pc'[u] = pc[u]
  BY <1>1, Zenon DEF Go
<1>3. \A u \in waiting : u # t /\ u \in Threads
  BY <1>1 DEF Threads
<1>4. \A u \in waiting : pc'[u] = "asleep"
  BY <1>2, <1>3, Zenon DEF ErrorInv
<1>5. CASE t = "handler"
  BY <1>2, <1>4, <1>5 DEF ErrorInv
<1>6. CASE t # "handler"
  <2>1. pc'["handler"] = pc["handler"]
    BY <1>2, <1>6 DEF Threads
  <2> QED
    BY <2>1, <1>4 DEF ErrorInv
<1> QED
  BY <1>5, <1>6, Zenon

\* A step of no thread, which may wake some.
LEMMA ErrorsWoken ==
  ASSUME ErrorInv, waiting' \subseteq waiting, running' => running, UNCHANGED <<rc, handling, pc>>
  PROVE  ErrorInv'
BY DEF ErrorInv

\* An error is reported.
LEMMA ReportStep ==
  ASSUME TypeOK, ErrorInv, NEW t \in {"receiver", "sender"}, Report(t), Go(t, "asleep"), running' = running
  PROVE  ErrorInv'
<1>1. /\ pc \in [Threads -> {"done", "loop", "receive", "report", "asleep", "pop", "send", "process",
                             "lock", "wait", "test", "handle"}]
      /\ waiting \subseteq {"receiver", "sender", "handler"}
  BY Zenon DEF TypeOK
<1>2. pc'[t] = "asleep" /\ (\A u \in Threads \ {t} : pc'[u] = pc[u]) /\ pc'["handler"] = pc["handler"]
  BY <1>1 DEF Go, Threads
<1>3. rc' = "error" /\ handling' = handling /\ ~ handling
  BY DEF Report
<1>4. waiting' \subseteq waiting \cup {t} /\ "handler" \notin waiting'
  <2>1. CASE waiting = {}
    BY <2>1 DEF Report
  <2>2. CASE waiting # {}
    <3>1. PICK w \in waiting : waiting' = (waiting \ {w}) \cup {t}
      BY <2>2 DEF Report
    <3>2. "handler" \in waiting => w = "handler"
      BY DEF ErrorInv
    <3> QED
      BY <3>1, <3>2
  <2> QED
    BY <2>1, <2>2
<1>5. \A u \in waiting' : pc'[u] = "asleep"
  <2> TAKE u \in waiting'
  <2>1. u = t \/ (u \in waiting /\ u \in Threads \ {t})
    BY <1>1, <1>4 DEF Threads
  <2> QED
    BY <2>1, <1>2, Zenon DEF ErrorInv
<1> QED
  BY <1>2, <1>3, <1>4, <1>5, Zenon DEF ErrorInv

\* The error handler takes error_mtx_, tests, sleeps, handles the error.
LEMMA HandlerStep ==
  ASSUME TypeOK, ErrorInv, HandlerLock \/ HandlerSleep \/ HandlerTest \/ HandleSucceeds \/ HandleFails
  PROVE  ErrorInv'
<1>1. /\ pc \in [Threads -> {"done", "loop", "receive", "report", "asleep", "pop", "send", "process",
                             "lock", "wait", "test", "handle"}]
      /\ waiting \subseteq {"receiver", "sender", "handler"} /\ rc \in {"ok", "error"}
      /\ running \in BOOLEAN
  BY Zenon DEF TypeOK
<1>2. ASSUME NEW to, Go("handler", to)
      PROVE  pc'["handler"] = to /\ \A u \in waiting \ {"handler"} : pc'[u] = "asleep"
  <2>1. pc'["handler"] = to /\ \A u \in Threads \ {"handler"} : pc'[u] = pc[u]
    BY <1>1, <1>2 DEF Go, Threads
  <2> QED
    BY <1>1, <2>1, Zenon DEF ErrorInv, Threads
<1>3. running' = running
  BY Zenon DEF HandlerLock, HandlerSleep, HandlerTest, HandleSucceeds, HandleFails
<1>4. CASE HandlerLock
  <2>1. PICK to \in {"test", "wait"} : Go("handler", to) /\ (to = "wait" => rc # "error")
    BY <1>4 DEF HandlerLock
  <2>2. handling' = TRUE /\ rc' = rc /\ waiting' = waiting /\ "handler" \notin waiting
    BY <1>4 DEF HandlerLock
  <2>3. pc'["handler"] = to /\ \A u \in waiting \ {"handler"} : pc'[u] = "asleep"
    BY <2>1, <1>2
  <2> QED
    BY <2>1, <2>2, <2>3, <1>1 DEF ErrorInv
<1>5. CASE HandlerSleep
  <2>1. /\ Go("handler", "asleep") /\ handling' = FALSE /\ rc' = rc /\ waiting' = waiting \cup {"handler"}
        /\ rc = "ok"
    BY <1>5 DEF HandlerSleep, ErrorInv
  <2>2. waiting' = {"handler"}
    BY <2>1, <1>1, Zenon DEF ErrorInv
  <2>3. pc'["handler"] = "asleep"
    BY <2>1, <1>2
  <2> QED
    BY <2>1, <2>2, <2>3 DEF ErrorInv
<1>6. CASE HandlerTest
  <2>1. /\ Go("handler", IF running THEN "handle" ELSE "loop") /\ handling' = running /\ rc' = rc
        /\ waiting' = waiting
    BY <1>6 DEF HandlerTest
  <2>2. "handler" \notin waiting
    BY <1>6 DEF HandlerTest, ErrorInv
  <2>3. /\ pc'["handler"] = IF running THEN "handle" ELSE "loop"
        /\ \A u \in waiting \ {"handler"} : pc'[u] = "asleep"
    BY <2>1, <1>2
  <2> QED
    BY <2>1, <2>2, <2>3, <1>1 DEF ErrorInv
<1>7. CASE HandleFails /\ running
  <2>1. UNCHANGED <<rc, handling, waiting, pc>>
    BY <1>7 DEF HandleFails, errorVars
  <2> QED
    BY <2>1, <1>3, ErrorsWoken
<1>8. CASE HandleSucceeds \/ (HandleFails /\ ~ running)
  <2>1. Go("handler", "loop") /\ handling' = FALSE /\ waiting' = {}
    BY <1>8 DEF HandleSucceeds, HandleFails, Recover
  <2>2. pc'["handler"] = "loop"
    BY <2>1, <1>2
  <2> QED
    BY <2>1, <2>2 DEF ErrorInv
<1> QED
  BY <1>4, <1>5, <1>6, <1>7, <1>8

\* No step lets an error go unnoticed.
LEMMA NextErrorInv ==
  ASSUME IInv, ErrorInv, Next
  PROVE  ErrorInv'
<1>1. TypeOK
  BY DEF IInv
<1>2. ASSUME NEW t \in Threads, NEW to, Loop(t, to), to \in {"receive", "pop", "process", "lock"}
      PROVE  ErrorInv'
  <2>1. /\ pc[t] = "loop" /\ Go(t, IF running THEN to ELSE "done")
        /\ UNCHANGED <<running, rc, handling, waiting>>
    BY <1>2 DEF Loop, errorVars
  <2>2. t \notin waiting
    BY <2>1 DEF ErrorInv
  <2> DEFINE place == IF running THEN to ELSE "done"
  <2>3. place \notin {"wait", "test", "handle"} /\ (place = "done" => ~ running)
    BY <1>2
  <2>4. Go(t, place)
    BY <2>1
  <2> HIDE DEF place
  <2> QED
    BY <2>1, <2>2, <2>3, <2>4, <1>1, ErrorsKept
<1>3. ASSUME NEW t \in Threads \ {"handler"}, NEW to, pc[t] # "asleep" \/ t \notin waiting, Go(t, to),
             UNCHANGED <<running, errorVars>>
      PROVE  ErrorInv'
  <2>1. t \notin waiting /\ UNCHANGED <<running, rc, handling, waiting>>
    BY <1>3 DEF ErrorInv, errorVars
  <2> QED
    BY <2>1, <1>1, <1>3, ErrorsKept
<1>4. CASE Receiver
  <2>1. CASE ReceiverReport
    BY <2>1, <1>1, ReportStep DEF ReceiverReport
  <2>2. CASE \E p \in Priorities : Receive(p)
    BY <2>2, <1>3 DEF Receive, Threads
  <2>3. CASE ReceiveNothing \/ ReceiveError
    BY <2>3, <1>3 DEF ReceiveNothing, ReceiveError, Threads
  <2>4. CASE Wake("receiver")
    BY <2>4, <1>3 DEF Wake, Threads
  <2>5. CASE Loop("receiver", "receive")
    BY <2>5, <1>2 DEF Threads
  <2> QED
    BY <1>4, <2>1, <2>2, <2>3, <2>4, <2>5 DEF Receiver
<1>5. CASE Sender
  <2>1. CASE SenderReport
    BY <2>1, <1>1, ReportStep DEF SenderReport
  <2>2. CASE SenderPop
    BY <2>2, <1>3 DEF SenderPop, Threads
  <2>3. CASE Send \/ SendFails \/ SendError
    BY <2>3, <1>3 DEF Send, SendFails, SendError, Threads
  <2>4. CASE Wake("sender")
    BY <2>4, <1>3 DEF Wake, Threads
  <2>5. CASE Loop("sender", "pop")
    BY <2>5, <1>2 DEF Threads
  <2> QED
    BY <1>5, <2>1, <2>2, <2>3, <2>4, <2>5 DEF Sender
<1>6. ASSUME NEW t \in Threads, PushOutput(t)
      PROVE  ErrorInv'
  <2>1. UNCHANGED <<running, rc, handling, waiting, pc>>
    BY <1>6 DEF PushOutput, errorVars
  <2> QED
    BY <2>1, ErrorsWoken
<1>7. CASE Processing \/ HeartbeatThread
  <2>1. CASE ProcessingPop
    BY <2>1, <1>3 DEF ProcessingPop, Threads
  <2>2. CASE EndProcess("processing") \/ EndProcess("heartbeat")
    BY <2>2, <1>3 DEF EndProcess, Threads
  <2>3. CASE Loop("processing", "pop") \/ Loop("heartbeat", "process")
    BY <2>3, <1>2 DEF Threads
  <2>4. CASE PushOutput("processing") \/ PushOutput("heartbeat")
    BY <2>4, <1>6 DEF Threads
  <2> QED
    BY <1>7, <2>1, <2>2, <2>3, <2>4 DEF Processing, HeartbeatThread
<1>8. CASE Handler
  BY <1>8, <1>1, <1>2, HandlerStep DEF Handler, Threads
<1>9. CASE Start
  <2>1. \A t \in Threads : pc[t] = "done"
    BY <1>9 DEF Start, IInv, AllDone
  <2>2. waiting = {} /\ ~ handling
    <3>1. waiting \subseteq Threads
      BY <1>1 DEF TypeOK, Threads
    <3> QED
      BY <2>1, <3>1 DEF ErrorInv, Threads
  <2>3. pc'["handler"] = "loop" /\ UNCHANGED <<rc, handling, waiting>>
    BY <1>9 DEF Start, errorVars, Threads
  <2> QED
    BY <2>2, <2>3 DEF ErrorInv
<1>10. CASE Stop \/ Stopping \/ \E t \in Threads : Spurious(t)
  <2>1. waiting' \subseteq waiting /\ UNCHANGED <<rc, handling, pc>>
    BY <1>10, Zenon DEF Stop, Stopping, StopInput, StopOutput, StopNotify, Join, Spurious, errorVars
  <2>2. running' => running
    BY <1>10, Zenon DEF Stop, Stopping, StopInput, StopOutput, StopNotify, Join, Spurious
  <2> QED
    BY <2>1, <2>2, ErrorsWoken
<1> QED
  BY <1>4, <1>5, <1>7, <1>8, <1>9, <1>10 DEF Next

\* The two queues stay started, or stopped, but for start and stop.
LEMMA NextStopInv ==
  ASSUME IInv, StopInv, Next
  PROVE  StopInv'
<1>1. input \in Scheduler /\ output \in Scheduler /\ running \in BOOLEAN
  <2>1. TypeOK
    BY DEF IInv
  <2> QED
    BY <2>1, Zenon DEF TypeOK
<1>2. ASSUME NEW s \in Scheduler
      PROVE  /\ ~ deinit(s).running /\ popped(s).running = s.running
             /\ \A x, p : push(s, x, p).running = s.running /\ push_front(s, x, p).running = s.running
  BY Zenon DEF Scheduler, deinit, popped, push, push_front
<1>3. CASE Receiver \/ Sender \/ Processing \/ HeartbeatThread \/ Handler \/ \E t \in Threads : Spurious(t)
  <2>1. running' = running /\ main' = main
    BY <1>3, Zenon DEF Receiver, Sender, Processing, HeartbeatThread, Handler, Loop, Receive, ReceiveNothing,
           ReceiveError, ReceiverReport, Wake, SenderPop, Send, SendFails, SendError, SenderReport,
           ProcessingPop, PushOutput, EndProcess, HandlerLock, HandlerSleep, HandlerTest, HandleSucceeds,
           HandleFails, Spurious
  <2>2. input'.running = input.running
    <3>1. \/ input' \in {input, popped(input)}
          \/ \E x, p : input' = push(input, x, p)
      BY <1>3, Zenon DEF Receiver, Sender, Processing, HeartbeatThread, Handler, Loop, Receive, ReceiveNothing,
             ReceiveError, ReceiverReport, Wake, SenderPop, Send, SendFails, SendError, SenderReport,
             ProcessingPop, PushOutput, EndProcess, HandlerLock, HandlerSleep, HandlerTest, HandleSucceeds,
             HandleFails, Spurious
    <3>2. /\ popped(input).running = input.running
          /\ \A x, p : push(input, x, p).running = input.running
      BY <1>1, <1>2
    <3> QED
      BY <3>1, <3>2
  <2>3. output'.running = output.running
    <3>1. \/ output' \in {output, popped(output)}
          \/ \E x, p : output' = push(output, x, p) \/ output' = push_front(output, x, p)
      BY <1>3, Zenon DEF Receiver, Sender, Processing, HeartbeatThread, Handler, Loop, Receive, ReceiveNothing,
             ReceiveError, ReceiverReport, Wake, SenderPop, Send, SendFails, SendError, SenderReport,
             ProcessingPop, PushOutput, EndProcess, HandlerLock, HandlerSleep, HandlerTest, HandleSucceeds,
             HandleFails, Spurious
    <3>2. /\ popped(output).running = output.running
          /\ \A x, p : push(output, x, p).running = output.running /\ push_front(output, x, p).running = output.running
      BY <1>1, <1>2
    <3> QED
      BY <3>1, <3>2
  <2> QED
    BY <2>1, <2>2, <2>3 DEF StopInv
<1>4. CASE Start
  BY <1>4 DEF Start, StopInv
<1>5. CASE Stop
  BY <1>5 DEF Stop, StopInv
<1>6. CASE Stopping
  <2>1. CASE StopInput
    BY <2>1, <1>1, <1>2, Zenon DEF StopInput, StopInv
  <2>2. CASE StopOutput
    BY <2>2, <1>1, <1>2, Zenon DEF StopOutput, StopInv
  <2>3. CASE StopNotify
    BY <2>3, Zenon DEF StopNotify, StopInv
  <2>4. CASE Join
    BY <2>4, Zenon DEF Join, StopInv
  <2> QED
    BY <1>6, <2>1, <2>2, <2>3, <2>4 DEF Stopping
<1> QED
  BY <1>3, <1>4, <1>5, <1>6 DEF Next

\* Nobody sleeps, and nothing has been started.
LEMMA InitErrors == Init => ErrorInv /\ StopInv
BY DEF Init, ErrorInv, StopInv, Threads, NewScheduler

\* The error monitor keeps its invariant.
THEOREM MonitorInvariance == Spec => [](ErrorInv /\ StopInv)
<1>1. IInv /\ ErrorInv /\ StopInv /\ [Next]_vars => (ErrorInv /\ StopInv)'
  <2> SUFFICES ASSUME IInv, ErrorInv, StopInv, [Next]_vars PROVE (ErrorInv /\ StopInv)'
    BY SMTT(30)
  <2>1. CASE Next
    BY <2>1, NextErrorInv, NextStopInv
  <2>2. CASE UNCHANGED vars
    BY <2>2 DEF vars, errorVars, ErrorInv, StopInv
  <2> QED
    BY <2>1, <2>2
<1> QED
  BY <1>1, Invariance, InitErrors, PTL DEF Spec

\* A receiver or sender that has reported an error with notify_one, on the condition variable
\* it waits for itself, is not forgotten: the report stands until all are woken, and the error
\* handler of a running server is there and awake for it.
THEOREM ErrorsAreNoticed == Spec => []ErrorIsNoticed
<1>1. ErrorInv => ErrorIsNoticed
  BY Zenon DEF ErrorInv, ErrorIsNoticed
<1> QED
  BY <1>1, MonitorInvariance, PTL

\* When stop joins the threads, each loop is over at its next test, pop waits for nothing, and
\* error_mtx_ is free or with the error handler: only a thread asleep in error_cv_ can keep it.
THEOREM StopIsKeptBySleepOnly == Spec => []OnlySleepKeepsStop
<1>1. ErrorInv /\ StopInv => OnlySleepKeepsStop
  BY DEF ErrorInv, StopInv, OnlySleepKeepsStop, CanReturn
<1> QED
  BY <1>1, MonitorInvariance, PTL
=============================================================================
