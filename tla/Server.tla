------------------------------- MODULE Server -------------------------------
(***************************************************************************)
(* Class Server (transport/Server.cpp): its five threads, the two queues   *)
(* between them, recovery from transport errors, start and stop.           *)
(*                                                                         *)
(* error_mtx_ is held by the error handler while it handles an error, and  *)
(* by the others only for a moment; waiting is the wait set of error_cv_.  *)
(* The receiver and the sender wait there without a predicate.  The        *)
(* transport (recv_message, send_message, handle_error) is external: it    *)
(* receives and sends packets, which are numbered in their order, or fails.*)
(***************************************************************************)
EXTENDS PacketScheduler, FiniteSets

CONSTANTS
  MaxSize,       \* SERVER_QUEUE_MAX_SIZE
  MaxArrivals,   \* bound on the packets that arrive
  MaxOutputs,    \* bound on the packets the agent makes
  MaxStarts,     \* bound on the calls of start
  Errors,        \* does the transport report errors of the server?
  Stops          \* is stop called?

ASSUME ServerAssumption ==
  /\ MaxSize \in Nat \ {0}
  /\ MaxArrivals \in Nat /\ MaxOutputs \in Nat /\ MaxStarts \in Nat
  /\ Errors \in BOOLEAN /\ Stops \in BOOLEAN

Threads == {"receiver", "sender", "processing", "heartbeat", "handler"}

VARIABLES
  running,     \* running_cond_
  input,       \* input_scheduler_
  output,      \* output_scheduler_
  rc,          \* transport_rc_
  handling,    \* does the error handler hold error_mtx_?
  waiting,     \* threads asleep in error_cv_
  pc,          \* where each thread is
  main,        \* where the thread that calls start and stop is
  packet,      \* the packet the sender is sending
  arrived, made, starts,   \* counters
  handled,     \* history: the last packet of each priority taken for processing
  sent         \* history: the last packet sent

errorVars == <<rc, handling, waiting>>

vars == <<running, input, output, errorVars, pc, main, packet, arrived, made, starts,
          handled, sent>>

Init ==
  /\ running = FALSE
  /\ input = NewScheduler /\ output = NewScheduler
  /\ rc = "ok" /\ handling = FALSE /\ waiting = {}
  /\ pc = [t \in Threads |-> "done"]
  /\ main = "stopped"
  /\ packet = 0
  /\ arrived = 0 /\ made = 0 /\ starts = 0
  /\ handled = [p \in Priorities |-> 0]
  /\ sent = 0

Go(t, to) == pc' = [pc EXCEPT ![t] = to]

\* The test of running_cond_ at the top of a loop.
Loop(t, to) ==
  /\ pc[t] = "loop"
  /\ Go(t, IF running THEN to ELSE "done")
  /\ UNCHANGED <<running, input, output, errorVars, main, packet, arrived, made, starts,
                 handled, sent>>

-----------------------------------------------------------------------------
(* receiver_loop *)

\* A packet that is a lone HEARTBEAT has priority 1.
Receive(p) ==
  /\ pc["receiver"] = "receive" /\ arrived < MaxArrivals
  /\ arrived' = arrived + 1
  /\ input' = push(input, arrived', p)
  /\ Go("receiver", "loop")
  /\ UNCHANGED <<running, output, errorVars, main, packet, made, starts, handled, sent>>

\* Nothing within RECEIVE_TIMEOUT, or an error of no concern.
ReceiveNothing ==
  /\ pc["receiver"] = "receive"
  /\ Go("receiver", "loop")
  /\ UNCHANGED <<running, input, output, errorVars, main, packet, arrived, made, starts,
                 handled, sent>>

\* server_error, with running_cond_ tested a moment before error_mtx_ is locked.
ReceiveError ==
  /\ Errors /\ pc["receiver"] = "receive"
  /\ Go("receiver", IF running THEN "report" ELSE "loop")
  /\ UNCHANGED <<running, input, output, errorVars, main, packet, arrived, made, starts,
                 handled, sent>>

\* The critical section that reports an error: notify_one, wait.
Report(t) ==
  /\ ~ handling
  /\ rc' = "error"
  /\ IF waiting = {} THEN waiting' = {t}
     ELSE \E w \in waiting : waiting' = (waiting \ {w}) \cup {t}
  /\ UNCHANGED handling

ReceiverReport ==
  /\ pc["receiver"] = "report"
  /\ Report("receiver")
  /\ Go("receiver", "asleep")
  /\ UNCHANGED <<running, input, output, main, packet, arrived, made, starts, handled, sent>>

\* The end of wait, which locks error_mtx_ again, for the receiver or the sender.
Wake(t) ==
  /\ pc[t] = "asleep" /\ t \notin waiting /\ ~ handling
  /\ Go(t, "loop")
  /\ UNCHANGED <<running, input, output, errorVars, main, packet, arrived, made, starts,
                 handled, sent>>

-----------------------------------------------------------------------------
(* sender_loop *)

SenderPop ==
  /\ pc["sender"] = "pop" /\ CanReturn(output)
  /\ IF output.running THEN /\ packet' = front(output)
                            /\ output' = popped(output)
                            /\ Go("sender", "send")
     ELSE Go("sender", "loop") /\ UNCHANGED <<packet, output>>
  /\ UNCHANGED <<running, input, errorVars, main, arrived, made, starts, handled, sent>>

Send ==
  /\ pc["sender"] = "send"
  /\ sent' = packet /\ packet' = 0
  /\ Go("sender", "loop")
  /\ UNCHANGED <<running, input, output, errorVars, main, arrived, made, starts, handled>>

\* An error that is not the server's, or any error while the server stops: the
\* packet is dropped.
SendFails ==
  /\ pc["sender"] = "send"
  /\ packet' = 0
  /\ Go("sender", "loop")
  /\ UNCHANGED <<running, input, output, errorVars, main, arrived, made, starts, handled, sent>>

SendError ==
  /\ Errors /\ pc["sender"] = "send" /\ running
  /\ Go("sender", "report")
  /\ UNCHANGED <<running, input, output, errorVars, main, packet, arrived, made, starts,
                 handled, sent>>

SenderReport ==
  /\ pc["sender"] = "report"
  /\ Report("sender")
  /\ output' = push_front(output, packet, 0) /\ packet' = 0
  /\ Go("sender", "asleep")
  /\ UNCHANGED <<running, input, main, arrived, made, starts, handled, sent>>

-----------------------------------------------------------------------------
(* processing_loop, heartbeat_loop *)

ProcessingPop ==
  /\ pc["processing"] = "pop" /\ CanReturn(input)
  /\ IF input.running
     THEN /\ handled' = [handled EXCEPT ![available_priority(input)] = front(input)]
          /\ input' = popped(input)
          /\ Go("processing", "process")
     ELSE Go("processing", "loop") /\ UNCHANGED <<handled, input>>
  /\ UNCHANGED <<running, output, errorVars, main, packet, arrived, made, starts, sent>>

\* push_output_packet, by a thread that is in the processor.
PushOutput(t) ==
  /\ pc[t] = "process" /\ made < MaxOutputs
  /\ made' = made + 1
  /\ output' = push(output, made', 0)
  /\ UNCHANGED <<running, input, errorVars, pc, main, packet, arrived, starts, handled, sent>>

\* The end of process_input_packet, or of check_heartbeats and the pause after it.
EndProcess(t) ==
  /\ pc[t] = "process"
  /\ Go(t, "loop")
  /\ UNCHANGED <<running, input, output, errorVars, main, packet, arrived, made, starts,
                 handled, sent>>

-----------------------------------------------------------------------------
(* error_handler_loop *)

\* Lock error_mtx_, or lock it again after a wakeup, and test the predicate.  stop changes
\* running_cond_ without error_mtx_, so the test and the sleep are two steps.
HandlerLock ==
  /\ pc["handler"] \in {"lock", "asleep"} /\ "handler" \notin waiting /\ ~ handling
  /\ handling' = TRUE
  /\ Go("handler", IF ~ running \/ rc = "error" THEN "test" ELSE "wait")
  /\ UNCHANGED <<running, input, output, rc, waiting, main, packet, arrived, made, starts,
                 handled, sent>>

HandlerSleep ==
  /\ pc["handler"] = "wait"
  /\ waiting' = waiting \cup {"handler"} /\ handling' = FALSE
  /\ Go("handler", "asleep")
  /\ UNCHANGED <<running, input, output, rc, main, packet, arrived, made, starts, handled, sent>>

HandlerTest ==
  /\ pc["handler"] = "test"
  /\ Go("handler", IF running THEN "handle" ELSE "loop")
  /\ handling' = running
  /\ UNCHANGED <<running, input, output, rc, waiting, main, packet, arrived, made, starts,
                 handled, sent>>

\* Mutant: the threads that wait are not told.
Bug_RecoverSilent ==
  /\ rc' = "ok" /\ handling' = FALSE
  /\ UNCHANGED waiting

\* The end of an error: notify_all, unlock.
Recover ==
  /\ rc' = "ok" /\ handling' = FALSE
  /\ waiting' = {}

\* handle_error succeeds,
HandleSucceeds ==
  /\ pc["handler"] = "handle"
  /\ Recover
  /\ Go("handler", "loop")
  /\ UNCHANGED <<running, input, output, main, packet, arrived, made, starts, handled, sent>>

\* or fails, and is called again unless the server stops.
HandleFails ==
  /\ pc["handler"] = "handle"
  /\ IF running THEN UNCHANGED <<errorVars, pc>> ELSE Recover /\ Go("handler", "loop")
  /\ UNCHANGED <<running, input, output, main, packet, arrived, made, starts, handled, sent>>

-----------------------------------------------------------------------------
(* start and stop *)

Start ==
  /\ main = "stopped" /\ starts < MaxStarts
  /\ starts' = starts + 1
  /\ input' = set_priority_size(init(input, MaxSize), 1, 1)
  /\ output' = init(output, MaxSize)
  /\ running' = TRUE
  /\ pc' = [t \in Threads |-> "loop"]
  /\ main' = "running"
  /\ UNCHANGED <<errorVars, packet, arrived, made, handled, sent>>

Stop ==
  /\ Stops /\ main = "running"
  /\ running' = FALSE
  /\ main' = "deinit input"
  /\ UNCHANGED <<input, output, errorVars, pc, packet, arrived, made, starts, handled, sent>>

\* Mutant: the input queue is not told.
Bug_InputLeft ==
  /\ main = "deinit input"
  /\ main' = "deinit output"
  /\ UNCHANGED <<running, input, output, errorVars, pc, packet, arrived, made, starts, handled,
                 sent>>

StopInput ==
  /\ main = "deinit input"
  /\ input' = deinit(input)
  /\ main' = "deinit output"
  /\ UNCHANGED <<running, output, errorVars, pc, packet, arrived, made, starts, handled, sent>>

StopOutput ==
  /\ main = "deinit output"
  /\ output' = deinit(output)
  /\ main' = "notify"
  /\ UNCHANGED <<running, input, errorVars, pc, packet, arrived, made, starts, handled, sent>>

\* error_cv_.notify_all, without error_mtx_.
StopNotify ==
  /\ main = "notify"
  /\ waiting' = {}
  /\ main' = "join"
  /\ UNCHANGED <<running, input, output, rc, handling, pc, packet, arrived, made, starts,
                 handled, sent>>

\* The five joins and fini.
Join ==
  /\ main = "join" /\ \A t \in Threads : pc[t] = "done"
  /\ main' = "stopped"
  /\ UNCHANGED <<running, input, output, errorVars, pc, packet, arrived, made, starts, handled,
                 sent>>

-----------------------------------------------------------------------------
Receiver ==
  \/ Loop("receiver", "receive")
  \/ \E p \in Priorities : Receive(p)
  \/ ReceiveNothing \/ ReceiveError \/ ReceiverReport \/ Wake("receiver")

Sender ==
  \/ Loop("sender", "pop") \/ SenderPop \/ Send \/ SendFails \/ SendError \/ SenderReport
  \/ Wake("sender")

Processing ==
  \/ Loop("processing", "pop") \/ ProcessingPop \/ PushOutput("processing")
  \/ EndProcess("processing")

HeartbeatThread ==
  \/ Loop("heartbeat", "process") \/ PushOutput("heartbeat") \/ EndProcess("heartbeat")

Handler ==
  \/ Loop("handler", "lock") \/ HandlerLock \/ HandlerSleep \/ HandlerTest
  \/ HandleSucceeds \/ HandleFails

Stopping == StopInput \/ StopOutput \/ StopNotify \/ Join

\* A condition variable may wake a thread for no reason.
Spurious(t) ==
  /\ t \in waiting
  /\ waiting' = waiting \ {t}
  /\ UNCHANGED <<running, input, output, rc, handling, pc, main, packet, arrived, made, starts,
                 handled, sent>>

Next ==
  \/ Receiver \/ Sender \/ Processing \/ HeartbeatThread \/ Handler
  \/ Start \/ Stop \/ Stopping
  \/ \E t \in Threads : Spurious(t)

Spec == Init /\ [][Next]_vars

\* Every thread that can take a step takes one in the end, and the processor ends
\* each packet and each round.
ThreadsRun ==
  /\ WF_vars(Receiver) /\ WF_vars(Sender) /\ WF_vars(Processing) /\ WF_vars(HeartbeatThread)
  /\ \A t \in {"processing", "heartbeat"} : WF_vars(EndProcess(t))
  /\ WF_vars(Handler) /\ WF_vars(Stopping)

\* A thread gets error_mtx_ in the end when others let go of it again and again,
\* and handle_error, called again and again, succeeds in the end.
ErrorsEnd ==
  /\ \A t \in {"receiver", "sender"} : SF_vars(Wake(t))
  /\ SF_vars(ReceiverReport) /\ SF_vars(SenderReport) /\ SF_vars(HandlerLock)
  /\ SF_vars(HandleSucceeds)

FairSpec == Spec /\ ThreadsRun

RecoverySpec == FairSpec /\ ErrorsEnd

-----------------------------------------------------------------------------
(* Properties. *)

Scheduler == [deque : [Priorities -> Seq(Nat)], sizes : [Priorities -> Nat], running : BOOLEAN]

TypeOK ==
  /\ running \in BOOLEAN /\ handling \in BOOLEAN
  /\ input \in Scheduler /\ output \in Scheduler
  /\ rc \in {"ok", "error"}
  /\ waiting \subseteq {"receiver", "sender", "handler"}
  /\ pc \in [Threads -> {"done", "loop", "receive", "report", "asleep", "pop", "send", "process",
                         "lock", "wait", "test", "handle"}]
  /\ main \in {"stopped", "running", "deinit input", "deinit output", "notify", "join"}
  /\ packet \in Nat /\ arrived \in Nat /\ made \in Nat /\ starts \in Nat
  /\ handled \in [Priorities -> Nat] /\ sent \in Nat

\* The queues are bounded although push_front has no limit: the packet it puts
\* back is one that pop took, so the output queue is at most one too long.
BoundedQueues ==
  /\ Len(input.deque[0]) =< MaxSize /\ Len(input.deque[1]) =< 1
  /\ Len(output.deque[0]) =< MaxSize + 1 /\ output.deque[1] = << >>

\* Packets of a priority are processed in the order in which they arrived; those
\* the queue drops leave gaps.
ProcessedInOrder == [][\A p \in Priorities : handled'[p] >= handled[p]]_handled

\* Packets are sent in the order in which they were made, and none twice, also
\* when a transport error puts one back while other threads push.
SentInOrder == [][sent' > sent]_sent

\* While the server runs, a thread that waits for the end of an error goes on.
ErrorsAreHandled ==
  \A t \in {"receiver", "sender"} : pc[t] = "asleep" ~> pc[t] # "asleep" \/ ~ running

\* The safety of it.  An error that somebody waits for is not forgotten, although
\* notify_one may wake anyone: it stays reported, and while the server runs the error
\* handler is awake for it.
ErrorIsNoticed ==
  waiting \cap {"receiver", "sender"} # {} =>
    rc = "error" /\ "handler" \notin waiting /\ (running => pc["handler"] # "done")

\* stop ends all five threads and returns.
StopReturns == main \notin {"running", "stopped"} ~> main = "stopped"

\* It does unless the receiver, the sender or the error handler, each of which tests
\* running_cond_ a moment earlier, goes to sleep after its notify_all.
StopReturnsOrSleeps ==
  main \notin {"running", "stopped"} ~>
    main = "stopped" \/ (main = "join" /\ waiting # {})

\* The safety of it.  Once stop joins, error_cv_ is all that can keep a thread: pop
\* returns, every loop ends, and error_mtx_ is in nobody's hands but the error handler's
\* on its way.
OnlySleepKeepsStop ==
  main = "join" =>
    /\ ~ running /\ CanReturn(input) /\ CanReturn(output)
    /\ handling => pc["handler"] \in {"wait", "test", "handle"}
    /\ \A t \in Threads : pc[t] = "asleep" \/ t \notin waiting
=============================================================================
