------------------------------ MODULE Clients -------------------------------
(***************************************************************************)
(* The processing thread, the heartbeat thread and a caller of the Agent   *)
(* class over Root and SessionManager: CREATE_CLIENT, DELETE of a client,  *)
(* every other packet of a session as far as it concerns the client's      *)
(* state, and the round of check_heartbeats (processor/Processor.cpp).     *)
(* The threads meet at every mutex, so a handler is one step per critical  *)
(* section; proc, hb and api hold where each thread is and its local       *)
(* variables.                                                              *)
(***************************************************************************)
EXTENDS Root

CONSTANTS
  HardLiveliness,   \* may a client ask for the liveliness check (uxr_hl)?
  LocalCalls        \* does the program call Agent::create_client, delete_client?

ASSUME ClientsAssumption == HardLiveliness \in BOOLEAN /\ LocalCalls \in BOOLEAN

VARIABLES proc, hb, api

vars == <<sessionVars, rootVars, proc, hb, api>>

Idle == [pc |-> "idle", source |-> None, old |-> None, key |-> None, session |-> None,
         hard |-> FALSE, delete |-> FALSE, client |-> None]

Resting == [pc |-> "next", client |-> None, state |-> "alive", tries |-> 0]

Init ==
  /\ SessionInit /\ RootInit
  /\ proc = Idle
  /\ hb = Resting
  /\ api = [pc |-> "idle", key |-> None]

\* What the three threads refer to.
Held == {proc.client, hb.client}

-----------------------------------------------------------------------------
(* The processing thread. *)

\* process_create_client_submessage, up to its first lock.
RecvCreate(e, k, s, hard) ==
  /\ proc.pc = "idle"
  /\ LET old == get_client_key(e)
     IN  proc' = [Idle EXCEPT !.pc = IF old \in {None, k} THEN "create" ELSE "create_find",
                              !.source = e, !.key = k, !.session = s, !.hard = hard,
                              !.old = IF old = k THEN None ELSE old]
  /\ UNCHANGED <<sessionVars, rootVars, hb, api>>

\* delete_client of the client the endpoint had before: get_client, erase.
CreateFind ==
  /\ proc.pc = "create_find"
  /\ proc' = [proc EXCEPT !.pc = IF get_client(proc.old) = None
                                 THEN "create_destroy" ELSE "create_erase"]
  /\ UNCHANGED <<sessionVars, rootVars, hb, api>>

CreateErase ==
  /\ proc.pc = "create_erase"
  /\ erase(proc.old, Held)
  /\ proc' = [proc EXCEPT !.pc = "create_destroy"]
  /\ UNCHANGED <<sessionVars, hb, api>>

\* Mutant: the session of the old client stays.
Bug_SessionKept ==
  /\ proc.pc = "create_destroy"
  /\ proc' = [proc EXCEPT !.pc = "create", !.old = None]
  /\ UNCHANGED <<sessionVars, rootVars, hb, api>>

CreateDestroy ==
  /\ proc.pc = "create_destroy"
  /\ destroy_session_from(proc.source)
  /\ proc' = [proc EXCEPT !.pc = "create", !.old = None]
  /\ UNCHANGED <<rootVars, hb, api>>

Create ==
  /\ proc.pc = "create"
  /\ create_client(proc.key, proc.session, proc.hard, Held)
  /\ proc' = [proc EXCEPT !.pc = "establish"]
  /\ UNCHANGED <<sessionVars, hb, api>>

\* A bad cookie or version: no client, no session, an error in the answer.
Refuse ==
  /\ proc.pc = "create"
  /\ proc' = Idle
  /\ UNCHANGED <<sessionVars, rootVars, hb, api>>

Establish ==
  /\ proc.pc = "establish"
  /\ establish_session(proc.source, proc.key, proc.session)
  /\ proc' = Idle
  /\ UNCHANGED <<rootVars, hb, api>>

\* process_input_packet for a packet of a session, up to its first lock: the key
\* is in the header or belongs to the endpoint.
RecvPacket(e, k, s, delete) ==
  /\ proc.pc = "idle"
  /\ proc' = [Idle EXCEPT !.pc = "find", !.source = e, !.delete = delete,
                          !.key = IF has_session_client_key(s) THEN k ELSE get_client_key(e)]
  /\ UNCHANGED <<sessionVars, rootVars, hb, api>>

\* get_client.  An unknown client is answered without a change of state.
Find ==
  /\ proc.pc = "find"
  /\ LET i == IF proc.key = None THEN None ELSE get_client(proc.key)
     IN  proc' = IF i = None THEN Idle ELSE [proc EXCEPT !.pc = "heard", !.client = i]
  /\ UNCHANGED <<sessionVars, rootVars, hb, api>>

\* update_state; the streams and the other submessages are not of this module.
Heard ==
  /\ proc.pc = "heard"
  /\ update_state(proc.client, "alive")
  /\ proc' = [proc EXCEPT !.pc = IF proc.delete THEN "delete_find" ELSE "done"]
  /\ UNCHANGED <<sessionVars, clients, current, hb, api>>

\* process_delete_submessage for a client: get_client and erase of delete_client,
\* destroy_session.
DeleteFind ==
  /\ proc.pc = "delete_find"
  /\ proc' = [proc EXCEPT !.pc = IF get_client(proc.key) = None THEN "done" ELSE "delete_erase"]
  /\ UNCHANGED <<sessionVars, rootVars, hb, api>>

DeleteErase ==
  /\ proc.pc = "delete_erase"
  /\ erase(proc.key, Held)
  /\ proc' = [proc EXCEPT !.pc = "delete_destroy"]
  /\ UNCHANGED <<sessionVars, hb, api>>

DeleteDestroy ==
  /\ proc.pc = "delete_destroy"
  /\ destroy_session_from(proc.source)
  /\ proc' = [proc EXCEPT !.pc = "done"]
  /\ UNCHANGED <<rootVars, hb, api>>

\* The shared_ptr of the handler goes.
Done ==
  /\ proc.pc = "done"
  /\ proc' = Idle
  /\ proxy' = Kept(proxy, clients, {hb.client})
  /\ UNCHANGED <<sessionVars, clients, current, hb, api>>

-----------------------------------------------------------------------------
(* The heartbeat thread: check_heartbeats. *)

\* The end of a turn for a client; its shared_ptr is not used any more.
EndTurn ==
  /\ hb' = Resting
  /\ proxy' = Kept(proxy, clients, {proc.client})

NextClient ==
  /\ hb.pc = "next"
  /\ get_next_client
  /\ hb' = [hb EXCEPT !.pc = "state", !.client = clients[current]]
  /\ UNCHANGED <<sessionVars, clients, proxy, proc, api>>

\* The end of a round and, after a pause, the beginning of the next.
Rewind ==
  /\ hb.pc = "next"
  /\ rewind
  /\ UNCHANGED <<sessionVars, clients, proxy, proc, hb, api>>

GetState ==
  /\ hb.pc = "state"
  /\ get_state(hb.client)
  /\ hb' = [hb EXCEPT !.pc = "endpoint", !.state = state_after_get(hb.client)]
  /\ UNCHANGED <<sessionVars, clients, current, proc, api>>

\* get_endpoint, and the three branches: heartbeats, a probe, a removal.
Branch ==
  /\ hb.pc = "endpoint"
  /\ LET p == proxy[hb.client]
         alive == get_endpoint(p.key) # None /\ hb.state = "alive"
     IN  \/ /\ ~ alive /\ p.hard /\ hb.state = "dead"
            /\ hb' = [hb EXCEPT !.pc = "read"] /\ UNCHANGED proxy
         \/ /\ ~ alive /\ p.hard /\ hb.state = "to_remove"
            /\ hb' = [hb EXCEPT !.pc = "remove_find"] /\ UNCHANGED proxy
         \/ /\ alive \/ ~ p.hard \/ hb.state = "alive"
            /\ EndTurn
  /\ UNCHANGED <<sessionVars, clients, current, proc, api>>

\* get_hard_liveliness_check_tries()++, without a lock: a read and a write.
ReadTries ==
  /\ hb.pc = "read"
  /\ hb' = [hb EXCEPT !.pc = "write", !.tries = proxy[hb.client].tries]
  /\ UNCHANGED <<sessionVars, rootVars, proc, api>>

\* Mutant: the counter stops at its largest value.
Bug_TriesSaturate ==
  /\ hb.pc = "write"
  /\ proxy' = [proxy EXCEPT ![hb.client].tries =
                 IF hb.tries = TriesMod - 1 THEN hb.tries ELSE hb.tries + 1]
  /\ hb' = [hb EXCEPT !.pc = "test", !.tries = 0]
  /\ UNCHANGED <<sessionVars, clients, current, proc, api>>

WriteTries ==
  /\ hb.pc = "write"
  /\ proxy' = [proxy EXCEPT ![hb.client].tries = (hb.tries + 1) % TriesMod]
  /\ hb' = [hb EXCEPT !.pc = "test", !.tries = 0]
  /\ UNCHANGED <<sessionVars, clients, current, proc, api>>

\* The test for three tries, and the GET_INFO of the probe.
TestTries ==
  /\ hb.pc = "test"
  /\ IF proxy[hb.client].tries = 3 THEN hb' = [hb EXCEPT !.pc = "mark"] /\ UNCHANGED proxy
     ELSE EndTurn
  /\ UNCHANGED <<sessionVars, clients, current, proc, api>>

Mark ==
  /\ hb.pc = "mark"
  /\ update_state(hb.client, "to_remove")
  /\ hb' = [hb EXCEPT !.pc = "probe"]
  /\ UNCHANGED <<sessionVars, clients, current, proc, api>>

Probe ==
  /\ hb.pc = "probe"
  /\ EndTurn
  /\ UNCHANGED <<sessionVars, clients, current, proc, api>>

RemoveFind ==
  /\ hb.pc = "remove_find"
  /\ IF get_client(proxy[hb.client].key) = None THEN EndTurn
     ELSE hb' = [hb EXCEPT !.pc = "remove_erase"] /\ UNCHANGED proxy
  /\ UNCHANGED <<sessionVars, clients, current, proc, api>>

RemoveErase ==
  /\ hb.pc = "remove_erase"
  /\ erase(proxy[hb.client].key, Held)
  /\ hb' = [hb EXCEPT !.pc = "remove_destroy"]
  /\ UNCHANGED <<sessionVars, proc, api>>

RemoveDestroy ==
  /\ hb.pc = "remove_destroy"
  /\ destroy_session_of(proxy[hb.client].key)
  /\ EndTurn
  /\ UNCHANGED <<clients, current, proc, api>>

-----------------------------------------------------------------------------
(* The caller of class Agent, and time. *)

\* Agent::create_client: no properties, no session at an endpoint.
LocalCreate(k, s) ==
  /\ LocalCalls /\ api.pc = "idle"
  /\ create_client(k, s, FALSE, Held)
  /\ UNCHANGED <<sessionVars, proc, hb, api>>

\* Agent::delete_client: get_client, erase.
LocalFind(k) ==
  /\ LocalCalls /\ api.pc = "idle"
  /\ get_client(k) # None
  /\ api' = [pc |-> "erase", key |-> k]
  /\ UNCHANGED <<sessionVars, rootVars, proc, hb>>

LocalErase ==
  /\ api.pc = "erase"
  /\ erase(api.key, Held)
  /\ api' = [pc |-> "idle", key |-> None]
  /\ UNCHANGED <<sessionVars, proc, hb>>

\* client_dead_time_ has passed since a client was heard.
Silence(i) ==
  /\ proxy[i].key # None /\ ~ proxy[i].silent
  /\ proxy' = [proxy EXCEPT ![i].silent = TRUE]
  /\ UNCHANGED <<sessionVars, clients, current, proc, hb, api>>

Process ==
  \/ CreateFind \/ CreateErase \/ CreateDestroy \/ Create \/ Refuse \/ Establish
  \/ Find \/ Heard \/ DeleteFind \/ DeleteErase \/ DeleteDestroy \/ Done

HeartbeatRound ==
  \/ NextClient \/ Rewind \/ GetState \/ Branch \/ ReadTries \/ WriteTries
  \/ TestTries \/ Mark \/ Probe \/ RemoveFind \/ RemoveErase \/ RemoveDestroy

Next ==
  \/ \E e \in EndPoints, k \in Keys, s \in Sessions :
       \/ \E hard \in BOOLEAN : (hard => HardLiveliness) /\ RecvCreate(e, k, s, hard)
       \/ \E delete \in BOOLEAN : RecvPacket(e, k, s, delete)
  \/ Process
  \/ HeartbeatRound
  \/ \E k \in Keys, s \in Sessions : LocalCreate(k, s)
  \/ \E k \in Keys : LocalFind(k)
  \/ LocalErase
  \/ \E i \in Proxies : Silence(i)

Spec == Init /\ [][Next]_vars

\* The two threads of the agent keep running and time passes; packets need not
\* come.
FairSpec ==
  /\ Spec
  /\ WF_vars(Process) /\ WF_vars(HeartbeatRound)
  /\ \A i \in Proxies : WF_vars(Silence(i))

-----------------------------------------------------------------------------
(* Properties. *)

ProcType ==
  [pc : {"idle", "create_find", "create_erase", "create_destroy", "create", "establish",
         "find", "heard", "delete_find", "delete_erase", "delete_destroy", "done"},
   source : EndPoints \cup {None}, old : Keys \cup {None},
   key : Keys \cup {None}, session : Sessions \cup {None},
   hard : BOOLEAN, delete : BOOLEAN, client : Proxies \cup {None}]

HbType ==
  [pc : {"next", "state", "endpoint", "read", "write", "test", "mark", "probe",
         "remove_find", "remove_erase", "remove_destroy"},
   client : Proxies \cup {None}, state : States, tries : 0 .. TriesMod - 1]

TypeOK ==
  /\ SessionTypeOK /\ RootTypeOK
  /\ proc \in ProcType /\ hb \in HbType
  /\ api \in [pc : {"idle", "erase"}, key : Keys \cup {None}]

\* A thread works on a proxy that is not freed, and the proxy of a key is that
\* key's, although clients are replaced and erased while threads hold them.
ReferencedIsAlive ==
  /\ \A k \in Keys : clients[k] # None => proxy[clients[k]].key = k
  /\ hb.pc # "next" => hb.client \in Proxies /\ proxy[hb.client].key \in Keys
  /\ proc.pc \in {"heard", "delete_find", "delete_erase", "delete_destroy", "done"} =>
       proc.client \in Proxies /\ proxy[proc.client].key = proc.key

\* Without liveliness checks, local calls and keys in headers, an endpoint leads to a
\* client that exists whenever the processing thread is between packets: a
\* CREATE_CLIENT from an endpoint in use takes the old client away with its session.
\* (A DELETE with a key may come from another endpoint, and closes the session of that.)
RoutedToClients ==
  proc.pc = "idle" =>
    \A e \in EndPoints :
      endpoint_to_client[e] # None => clients[endpoint_to_client[e]] # None

\* Every client gets its turn in check_heartbeats, whatever is created and deleted
\* around the iterator meanwhile.
EveryClientHasItsTurn ==
  \A k \in Keys :
    clients[k] # None ~>
      \/ clients[k] = None
      \/ hb.pc = "state" /\ proxy[hb.client].key = k

\* The safety of it.  current_client_ leaves a client behind only by handing it to the
\* heartbeat thread, never goes back to one, and starts again before all of them,
\* whichever clients are created, replaced and erased in between.
Ahead(k) == current # End /\ current =< k

WalkSkipsNobody ==
  [][\A k \in Keys :
       clients[k] # None /\ clients'[k] # None =>
         /\ Ahead(k) /\ ~ Ahead(k)' => hb'.pc = "state" /\ hb'.client = clients[k]
         /\ ~ Ahead(k) /\ Ahead(k)' => current = End
         /\ current = End /\ current' # End => Ahead(k)']_vars

\* A client with the liveliness check that is not heard of any more is removed,
\* whatever value hard_liveliness_check_tries_ had in the beginning.
SilentClientIsRemoved ==
  \A k \in Keys :
    clients[k] # None /\ proxy[clients[k]].hard ~>
      \/ clients[k] = None
      \/ ~ proxy[clients[k]].hard
      \/ proc.pc = "heard" /\ proc.key = k
=============================================================================
