-------------------------------- MODULE Root --------------------------------
(***************************************************************************)
(* Class Root (Root.cpp) and the liveliness of class ProxyClient           *)
(* (client/ProxyClient.cpp).  clients_ is a std::map ordered by key with   *)
(* an iterator in it, current_client_, that the heartbeat thread walks.    *)
(* Each operator is what one critical section of mtx_ (or state_mtx_)      *)
(* does.  A client is a proxy object, which threads share: proxy is the    *)
(* heap of them, and who refers to them is the caller's business.          *)
(***************************************************************************)
EXTENDS SessionManager

CONSTANTS
  Sessions,   \* session ids
  Proxies,    \* addresses of proxy objects
  End,        \* clients_.end()
  TriesMod,   \* hard_liveliness_check_tries_ is a number below this (256)
  Garbage     \* values that memory may have before it is written

ASSUME RootAssumption ==
  /\ Sessions \subseteq 0 .. 255
  /\ None \notin Proxies
  /\ End \notin Keys
  /\ TriesMod \in Nat /\ TriesMod > 3
  /\ Garbage \subseteq 0 .. TriesMod - 1

VARIABLES
  clients,   \* clients_: key to proxy, or None
  current,   \* current_client_: the key it is at, or End
  proxy      \* the heap of proxy objects

rootVars == <<clients, current, proxy>>

States == {"alive", "dead", "to_remove"}

Proxy ==
  [key : Keys \cup {None}, session : Sessions \cup {None}, hard : BOOLEAN,
   state : States, tries : 0 .. TriesMod - 1, silent : BOOLEAN]

\* Memory no proxy is in.
Blank == [key |-> None, session |-> None, hard |-> FALSE,
          state |-> "alive", tries |-> 0, silent |-> FALSE]

RootInit ==
  /\ clients = [k \in Keys |-> None]
  /\ current = End
  /\ proxy = [i \in Proxies |-> Blank]

RootTypeOK ==
  /\ clients \in [Keys -> Proxies \cup {None}]
  /\ current \in Keys \cup {End}
  /\ proxy \in [Proxies -> Proxy]

Present == {k \in Keys : clients[k] # None}

\* n is where the iterator is when it leaves k for the next key.
Follows(n, k) ==
  \/ n \in Present /\ n > k /\ \A j \in Present : j > k => n =< j
  \/ n = End /\ \A j \in Present : j =< k

\* n is clients_.begin().
Begins(n) ==
  \/ n \in Present /\ \A j \in Present : n =< j
  \/ n = End /\ Present = {}

\* Root::get_next_client when it returns true; the client is clients[current].
get_next_client ==
  /\ current # End
  /\ current' \in {n \in Keys \cup {End} : Follows(n, current)}

\* Mutant: the walk is not started again.
Bug_NoRewind == current = End /\ UNCHANGED current

\* Root::get_next_client when it returns false.
rewind ==
  /\ current = End
  /\ current' \in {n \in Keys \cup {End} : Begins(n)}

\* Mutant: what only a thread holds is freed.
Bug_MapOnly(heap, map, held) ==
  [i \in Proxies |-> IF \E k \in Keys : map[k] = i THEN heap[i] ELSE Blank]

\* The heap once the objects without a shared_ptr are freed: clients_ has some,
\* and threads hold some while they use them.
Kept(heap, map, held) ==
  [i \in Proxies |-> IF i \in held \/ \E k \in Keys : map[k] = i THEN heap[i] ELSE Blank]

\* A new proxy at an address that is free.  The constructor does not set
\* hard_liveliness_check_tries_: it has a value of Garbage.
New(k, s, hard, held) ==
  LET free == {i \in Proxies : i \notin held /\ \A j \in Keys : clients[j] # i}
      i == CHOOSE a \in free : TRUE
  IN  /\ free # {}
      /\ clients' = [clients EXCEPT ![k] = i]
      /\ \E garbage \in Garbage :
           proxy' = Kept([proxy EXCEPT ![i] = [key |-> k, session |-> s, hard |-> hard,
                            state |-> "alive", tries |-> garbage, silent |-> FALSE]],
                         clients', held)

\* Root::create_client with a good cookie and version.  A proxy that replaces
\* another is made without properties.  The session reset of the last case is
\* not part of this module's state.
create_client(k, s, hard, held) ==
  /\ UNCHANGED current
  /\ \/ clients[k] = None /\ New(k, s, hard, held)
     \/ clients[k] # None /\ proxy[clients[k]].session # s /\ New(k, s, FALSE, held)
     \/ clients[k] # None /\ proxy[clients[k]].session = s /\ UNCHANGED <<clients, proxy>>

\* Mutant: the iterator stays where the erased element was.
Bug_IteratorLeft(k, held) ==
  /\ UNCHANGED current
  /\ clients' = [clients EXCEPT ![k] = None]
  /\ proxy' = Kept(proxy, clients', held)

\* The second critical section of Root::delete_client; the first is get_client.
erase(k, held) ==
  /\ IF current = k THEN current' \in {n \in Keys \cup {End} : Follows(n, k)}
     ELSE UNCHANGED current
  /\ clients' = [clients EXCEPT ![k] = None]
  /\ proxy' = Kept(proxy, clients', held)

get_client(k) == clients[k]

\* ProxyClient::get_state.  silent stands for the time since the last packet
\* being client_dead_time_ or more.
state_after_get(i) ==
  IF proxy[i].state = "alive" /\ proxy[i].silent THEN "dead" ELSE proxy[i].state

get_state(i) == proxy' = [proxy EXCEPT ![i].state = state_after_get(i)]

\* ProxyClient::update_state(state)
update_state(i, s) ==
  proxy' = [proxy EXCEPT ![i].state = s,
                         ![i].silent = IF s = "alive" THEN FALSE ELSE @,
                         ![i].tries = IF s = "alive" THEN 0 ELSE @]

\* current_client_ is end() or at a client: no erase leaves it dangling.
IteratorValid == current = End \/ current \in Present
=============================================================================
