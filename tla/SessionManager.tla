--------------------------- MODULE SessionManager ---------------------------
(***************************************************************************)
(* Class SessionManager (transport/SessionManager.hpp): the two maps       *)
(* between the endpoints packets come from and the clients behind them.    *)
(* Each operation holds mtx_ and is one step.  A key or endpoint that is   *)
(* not in a map is mapped to None.                                         *)
(***************************************************************************)
EXTENDS Integers

CONSTANTS
  Keys,        \* client keys
  EndPoints,   \* addresses
  None

ASSUME SessionManagerAssumption ==
  Keys \subseteq Nat /\ None \notin Keys /\ None \notin EndPoints

VARIABLES endpoint_to_client, client_to_endpoint

sessionVars == <<endpoint_to_client, client_to_endpoint>>

SessionInit ==
  /\ endpoint_to_client = [e \in EndPoints |-> None]
  /\ client_to_endpoint = [k \in Keys |-> None]

SessionTypeOK ==
  /\ endpoint_to_client \in [EndPoints -> Keys \cup {None}]
  /\ client_to_endpoint \in [Keys -> EndPoints \cup {None}]

\* A session id below 128 comes with the client's key in every header.
has_session_client_key(s) == s < 128

\* Removing what may not be there.
Erased(map, x) == IF x = None THEN map ELSE [map EXCEPT ![x] = None]

\* Mutant: the endpoint the client had before still leads to it.
Bug_OldEndpointKept(e, k, s) ==
  /\ client_to_endpoint' = [client_to_endpoint EXCEPT ![k] = e]
  /\ endpoint_to_client' =
       IF has_session_client_key(s) THEN endpoint_to_client
       ELSE [endpoint_to_client EXCEPT ![e] = k]

establish_session(e, k, s) ==
  LET old == Erased(endpoint_to_client, client_to_endpoint[k])
  IN  /\ client_to_endpoint' = [client_to_endpoint EXCEPT ![k] = e]
      /\ endpoint_to_client' =
           IF has_session_client_key(s) THEN old ELSE [old EXCEPT ![e] = k]

\* destroy_session(endpoint)
destroy_session_from(e) ==
  /\ client_to_endpoint' = Erased(client_to_endpoint, endpoint_to_client[e])
  /\ endpoint_to_client' = [endpoint_to_client EXCEPT ![e] = None]

\* destroy_session(client_key)
destroy_session_of(k) ==
  /\ endpoint_to_client' = Erased(endpoint_to_client, client_to_endpoint[k])
  /\ client_to_endpoint' = [client_to_endpoint EXCEPT ![k] = None]

\* get_client_key and get_endpoint; None when they return false.
get_client_key(e) == endpoint_to_client[e]

get_endpoint(k) == client_to_endpoint[k]

\* The maps agree: an endpoint that leads to a client is the endpoint the client
\* is answered at, so no packet is taken for a client that has moved on.
MapsAgree ==
  \A e \in EndPoints :
    endpoint_to_client[e] # None => client_to_endpoint[endpoint_to_client[e]] = e
=============================================================================
