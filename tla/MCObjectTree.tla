---------------------------- MODULE MCObjectTree ----------------------------
(***************************************************************************)
(* What two clients create.  The first has a topic it renames and a writer *)
(* on it, the second a topic of one name and a reader.  Both topics can be *)
(* in the same domain.                                                     *)
(***************************************************************************)
EXTENDS ObjectTree, TLC

CONSTANTS c1, c2, a, b, d

P == <<"participant", 1>>
T == <<"topic", 1>>
Pub == <<"publisher", 1>>
Sub == <<"subscriber", 1>>
W == <<"datawriter", 1>>
R == <<"datareader", 1>>
Req == <<"requester", 1>>

Asks(id, parent, args) == [id : {id}, parent : {parent}, arg : args]

MCCreations ==
    (c1 :> Asks(P, None, {d}) \cup Asks(T, P, {a, b}) \cup Asks(Pub, P, {None})
               \cup Asks(W, Pub, {a, b, T}))
 @@ (c2 :> Asks(P, None, {d}) \cup Asks(T, P, {a}) \cup Asks(Sub, P, {None})
               \cup Asks(R, Sub, {a, T, P}) \cup Asks(Req, P, {a}))

MCMaxParticipants == c1 :> 2 @@ c2 :> 1
=============================================================================
