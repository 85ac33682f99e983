---------------------------- MODULE StreamConfig ----------------------------
(***************************************************************************)
(* The configuration (config.hpp.in) the two halves of a reliable stream   *)
(* share, and the relations between its values the protocol relies on.     *)
(* With the 16-bit numbers of the code Half is 32768, and all of them hold *)
(* for the default depth, 16, and any submessage of up to 64 KiB.          *)
(***************************************************************************)
EXTENDS SeqNum, Sequences

CONSTANTS Depth,          \* RELIABLE_STREAM_DEPTH
          MaxFragments,   \* messages the largest submessage is split into
          NackBits        \* bits of the nack bitmap, 16 in the code

ASSUME StreamAssumption ==
  /\ Depth \in Nat \ {0}
  /\ MaxFragments \in Nat \ {0}
  /\ Depth + MaxFragments < Half
  /\ NackBits \in Nat \ {0}
  /\ NackBits < Half
=============================================================================
