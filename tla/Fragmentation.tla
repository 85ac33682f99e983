---------------------------- MODULE Fragmentation ---------------------------
(***************************************************************************)
(* The loop of ReliableOutputStream::push_submessage                       *)
(* (client/session/stream/OutputStream.hpp) that cuts a submessage of size *)
(* octets into fragments of at most max: serialized_size, the octets cut   *)
(* so far, and fragment_size are 16-bit numbers, size and max are not.     *)
(***************************************************************************)
EXTENDS Integers

UINT16 == 65536

\* As much as a message takes, or what is left.
fragment_size(serialized_size, size, max) ==
  (IF max < size - serialized_size THEN max ELSE size - serialized_size) % UINT16

\* serialized_size after a turn of the loop that begins with serialized_size.
AfterTurn(serialized_size, size, max) ==
  (serialized_size + fragment_size(serialized_size, size, max)) % UINT16

\* The condition of the loop.
Continues(serialized_size, size) == serialized_size < size

\* What the loop amounts to: so many turns, the i-th of which begins at (i - 1) * max.
Turns(size, max) == (size + max - 1) \div max

FragmentSizes(size, max) ==
  [i \in 1 .. Turns(size, max) |-> fragment_size((i - 1) * max, size, max)]
=============================================================================
