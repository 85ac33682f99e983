--------------------------- MODULE SubmessageFifo ---------------------------
(***************************************************************************)
(* What a reliable stream promises to the code above it: submessages are   *)
(* handed over in the order they were pushed, whole, each exactly once.    *)
(***************************************************************************)
EXTENDS Naturals, Sequences

CONSTANT Submessages

VARIABLES pushed, handed

fifoVars == <<pushed, handed>>

FifoInit == pushed = << >> /\ handed = << >>

Accept ==
  \E m \in Submessages : pushed' = Append(pushed, m) /\ UNCHANGED handed

HandOver ==
  /\ Len(handed) < Len(pushed)
  /\ handed' = Append(handed, pushed[Len(handed) + 1])
  /\ UNCHANGED pushed

FifoNext == Accept \/ HandOver

FifoSpec == FifoInit /\ [][FifoNext]_fifoVars

FairFifoSpec == FifoSpec /\ WF_fifoVars(HandOver)
=============================================================================
