----------------------------- MODULE MCReading ------------------------------
EXTENDS Reading, TLC

Control(samples, rate, elapsed) ==
  [max_samples |-> samples, max_bytes_per_second |-> rate, max_elapsed_time |-> elapsed]

\* The default of a READ_DATA without delivery control, a slow one and one for a second.
MCControls ==
  "DATAREADER" :> {Control(1, 0, 1), Control(Unlimited, 4, 0)} @@
  "REQUESTER" :> {Control(2, 0, 0)}

\* Samples that a rate of four lets through, by turns, and one it never does.
MCSizes == <<3, 2, 5>>

MCRequestIds == <<258, 1>>

MCMaxRequests == [w \in {Me, Other} |-> IF w = Me THEN 2 ELSE 1]
=============================================================================
