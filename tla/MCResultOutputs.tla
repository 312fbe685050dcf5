-------------------------- MODULE MCResultOutputs ---------------------------
(* Values of the constants of ResultOutputs for TLC. *)
EXTENDS ResultOutputs

CONSTANTS w1, w2

MCOrder == <<w1, w2>>

\* An epoch before the leap second and one that starts just after it.
MCEpochs == [e \in {0, 1} |-> IF e = 0 THEN 10 ELSE 14]
MCLeaps == <<8, 14>>

MCArmed == <<0, 1>>

\* In the first session, one result before, one in and one after the leap
\* second of epoch 0; in the second one, times just after the start of epoch 1.
MCPackets == << <<13, 18, 23>>, <<0, 1, 3>> >>
=============================================================================
