-------------------------- MODULE MCDownlinkQueues --------------------------
(* Values of the functional constants of DownlinkQueues for TLC.           *)
EXTENDS DownlinkQueues

CONSTANTS first, second   \* the sensor of each column of the priority table

\* A limited datagram takes three units; without a limit the payload is full.
MCTarget == [l \in Limits |-> IF l = 0 THEN PayloadMax ELSE 3]

MCAirdosLength == [s \in Sensors |-> IF s = first THEN 2 ELSE 3]

MCPriority == [s \in Sensors |-> IF s = first THEN 0 ELSE 1]
=============================================================================
