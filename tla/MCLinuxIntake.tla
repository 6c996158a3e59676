--------------------------- MODULE MCLinuxIntake ---------------------------
(* An instance of Services: the Linux intake, with the other services at rest. *)
EXTENDS Services

MCRunning == {"Intake"}
MCPlain == {"plain"}
MCParts == {"part1", "part2"}
MCOrders == {"order"}
MCResets == {"reset"}
MCGarbled == {"garbled"}

MCConfigs == {[selected |-> [i \in Ids |-> {}], drop |-> {}, valid |-> {}]}
=============================================================================
