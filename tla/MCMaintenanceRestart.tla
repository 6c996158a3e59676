------------------------ MODULE MCMaintenanceRestart ------------------------
(* A small instance of MaintenanceRestart for TLC. *)
EXTENDS MaintenanceRestart, TLC

CONSTANTS a

MCConfigs ==
  {[pushEnabled |-> TRUE, emailEnabled |-> TRUE, emailConfigured |-> TRUE, valid |-> {a},
    rule |-> [m \in Msgs \cup {NoMsg} |-> [drop |-> FALSE, email |-> TRUE, mask |-> {a}]]]}
=============================================================================
