---------------------------- MODULE MCForwardPush ----------------------------
(* A small instance of ForwardPush for TLC. *)
EXTENDS ForwardPush, TLC

CONSTANTS a, b

Everything == [drop |-> FALSE, email |-> TRUE, mask |-> Channels]
DropIt == [drop |-> TRUE, email |-> FALSE, mask |-> {}]

Plain(d) == [m \in Msgs \cup {NoMsg} |-> d]

MCConfigs ==
  { [pushEnabled |-> TRUE, emailEnabled |-> TRUE, emailConfigured |-> TRUE,
     valid |-> Channels, rule |-> Plain(Everything)],
    [pushEnabled |-> TRUE, emailEnabled |-> FALSE, emailConfigured |-> TRUE,
     valid |-> {a} \cap Channels, rule |-> Plain(Everything)],
    [pushEnabled |-> TRUE, emailEnabled |-> TRUE, emailConfigured |-> TRUE,
     valid |-> Channels, rule |-> Plain(DropIt)] }
=============================================================================
