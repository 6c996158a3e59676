----------------------------- MODULE MCServices -----------------------------
(* An instance of Services without the intake. *)
EXTENDS Services

CONSTANTS A, B

MCRunning == {"Wifi", "Jobs", "Push"}

\* Settings saved for the Linux worker: every target valid; only e-mail valid; and one
\* whose rules drop every message.
Everything == [i \in Ids |-> Targets]
First == [selected |-> Everything, drop |-> {}, valid |-> Targets]
Settings ==
  {First, [First EXCEPT !.valid = {Email}], [First EXCEPT !.drop = Msgs]}
=============================================================================
