----------------------------- MODULE MCEspParts -----------------------------
(* An instance of EspParts. *)
EXTENDS EspParts

CONSTANTS a, b, c

\* The partition is new, or was left by a firmware with a larger ring.
MCOldFlash == {{}, {[id |-> i, forwarded |-> i # 2] : i \in 1 .. 4}}

\* Three long messages, one of them longer than the assembler can take, and a short
\* one, for two slots.
MCInputs ==
  {[key |-> a, part |-> p, total |-> 2] : p \in 1 .. 2}
    \cup {[key |-> b, part |-> p, total |-> 3] : p \in 1 .. 3}
    \cup {[key |-> c, part |-> 1, total |-> 2], [key |-> c, part |-> 3, total |-> 2],
          [key |-> c, part |-> 0, total |-> 0], [key |-> c, part |-> 1, total |-> 4]}

\* Forms of several keys, with and without secrets.
MCForms ==
  {[keys |-> <<"webUser", "webPass">>, kept |-> {"webUser", "webPass"}],
   [keys |-> <<"pushEn", "push0en", "push0url">>, kept |-> {}],
   [keys |-> <<"st0En", "st0Last">>, kept |-> {}]}

\* Two profiles of one operator, and an empty card.
MCContent == [x \in {1, 2} |-> IF x = 1 THEN {11, 12} ELSE {}]
MCAlias == [p \in {11, 12} |-> 0]
=============================================================================
