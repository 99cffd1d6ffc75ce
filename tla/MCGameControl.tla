---------------------------- MODULE MCGameControl ----------------------------
(* An instance of GameControl for TLC: five clients are one too many for   *)
(* the two bits of a mode.                                                 *)
EXTENDS GameControl

SettingsChosen ==
  {[clients |-> c, spawn |-> FALSE, dedicated |-> FALSE] : c \in {1, 5}}
==============================================================================
