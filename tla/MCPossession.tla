---------------------------- MODULE MCPossession ----------------------------
(***************************************************************************)
(* Possession for TLC, with two kinds of player.  A careful one never      *)
(* presses two keys in a frame and never carries an item out of the world; *)
(* any other may do both.                                                  *)
(***************************************************************************)
EXTENDS Possession

VARIABLE careful

AllChords == SUBSET Actions
OneKey    == {{a} : a \in Actions}

Press(chord) == (careful => chord \in OneKey) /\ Frame(chord)

PlayInit == Init /\ careful \in BOOLEAN

PlayNext ==
  /\ UNCHANGED careful
  /\ \/ Handlers
     \/ \E chord \in Chords : Press(chord)
     \/ \E p \in Pawns : TickHold(p) \/ SpartaFalls(p)
     \/ \E i \in Items : ~careful /\ ItemFalls(i)
     \/ Collect

playVars == <<vars, careful>>
PlaySpec == PlayInit /\ [][PlayNext]_playVars /\ WF_vars(Handlers)

-----------------------------------------------------------------------------
(* No null or dangling pointer is dereferenced for a careful player.  (It   *)
(* is for others: see the README.)                                         *)
CarefulNeverCrashes == careful => NeverCrashed

(* ReturnPlayer, once pressed by a careful player, leads out of the drone.  *)
CarefulReturns == careful => Returns
=============================================================================
