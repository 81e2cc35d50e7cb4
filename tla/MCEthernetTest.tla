--------------------------- MODULE MCEthernetTest ---------------------------
(***************************************************************************)
(* EthernetTest with two threads on a fast board, a slow one, and one that *)
(* has lost an interface.                                                  *)
(***************************************************************************)
EXTENDS EthernetTest

MCBoards ==
  {[ports |-> Side, speed |-> "fast"], [ports |-> Side, speed |-> "slow"],
   [ports |-> {"client"}, speed |-> "fast"]}
=============================================================================
