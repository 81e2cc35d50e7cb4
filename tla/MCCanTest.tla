------------------------------ MODULE MCCanTest -----------------------------
(***************************************************************************)
(* CanTest with two threads on boards with and without a bus, and without  *)
(* one of the links, with the links down, or up at another rate, at boot.  *)
(***************************************************************************)
EXTENDS CanTest

Rates(r) == [c \in Link |-> r]

MCBoards ==
  [links : {Link}, bus : BOOLEAN, up : {{}}, rate : {Rates("none")}]
    \cup [links : {Link, {"can1"}}, bus : {TRUE}, up : {{"can1"}},
          rate : {Rates("other"), [can0 |-> "none", can1 |-> "other"]}]
    \cup [links : {{"can0"}}, bus : {TRUE}, up : {{}}, rate : {Rates("none")}]
=============================================================================
