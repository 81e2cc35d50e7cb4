----------------------------- MODULE MCGpioTest -----------------------------
(***************************************************************************)
(* GpioTest with two threads on a sound board whose SPI controllers idle   *)
(* with their chip selects high, and on boards with one defect each.       *)
(***************************************************************************)
EXTENDS GpioTest

Good == [wired |-> {<<e.in, e.out>> : e \in UNION {Pairs(x) : x \in GpioTests}},
         dead |-> {},
         boot |-> {"SPI1_CS0", "SPI2_CS0", "SPI2_CS1", "SPI1_CLK"}]

MCBoards ==
  {Good,
   [Good EXCEPT !.wired = @ \ {<<"UART3_CTS", "SPI1_CLK">>}],
   [Good EXCEPT !.wired = (@ \ {<<"GPIO1", "GPIO0">>}) \cup {<<"GPIO1", "GPIO2">>}],
   [Good EXCEPT !.dead = {"SPI2_MISO"}],
   [Good EXCEPT !.dead = {"SPI2_CLK"}, !.boot = Outs]}
=============================================================================
