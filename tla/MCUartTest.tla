----------------------------- MODULE MCUartTest -----------------------------
(***************************************************************************)
(* UartTest with two threads, on the same pair of ports or on two.         *)
(***************************************************************************)
EXTENDS UartTest, TLC

CONSTANTS t1, t2

MCThreads == {t1, t2}
MCJobs == {t1 :> "uart78" @@ t2 :> pair : pair \in Pairs}
MCLoose == {"uart78"} \X {1, 2}

\* Every port is there, or one whose absence leaves a Uart unopened, or one
\* whose absence is noticed only by the second Open.
MCBoards == {Port, Port \ {<<"uart39", 1>>}, Port \ {<<"uart78", 2>>}}
=============================================================================
