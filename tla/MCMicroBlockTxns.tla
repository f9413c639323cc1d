--------------------------- MODULE MCMicroBlockTxns ---------------------------
(* Instances of MicroBlockTxns for TLC *)
EXTENDS MicroBlockTxns

\* 1 and 2 are offers for the first nonce of sender 1, the second one better;
\* 3 is its next transaction, which may exceed the gas limit; 4 is a cheap
\* transaction of sender 2.
MCSender == <<1, 1, 1, 2>>
MCNonce  == <<1, 1, 2, 1>>
MCPrice  == <<2, 4, 4, 1>>
MCLimit  == <<1, 1, 2, 2>>
MCUsed   == <<1, 1, 1, 2>>
MCValid  == <<TRUE, TRUE, TRUE, TRUE>>

MCPackets ==
    {[epoch |-> 1, until |-> 1, txns |-> <<3, 1, 4>>, to |-> {"n"}],
     [epoch |-> 1, until |-> 1, txns |-> <<2>>, to |-> {"m"}]}

MCCuts == [n \in {"m", "n"} |-> IF n = "n" THEN {1} ELSE {}]

MCLeader == <<"m", "n", "m">>
==============================================================================
