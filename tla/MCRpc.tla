-------------------------------- MODULE MCRpc ---------------------------------
\* Instances of Rpc for TLC.  The clients have loops of different length.
EXTENDS Rpc, TLC
CONSTANTS p1, p2
MCProc == {p1, p2}
MCIters == p1 :> 1 @@ p2 :> 0
OneProc == {p1}
OneIter == p1 :> 1
===============================================================================
