------------------------------ MODULE MCMifare ------------------------------
\* Two key types with a key each, for TLC; the sectors of the blocks.
EXTENDS MifareNFCCommands, TLC

CONSTANTS k1, k2, b1, b2, s1, s2

MCCardKey == [A |-> k1, B |-> k2]
MCSectorsOf == (b1 :> s1) @@ (b2 :> s2)
=============================================================================
