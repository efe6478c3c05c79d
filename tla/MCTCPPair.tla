------------------------------ MODULE MCTCPPair -----------------------------
\* TCPPairStreams with the constants that are functions given by their values.
EXTENDS TCPPairStreams, TLC

CONSTANTS ClientLen, ServerLen   \* how much the two applications write

\* The client's numbers wrap right after its SYN.
MCIsn == Client :> SeqnoMod - 1 @@ Server :> 5
MCStreamLen == Client :> ClientLen @@ Server :> ServerLen
=============================================================================
