---------------------------- MODULE MCModelGateway ----------------------------
EXTENDS ModelGateway, TLC

MCChain == <<"openai", "anthropic">>

Symmetry == Permutations(Calls)
=============================================================================
