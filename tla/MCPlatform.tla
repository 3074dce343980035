----------------------------- MODULE MCPlatform -----------------------------
EXTENDS Platform, TLC

MCHooks == <<"scheduler", "recording">>
Symmetry == Permutations(Client) \cup Permutations(Session)
=============================================================================
