----------------------------- MODULE MCOAuthFlow -----------------------------
EXTENDS OAuthFlow, TLC

Symmetry == Permutations(States) \cup Permutations(Requests)
=============================================================================
