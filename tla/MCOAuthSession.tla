--------------------------- MODULE MCOAuthSession ---------------------------
(***************************************************************************)
(* OAuthSession for TLC: DIDs and handlers are interchangeable.            *)
(***************************************************************************)
EXTENDS OAuthSession, TLC

Symmetry == Permutations(Users) \cup Permutations(Callbacks)
=============================================================================
