---------------------------- MODULE MCTokenStore ----------------------------
(* TokenStore for TLC, with goroutines and tokens as model values.            *)
EXTENDS TokenStoreRefinement
=============================================================================
