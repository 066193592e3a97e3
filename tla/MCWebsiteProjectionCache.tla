----------------------- MODULE MCWebsiteProjectionCache -----------------------
(* WebsiteProjectionCache on a small instance. *)
EXTENDS WebsiteProjectionCache, TLC

\* Calls are interchangeable.
Symmetry == Permutations(Requests)
================================================================================
