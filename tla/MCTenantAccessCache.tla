-------------------------- MODULE MCTenantAccessCache --------------------------
(* TenantAccessCache on a small instance. *)
EXTENDS TenantAccessCache, TLC

\* Calls are interchangeable and so are random tokens.
Symmetry == Permutations(Requests) \cup Permutations(Token)
================================================================================
