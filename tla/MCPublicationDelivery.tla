------------------------- MODULE MCPublicationDelivery -------------------------
(* PublicationDelivery on a small instance. *)
EXTENDS PublicationDelivery, TLC

\* Rows are interchangeable, and so are workers and requests.
Symmetry == Permutations(Events) \cup Permutations(Workers) \cup Permutations(Requests)
================================================================================
