--------------------------- MODULE MCRegistration ---------------------------
(* Small instances of Registration for TLC. *)
EXTENDS Registration, TLC

Interchangeable == Permutations(Handlers) \cup Permutations(Operators)
=============================================================================
