--------------------------- MODULE MCNumberShare ---------------------------
(* NumberShare.tla for TLC. *)
EXTENDS NumberShare, TLC

\* Handlers are interchangeable; sound for the safety runs.
HandlerSymmetry == Permutations(Handlers)

=============================================================================
