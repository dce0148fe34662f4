----------------------------- MODULE MCOtpCode -----------------------------
(* OtpCode.tla for TLC. *)
EXTENDS OtpCode, TLC

\* Handlers are interchangeable; sound for the safety run.
Symmetry == Permutations(Handlers)

=============================================================================
