---------------------------- MODULE MCPinLockout ----------------------------
(* PinLockout.tla for TLC. *)
EXTENDS PinLockout, TLC

\* Handlers are interchangeable; sound for the safety runs.
HandlerSymmetry == Permutations(Handlers)

=============================================================================
