----------------------- MODULE MCIdentityVerification -----------------------
(* Small instances of IdentityVerification for TLC.                        *)
EXTENDS IdentityVerification, TLC

\* Requests are interchangeable (sound for the safety runs only).
CallSymmetry == Permutations(Call)
=============================================================================
