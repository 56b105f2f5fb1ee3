------------------------- MODULE MCCertificateIndex -------------------------
(* A small instance of the gateway's certificate index for TLC. *)
EXTENDS CertificateIndex

Symmetry == Permutations(Hashes)
=============================================================================
