------------------------ MODULE MCEncryptionThreadPool ------------------------
(* Instances of EncryptionThreadPool for TLC. *)
EXTENDS EncryptionThreadPool, TLC

Symmetry == Permutations(Clients) \cup Permutations(Workers)
=============================================================================
