-------------------------- MODULE MCEncryptedIoQueue --------------------------
(* Instances of EncryptedIoQueue for TLC. *)
EXTENDS EncryptedIoQueue, TLC

Symmetry == Permutations(Irps)

OneSector == {0}
TwoSectors == 0..1
ThreeSectors == 0..2

FirstSector == {<<0, 0>>}
SecondSector == {<<1, 1>>}
SecondProtected == {{1}}
FirstTwoSectors == {<<0, 1>>}
=============================================================================
