------------------------ MODULE MCBootEncryptionSetup ------------------------
(* Small instances of BootEncryptionSetup. *)
EXTENDS BootEncryptionSetup
OneSector == {1}
TwoSectors == 1..2
ThreeSectors == 1..3
SomeBoundaries == {<<-1, -1>>, <<1, 2>>}
AnyBoundary == {<<-1, -1>>} \cup {<<1, e>> : e \in 1..ConfiguredEnd}
=============================================================================
