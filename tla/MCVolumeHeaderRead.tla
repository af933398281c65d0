-------------------------- MODULE MCVolumeHeaderRead --------------------------
(* Instances of VolumeHeaderRead for TLC. *)
EXTENDS VolumeHeaderRead, TLC
=============================================================================
