------------------------ MODULE MCVolumeHeaderTools ------------------------
(* A small partition for VolumeHeaderTools.  As in the code, the concealed *)
(* portion is smaller than the offset, and that smaller than a chunk; the  *)
(* size is not a multiple of a chunk.                                      *)
EXTENDS VolumeHeaderTools
=============================================================================
