-------------------------- MODULE MCBlockAllocator --------------------------
(* BlockAllocator with a ceiling that the segment size does not divide, so  *)
(* the last growth is a short one.                                          *)
EXTENDS BlockAllocator
=============================================================================
