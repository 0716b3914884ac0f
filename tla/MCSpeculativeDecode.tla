------------------------ MODULE MCSpeculativeDecode -------------------------
(* Three tokens, one of them the stop, under every pair of greedy models.   *)
EXTENDS SpeculativeDecode
=============================================================================
