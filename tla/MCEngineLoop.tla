---------------------------- MODULE MCEngineLoop ----------------------------
(* A small instance of EngineLoop.                                          *)
EXTENDS EngineLoop
=============================================================================
