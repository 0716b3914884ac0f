------------------------------ MODULE MCEngine ------------------------------
(* Small instances of Engine.                                               *)
EXTENDS Engine, TLC

\* A prompt inside one block, and two that share their first block and part in
\* the second.
MixedPrompts == {<<2>>, <<1, 1, 1>>, <<1, 1, 2, 2>>}

\* Two prompts of two blocks each that share nothing, and one of a single block.
ApartPrompts == {<<2>>, <<2, 2, 2>>, <<1, 1, 1, 1>>}

\* Blocks are interchangeable: the allocator hands out any free one.
BlockSymmetry == Permutations(Blocks)
=============================================================================
