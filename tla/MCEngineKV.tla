----------------------------- MODULE MCEngineKV -----------------------------
(* Instances of EngineKV for TLC. *)
EXTENDS EngineKV

CONSTANTS t1, t2   \* tokens

BlockSymmetry == Permutations(Block)

NoPicture == [r \in Req |-> 0]

\* A prompt, an extension of it, and one that repeats its first block.
PromptsABC == <<<<t1, t2, t1>>, <<t1, t2, t1, t1, t2>>, <<t1, t2, t1, t2>>>>

\* Prompts with nothing in common.
PromptsApart == <<<<t1, t1>>, <<t2, t1>>, <<t2>>>>

\* A prompt of two blocks, its first block, and one too long for a pool of 6 blocks.
PromptsStream == <<<<t1, t1, t1, t1>>, <<t1, t1>>, [i \in 1 .. 13 |-> t2]>>

\* The second prompt has a picture.
PictureTwo == <<0, 7, 0>>
=============================================================================
