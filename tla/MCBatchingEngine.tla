-------------------------- MODULE MCBatchingEngine --------------------------
(* Instances of BatchingEngine for TLC. *)
EXTENDS BatchingEngine

CONSTANTS Small, Large   \* lengths of a short and of a long prompt

\* Requests 1 and 2 are short, the others long.
Lengths == [r \in Req |-> IF r <= 2 THEN Small ELSE Large]
=============================================================================
