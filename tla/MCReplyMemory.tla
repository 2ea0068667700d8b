--------------------------- MODULE MCReplyMemory ----------------------------
(* Instances of ReplyMemory small enough for TLC.                          *)
EXTENDS ReplyMemory, TLC

Symmetry == Permutations(Replies) \union Permutations(Addresses)
=============================================================================
