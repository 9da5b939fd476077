--------------------------- MODULE MCDigestStream ---------------------------
(***************************************************************************)
(* One connection with two digests and lists of three sizes: the buffer    *)
(* holds two of the small ones, or one of the next; the largest is refused.*)
(***************************************************************************)
EXTENDS DigestStream, TLC

CONSTANTS d1, d2, l1, l2, l3

MCDigestOf == [l \in Lists |-> IF l = l2 THEN d2 ELSE d1]
MCSizeOf   == [l \in Lists |-> CASE l = l1 -> 1 [] l = l2 -> 3 [] l = l3 -> 4]
=============================================================================
