--------------------------- MODULE MCWeakChecksum ---------------------------
(* Sums that wrap at eight, so that most of them do, and bytes of both signs. *)
EXTENDS WeakChecksum

MCByteValues == {-3, 0, 1, 2}
=============================================================================
