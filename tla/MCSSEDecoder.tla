---------------------------- MODULE MCSSEDecoder ----------------------------
(* Instances of SSEDecoder: every stream of at most MaxCells cells, cut anywhere. *)
EXTENDS SSEDecoder

MCAlphabet == {CR, LF, "data:", "data", "event:", "id:", "x"}
=============================================================================
