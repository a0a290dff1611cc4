--------------------------- MODULE MCAppProtocol ---------------------------
(* AppProtocol with nothing, a byte, and as many bytes as an acknowledgement *)
(* has; they look like the header of an answer.                             *)
EXTENDS AppProtocol

MCPayloads == {<<>>, <<9>>, <<193, 0, 1, 0, 0, 0>>}
=============================================================================
