--------------------------- MODULE MCLengthDelimited ---------------------------
(* LengthDelimited on a small instance. *)
EXTENDS LengthDelimited

\* The empty frame, frames as large as allowed, and one that is too large.
MCPayloads == {<<>>, <<1>>, <<0, 1, 1>>, <<1, 0, 1, 1>>, <<1, 1, 1, 1, 1, 1>>}
=============================================================================
