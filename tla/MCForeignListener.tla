--------------------------- MODULE MCForeignListener ---------------------------
(* ForeignListener on a small instance. *)
EXTENDS ForeignListener

CONSTANTS a, b, c

MCName == {a, b, c}
MCDialLists == {<<a>>, <<a, b>>, <<a, b, c>>}
MCListenLists == {<<>>}
MCLookalikes == {Proposal(b), NA}
=============================================================================
