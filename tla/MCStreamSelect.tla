---------------------------- MODULE MCStreamSelect ----------------------------
(* StreamSelect on a small instance. *)
EXTENDS StreamSelect

CONSTANTS a, b, c, bad   \* three protocol names, one without its '/'

MCName == {a, b, c, bad}
MCValid == {a, b, c}

MCDialLists == {<<>>, <<a>>, <<a, b>>, <<b, a>>, <<bad, a>>, <<a, bad>>}
MCListenLists == {<<>>, <<b>>, <<bad, a, b>>, <<b, c>>}

MCLookalikes == {Proposal(b), Proposal(c), NA}
=============================================================================
