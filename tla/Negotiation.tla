------------------------------ MODULE Negotiation ------------------------------
(***************************************************************************)
(* What protocol selection promises, without streams or messages: the      *)
(* listener commits to one protocol it accepts, and the dialer agrees only *)
(* to the protocol the listener has committed to, which is then the first  *)
(* of the dialer's list that the listener accepts.  Either may never do it.*)
(***************************************************************************)
EXTENDS Naturals, Sequences

CONSTANT Name

VARIABLES offer,     \* the dialer's protocols, in order of preference
          accept,    \* the set of protocols the listener accepts
          listener,  \* {} or the protocol the listener has committed to
          dialer     \* {} or the protocol the dialer has agreed to

vars == <<offer, accept, listener, dialer>>

Init ==
    /\ offer \in Seq(Name) /\ accept \in SUBSET Name
    /\ listener = {} /\ dialer = {}

FirstCommon(p) ==
    \E i \in DOMAIN offer :
        /\ offer[i] = p /\ p \in accept
        /\ \A j \in 1..(i - 1) : offer[j] \notin accept

Commit(p) ==
    /\ listener = {} /\ p \in accept
    /\ listener' = {p}
    /\ UNCHANGED <<offer, accept, dialer>>

Agree(p) ==
    /\ dialer = {} /\ listener = {p} /\ FirstCommon(p)
    /\ dialer' = {p}
    /\ UNCHANGED <<offer, accept, listener>>

Next == \E p \in Name : Commit(p) \/ Agree(p)

Spec == Init /\ [][Next]_vars
=============================================================================
