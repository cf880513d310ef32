----------------------------- MODULE MCBroadcaster -----------------------------
(***************************************************************************)
(* Broadcaster with two connections, an admin and another user, a star, a  *)
(* prefix and a whole event to subscribe to, and transfers between the two *)
(* accounts.                                                               *)
(***************************************************************************)
EXTENDS Broadcaster, TLC

CONSTANTS alice, root, one, two

MCEventTypes ==
    {<<"*">>, <<"transfer", "*">>, <<"message", "send">>}

MCParties == {{alice, root}}

ConnectionSymmetry == Permutations(Connections)
=============================================================================
