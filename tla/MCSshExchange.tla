--------------------------- MODULE MCSshExchange ---------------------------
(* Values for the constants of SshExchange. *)
EXTENDS SshExchange, TLC

CONSTANTS c1, k1, k2, k3, alice, bob

\* No keys, as many as may be offered, and one more.
MCAgentKeys == {<<>>, <<k1, k2>>, <<k1, k2, k3>>}

\* At first one key at most has an owner.
MCInitialOwners ==
  {[k \in Keys |-> IF k \in K THEN alice ELSE NoUser] : K \in {{}, {k1}, {k2}}}
=============================================================================
