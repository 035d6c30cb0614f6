--------------------------- MODULE MCPushArticle ---------------------------
(* Two clients: one whose article lists two files, which may be equal, one   *)
(* of them twice, and one that shares the other.  Their slugs may be the     *)
(* same.                                                                     *)
EXTENDS PushArticle, TLC

CONSTANTS c1, c2, alice, bob, blog, home, fa, fb, h1, h2

MCUserOf == (c1 :> alice) @@ (c2 :> bob)
MCSlugChoices == {(c1 :> blog) @@ (c2 :> home), [c \in Clients |-> blog]}
MCFilesOf == (c1 :> <<fa, fb, fa>>) @@ (c2 :> <<fb>>)
MCContents == {[f \in Files |-> h1], [f \in Files |-> IF f = fa THEN h1 ELSE h2]}
=============================================================================
