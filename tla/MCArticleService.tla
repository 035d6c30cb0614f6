-------------------------- MODULE MCArticleService --------------------------
(* Values for the constants of ArticleService. *)
EXTENDS ArticleService, TLC

CONSTANTS r1, r2, alice, bob, blog, n1, n2, n3, h1, h2

\* Two names of one file, and a path that leaves the directory.
MCClean == [f \in FileNames |-> CASE f = "dot_a" -> "a"
                                  [] f = "up_a" -> NotLocal
                                  [] OTHER -> f]

D(f, h) == [file |-> f, hash |-> h]

\* No asset; two assets; two names of one file; a name that is not local.
MCAssetLists == {{},
                 {D("a", h1), D("b", h2)},
                 {D("a", h2), D("dot_a", h1)},
                 {D("up_a", h1)}}

RequestSymmetry == Permutations(Requests)
=============================================================================
