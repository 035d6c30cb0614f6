----------------------------- MODULE AssetStore -----------------------------
(* What the asset side of the CMS promises: a set of assets that can be    *)
(* served.  An asset, named by the SHA-512 hash of its bytes, enters the   *)
(* set once, whole, and is never lost again.  AssetUpload implements this. *)
CONSTANT Hashes     \* the content hashes clients may upload

VARIABLE held       \* the hashes whose bytes can be served

Init == held = {}

\* An upload succeeds: its asset becomes available in one step.
Store(h) == /\ h \notin held
            /\ held' = held \cup {h}

Next == \E h \in Hashes : Store(h)

Spec == Init /\ [][Next]_held
=============================================================================
