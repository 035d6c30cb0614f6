--------------------------- MODULE MCAssetUpload ---------------------------
(* Values for the constants of AssetUpload. *)
EXTENDS AssetUpload, TLC

CONSTANTS u1, u2, h1

MCUploads == {u1, u2}
MCLength == h1 :> 2

\* Below zero, nothing, one too few, the true one, one too many.
AllLengths == -1 .. 3
FewLengths == {-1, 1, 2}

SlotSymmetry == Permutations(MCUploads)
=============================================================================
