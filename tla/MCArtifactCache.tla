---------------------------- MODULE MCArtifactCache ----------------------------
(* An instance of ArtifactCache for TLC: two assets, the fourth artifact is of    *)
(* the second.                                                                    *)
EXTENDS ArtifactCache

CONSTANTS p1, p2
AssetOf == [k \in Keys |-> IF k = 4 THEN 2 ELSE 1]
=============================================================================
