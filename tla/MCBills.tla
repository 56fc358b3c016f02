------------------------------- MODULE MCBills -------------------------------
(***************************************************************************)
(* Instance of Bills: volumes and snapshots share a type of gnocchi,       *)
(* instances have one of their own.                                        *)
(***************************************************************************)
EXTENDS Bills

CONSTANTS v1, v2, v3, v4, i1

Volumes == {v1, v2, v3, v4}

MCKind == [s \in {"compute", "volume.volume", "volume.snapshot"} |->
             IF s = "compute" THEN "instance" ELSE "volume"]

MCServiceOf ==
  [r \in Ids |-> IF r \in Volumes THEN "volume.volume" ELSE "compute"]

Symmetry == Permutations(Volumes)
==============================================================================
