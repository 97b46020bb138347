----------------------------- MODULE MCDatasets -----------------------------
EXTENDS Datasets, TLC

CONSTANTS d1, d2

(* No file, one of one or two bytes, or two.                               *)
Bundles == {NoFiles, "f" :> 1, "f" :> 2, "f" :> 1 @@ "g" :> 1}

(* d2 is a clone registered with the prefix of d1.                         *)
Clone == (d1 :> d1) @@ (d2 :> d1)
=============================================================================
