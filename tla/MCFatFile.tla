----------------------------- MODULE MCFatFile ------------------------------
(* An instance of FatFile for TLC: one file of three clusters out of       *)
(* order, read across the ends of its clusters.                            *)
EXTENDS FatFile, TLC

ThreeClusters == 2 :> 5 @@ 3 :> 65535 @@ 4 :> 0 @@ 5 :> 3
OneFile == {[cluster |-> 2, size |-> 11]}
MayCross == {TRUE}

=============================================================================
