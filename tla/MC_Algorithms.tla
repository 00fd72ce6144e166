---------------------------- MODULE MC_Algorithms ---------------------------
(***************************************************************************)
(* The loader of the configuration and the inversion in the field, two     *)
(* sequential algorithms that share nothing, side by side.                 *)
(***************************************************************************)
EXTENDS ClusterConfig, FieldInv

Init == LoaderInit /\ EuclidInit
Next == \/ LoaderNext /\ UNCHANGED euclid
        \/ EuclidNext /\ UNCHANGED loader
Spec == Init /\ [][Next]_<<loader, euclid>> /\ WF_euclid(EuclidNext)
=============================================================================
