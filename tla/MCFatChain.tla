------------------------------ MODULE MCFatChain ------------------------------
(* A file of three scattered clusters made by Linux, and texts of one and of  *)
(* three clusters: chains are freed, cut short, rebuilt and spilled over.     *)
EXTENDS FatImages

MCPaths == {To(<<AY>>), To(<<D, AX>>)}
MCTexts == {Long(1), Long(5)}

\* Cluster 2 is continued in cluster 5, cluster 5 in cluster 4.
MCImages ==
  {Image(<<File(AY, 2, 5), Dir(D, 3)>>,
         (2 :> <<Piece(Long(5), 1), Piece(Long(5), 2)>> @@
          5 :> <<Piece(Long(5), 3), Piece(Long(5), 4)>> @@
          4 :> <<Piece(Long(5), 5)>>),
         (2 :> 5 @@ 3 :> EOC @@ 4 :> EOC @@ 5 :> 4))}
=============================================================================
