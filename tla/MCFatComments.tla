---------------------------- MODULE MCFatComments ----------------------------
(* Small disks on which the code does something else than its comments say.  *)
EXTENDS FatImages

NamePaths == {To(<<AX>>), To(<<BX>>)}
UpPaths == {To(<<D, DotDot, AX>>)}
ChainPaths == {To(<<AY>>)}

OneUnit == {Long(1)}

\* d, made by Linux in cluster 2 with its dot entries, and a file in cluster 3.
OneFile == {Image(<<Dir(D, 2), File(AY, 3, 1)>>,
                  (2 :> <<Dir(Dot, 2), Dir(DotDot, 0)>> @@ 3 :> <<Piece(Long(1), 1)>>),
                  (2 :> EOC @@ 3 :> EOC))}

\* A file of two clusters.
ChainFile == {Image(<<File(AY, 2, 3)>>,
                    (2 :> <<Piece(Long(3), 1), Piece(Long(3), 2)>> @@ 3 :> <<Piece(Long(3), 3)>>),
                    (2 :> 3 @@ 3 :> EOC))}
=============================================================================
