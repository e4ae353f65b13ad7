------------------------------ MODULE MCFatFull ------------------------------
(* Running out of clusters and of root slots: one cluster of the disk, one   *)
(* behind its end and one root slot are free.  Blank, dot and absolute paths, *)
(* paths through files and paths that end in a slash; a stem and an extension *)
(* that are too long, and a path of too many components.                      *)
EXTENDS FatImages

MCPaths == {To(<<AX>>), From(<<AX>>), To(<<<<>>>>), To(<<D, AX>>),
            To(<<D, DotDot, AX>>), To(<<D, Q, AX>>), To(<<AY, AX>>), To(<<D, <<>>>>),
            To(<<D, <<"w", "y", "x">>>>), To(<<D, <<"u", ".", "x", "y">>>>), To(<<D, Dot, Dot, AX>>)}
MCTexts == {Long(2)}
MCImages == {Image(<<Dir(D, 2), File(AY, 3, 1), Dir(<<"c", "z">>, 4), Dir(<<"c", "w">>, 5),
                     [Zero EXCEPT !.name = QZ]>>,
                   (2 :> <<Dir(Dot, 2), Dir(DotDot, 0)>> @@ 3 :> <<Piece(Long(1), 1)>>),
                   [c \in 2..5 |-> EOC])}

\* What the theorems of FatProofs assume.
ASSUME Owned == ShortTexts /\ SoundImages /\ RoomyImages
=============================================================================
