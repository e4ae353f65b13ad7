----------------------------- MODULE MCFatNames -----------------------------
(* A roomy disk, names that differ in their first character or after it,     *)
(* a text shorter than the one it replaces, and a file of two clusters that  *)
(* nobody may write: Linux made it read-only (attribute 0x21).               *)
EXTENDS FatImages, FatRefinement

MCPaths == {To(<<AX>>), To(<<BX>>), To(<<AY>>), To(<<D, AX>>), To(<<D, QZ>>)}
MCTexts == {Long(2)}

MCImages ==
  {Image(<<Dir(D, 2), File(AY, 3, 3)>>,
         (2 :> <<Dir(Dot, 2), Dir(DotDot, 0), [File(QZ, 5, 6) EXCEPT !.attr = "none"]>> @@
          3 :> <<Piece(Long(3), 1), Piece(Long(3), 2), Piece(Long(3), 3)>> @@
          5 :> <<Piece(Long(6), 1), Piece(Long(6), 2), Piece(Long(6), 3), Piece(Long(6), 4)>> @@
          4 :> <<Piece(Long(6), 5), Piece(Long(6), 6)>>),
         (2 :> EOC @@ 3 :> EOC @@ 5 :> 4 @@ 4 :> EOC))}

\* What the theorems of FatProofs, FatFiles and FatStore assume.
ASSUME InOrder ==
  /\ ShortTexts /\ SoundImages /\ RoomyImages
  /\ BlankImages /\ NamedPaths /\ PlainPaths /\ LongRoot
  /\ TidyImages /\ WholeImages /\ SealedImages /\ LostImages
  /\ PackedImages /\ LeadingImages /\ LongComponents
=============================================================================
