------------------------------ MODULE MCShell ------------------------------
(* Lines of every command over a disk with one directory and one file: paths *)
(* below the root and through "..", a stem and an extension too long for      *)
(* their fields, a quoted text, a line longer than the buffer, one with as    *)
(* many blanks as there are arguments and one with more.                      *)
EXTENDS FatImages, ShellProperties

MCChars ==
  Letters \cup {"e", "h", "i", "k", "l", "m", "o", "p", "r", "s", "t", " ", "\"", ">"}

EX == <<"e", "x">>
Hi == <<"h", "i">>

Line(words) ==
  LET Spaced[n \in 1..Len(words)] ==
        IF n = 1 THEN words[1] ELSE Spaced[n - 1] \o <<Blank>> \o words[n]
  IN  Spaced[Len(words)]

In(d, n) == <<d, Slash, n>>

MCLines ==
  {Line(l) : l \in {
     <<<<Mkdir>>, In(D, EX)>>, <<<<Mkdir>>>>, <<<<Mkdir>>, In(D, <<"o", "x", "x">>)>>,
     <<<<Touch>>, <<<<"v", ".", "x", "y">>>>>>,
     <<<<Cd>>>>, <<<<Cd>>, <<Slash, D, Slash, EX>>>>, <<<<Cd>>, <<AY>>>>,
     <<<<Cat>>, <<AY>>>>, <<<<Cat>>, <<D>>>>,
     <<<<Ls>>>>, <<<<Ls>>, In(D, DotDot)>>, <<<<Ls>>, <<AY>>>>,
     <<<<Echo>>, <<Quote, Hi, Blank, Hi, Quote>>, <<Greater>>, <<AY>>>>,
     <<<<Echo>>, <<Hi>>, <<Greater>>, <<D>>>>,
     <<<<Echo>>, <<Hi>>>>,
     <<<<Ls>>, <<>>, <<>>, <<>>, <<AX>>>>,
     <<<<Ls>>, <<>>, <<>>, <<>>, <<>>, <<AX>>>>,
     <<<<Echo>>, <<Hi>>, <<Greater>>, <<AY, Hi, Hi, Hi, Hi, Hi, AX>>>>}}

MCLeftovers == {[k \in 1..LineLength |-> IF k \in junk THEN <<"z">> ELSE NUL] :
                  junk \in {{}, 1..LineLength, {3, 4}}}

MCTextFor(arg) == IF Len(arg) = 1 THEN [id |-> 1, len |-> 1] ELSE [id |-> 2, len |-> 2]
MCEmpty == [id |-> 3, len |-> 1]
MCTexts == {MCTextFor(<<Hi>>), MCEmpty}

MCPaths == {}
MCImages == {Image(<<Dir(D, 2), File(AY, 3, 1)>>,
                   (2 :> <<Dir(Dot, 2), Dir(DotDot, 0)>> @@ 3 :> <<Piece(MCEmpty, 1)>>),
                   (2 :> EOC @@ 3 :> EOC))}

\* What the theorems of ShellProofs assume of lines, texts and images.
ASSUME Typed ==
  /\ TypedInput /\ ShortTexts /\ DirSize > 1
  /\ SoundImages /\ BlankImages /\ TidyImages /\ WholeImages /\ PackedImages /\ CleanImages
=============================================================================
