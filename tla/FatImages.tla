----------------------------- MODULE FatImages -----------------------------
(* Names, texts and disk contents shared by the instances of module Fat.     *)
EXTENDS FatProperties, TLC

Letters == {"a", "b", "c", "d", "q", "u", "v", "w", "x", "y", "z", ".", "/"}

D == <<"d", "d">>
AX == <<"a", "x">>
BX == <<"b", "x">>
AY == <<"a", "y">>
Q == <<"q">>
QZ == <<"q", "z">>
Dot == <<".">>
DotDot == <<".", ".">>

File(n, c, s) == [kind |-> "entry", name |-> n, attr |-> "file", cluster |-> c, size |-> s]
Dir(n, c) == [kind |-> "entry", name |-> n, attr |-> "dir", cluster |-> c, size |-> 0]

Long(n) == [id |-> 1, len |-> n]

To(names) == [abs |-> FALSE, names |-> names]
From(names) == [abs |-> TRUE, names |-> names]

\* The disk whose root directory begins with root, whose clusters hold the units
\* of data (a function of cluster numbers to sequences) and whose FAT is chain
\* on the clusters in use.
Image(root, data, chain) ==
  [fat |-> [c \in Clusters |-> IF c < 2 THEN EOC
                               ELSE IF c \in DOMAIN chain THEN chain[c] ELSE 0],
   disk |-> [a \in Addr |->
     IF a <= 0 THEN IF a + RootSize \in DOMAIN root THEN root[a + RootSize] ELSE Zero
     ELSE LET c == 2 + ((a - 1) \div DirSize)
              s == 1 + ((a - 1) % DirSize)
          IN  IF c \in DOMAIN data /\ s \in DOMAIN data[c] THEN data[c][s] ELSE Zero]]
=============================================================================
