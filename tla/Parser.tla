------------------------------- MODULE Parser -------------------------------
(***************************************************************************)
(* The line the shell reads (src/parse.c, and the loop of kernel_main that *)
(* clears its buffer after each line) and the arguments it is cut into.    *)
(*                                                                         *)
(* A line is a sequence of tokens: a separator, which is one character, or *)
(* a run of other characters.  A buffer cell holds a token, NUL the empty  *)
(* one; lengths count tokens.                                              *)
(***************************************************************************)
EXTENDS Integers, Sequences, FiniteSets
SeqOps == INSTANCE SequencesExt

CONSTANTS
  LineLength,  \* cells of buffer[] (100)
  NumArgs,     \* NUMARGS, rows of parseArguments[][] (50)
  Lines,       \* what a user types before a newline
  Leftovers    \* what buffer[], never initialised, may hold at the start

ASSUME ParserAssumption ==
  /\ LineLength \in Nat \ {0} /\ NumArgs \in Nat /\ NumArgs >= 4
  /\ \A b \in Leftovers : DOMAIN b = 1..LineLength

VARIABLES
  input,          \* typed and not yet read
  line,           \* what the last call of inputToBuffer read
  buffer,         \* kernel_main's buffer[]
  parseArguments

NUL == <<>>
Blank == <<" ">>
Quote == <<"\"">>
Slash == <<"/">>
Greater == <<">">>
Newline == <<"\n">>

\* The characters of an argument, and its first token.
Chars(arg) == SeqOps!FlattenSeq(arg)
StartsWith(arg, t) == arg # <<>> /\ Head(arg) = t

NoArguments == [j \in 1..NumArgs |-> <<>>]
initParseArguments == parseArguments' = NoArguments

nullCharArrayMutant(b) == b
nullCharArray(b) == [k \in 1..LineLength |-> NUL]

\* How many tokens inputToBuffer stores: up to the newline, or all the buffer holds.
Entered(typed) ==
  CHOOSE n \in 0..LineLength :
    /\ \A k \in 1..n : typed[k] # Newline
    /\ n = LineLength \/ typed[n + 1] = Newline

\* The buffer is not terminated; the newline of a line that fills it stays unread.
inputToBuffer(typed) ==
  LET n == Entered(typed)
  IN  /\ line' = SubSeq(typed, 1, n)
      /\ buffer' = [k \in 1..LineLength |-> IF k <= n THEN typed[k] ELSE buffer[k]]
      /\ input' = SubSeq(typed, IF n = LineLength THEN n + 1 ELSE n + 2, Len(typed))

strlen(b) ==
  CHOOSE n \in 0..LineLength :
    (\A k \in 1..n : b[k] # NUL) /\ (n = LineLength \/ b[n + 1] = NUL)

\* No NUL in the buffer: strlen reads what lies behind it.
Unterminated(b) == strlen(b) = LineLength

numberArguments(b) == Cardinality({k \in 1..strlen(b) : b[k] = Blank})

Put(row, index, t) == IF index <= Len(row) THEN [row EXCEPT ![index] = t] ELSE Append(row, t)

BeyondRowsMutant(n) == n >= NumArgs
BeyondRows(n) == n > NumArgs

\* The loop of bufferToArgs over b, which begins with the rows args held: one
\* character t on, in state s, and all of them.
Started(args) == [args |-> args, count |-> 1, index |-> 1, quotes |-> FALSE, wild |-> FALSE]
Consumed(s, t) ==
  CASE t = Blank /\ ~s.quotes -> [s EXCEPT !.count = @ + 1, !.index = 1]
    [] t = Quote -> [s EXCEPT !.quotes = ~@]
    [] OTHER -> IF BeyondRows(s.count) THEN [s EXCEPT !.wild = TRUE]
                ELSE [s EXCEPT !.args[s.count] = Put(@, s.index, t), !.index = @ + 1]

Scanned(b, args) ==
  LET Loop[k \in 0..strlen(b)] ==
        IF k = 0 THEN Started(args) ELSE Consumed(Loop[k - 1], b[k])
  IN  Loop[strlen(b)]

bufferToArgs(b) == parseArguments' = Scanned(b, parseArguments).args

\* Components of a path, the slash at its start aside.
pathToFileName(arg) ==
  LET abs == StartsWith(arg, Slash)
      rest == IF abs THEN Tail(arg) ELSE arg
      Names[k \in 0..Len(rest)] ==
        IF k = 0 THEN <<<<>>>>
        ELSE IF rest[k] = Slash THEN Append(Names[k - 1], <<>>)
        ELSE [Names[k - 1] EXCEPT ![Len(Names[k - 1])] = @ \o rest[k]]
  IN  [abs |-> abs, names |-> Names[Len(rest)]]

(***************************************************************************)
(* What the arguments of a line should be                                  *)
(***************************************************************************)

Upto(S, k) == {m \in S : m <= k}
Quotes(l) == {m \in DOMAIN l : l[m] = Quote}
Quoted(l, k) == Cardinality(Upto(Quotes(l), k - 1)) % 2 = 1

\* Cut at the blanks out of quotes, less the quotes.
Cuts(l) == {m \in DOMAIN l : l[m] = Blank /\ ~Quoted(l, m)}
WordCells(l, j) ==
  {k \in DOMAIN l \ Cuts(l) :
     l[k] # Quote /\ Cardinality(Upto(Cuts(l), k)) = j - 1}

\* The row w is the cells S of l, in order; the rows are the words of l.
Spells(w, l, S) ==
  Len(w) = Cardinality(S) /\ \A k \in S : w[Cardinality(Upto(S, k))] = l[k]
AreWords(rows, l) == \A j \in 1..NumArgs : Spells(rows[j], l, WordCells(l, j))
=============================================================================
