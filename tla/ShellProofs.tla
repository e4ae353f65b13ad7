---------------------------- MODULE ShellProofs ----------------------------
(***************************************************************************)
(* Theorems of module Shell for every disk, every set of lines and every   *)
(* size of the line buffer and the arguments: what a line becomes, what    *)
(* the commands leave alone and, for a shell used in order (InOrder) over  *)
(* images as FatProperties describes them, what they do to the files.      *)
(*                                                                         *)
(* The invariant for the files is ShellInv.  It joins what FatFiles says   *)
(* of the disk to what a walk in progress has come through (WalkInv), what *)
(* the last call has opened (OpenedInv) or made (MadeInv), and that        *)
(* fatOpen, which mkdir calls with the path it has given to fatCreate,     *)
(* opens the very directory that fatCreate has made (DotsInv).  For that   *)
(* the directories have to be filled from the front (Packed) and new       *)
(* clusters to be cleared (Clean).                                         *)
(***************************************************************************)
EXTENDS ShellProperties, FatStore, SequenceTheorems

(***************************************************************************)
(* What is typed                                                           *)
(***************************************************************************)

Arg == Seq(Name)

LEMMA ExceptSeqType ==
  ASSUME NEW S, NEW v \in Seq(S), NEW j \in 1..Len(v), NEW w \in S
  PROVE  [v EXCEPT ![j] = w] \in Seq(S) /\ Len([v EXCEPT ![j] = w]) = Len(v)
<1>1. Len(v) \in Nat /\ v \in [1..Len(v) -> S]  OBVIOUS
<1>2. [v EXCEPT ![j] = w] \in [1..Len(v) -> S]  BY <1>1
<1> QED  BY <1>1, <1>2

\* A path that an argument spells is one fatOpen and fatCreate may be given.
LEMMA PathTyped ==
  ASSUME NEW arg \in Arg
  PROVE  pathToFileName(arg) \in Path /\ pathToFileName(arg).names # <<>>
<1> DEFINE abs == StartsWith(arg, Slash)
           rest == IF abs THEN Tail(arg) ELSE arg
           Body(g) ==
             [k \in 0..Len(rest) |->
                IF k = 0 THEN <<<<>>>>
                ELSE IF rest[k] = Slash THEN Append(g[k - 1], <<>>)
                ELSE [g[k - 1] EXCEPT ![Len(g[k - 1])] = @ \o rest[k]]]
           Names == CHOOSE g : g = Body(g)
<1>1. pathToFileName(arg) = [abs |-> abs, names |-> Names[Len(rest)]]
  BY Zenon DEF pathToFileName
<1>2. abs \in BOOLEAN  BY DEF StartsWith
<1>3. rest \in Arg
  <2>1. abs => arg # <<>>  BY DEF StartsWith
  <2> QED  BY <2>1 DEF Arg
<1> HIDE DEF abs, rest
<1> DEFINE n == Len(rest)
           V == {v \in Arg : v # <<>>}
           Next1(k, v) == IF rest[k] = Slash THEN Append(v, <<>>)
                          ELSE [v EXCEPT ![Len(v)] = @ \o rest[k]]
           step == [k \in 1..n |-> [v \in V |-> Next1(k, v)]]
<1>4. n \in Nat /\ \A k \in 1..n : rest[k] \in Name  BY <1>3 DEF Arg
<1>5. ASSUME NEW k \in 1..n, NEW v \in V PROVE Next1(k, v) \in V
  <2>1. v \in Seq(Name) /\ Len(v) \in Nat /\ Len(v) # 0  BY DEF Arg
  <2>2. <<>> \in Name  BY Constants DEF Name
  <2>3. Append(v, <<>>) \in V  BY <2>1, <2>2 DEF Arg
  <2>4. v[Len(v)] \in Name  BY <2>1
  <2>5. v[Len(v)] \o rest[k] \in Name  BY <1>4, <2>4 DEF Name
  <2> DEFINE w == v[Len(v)] \o rest[k]
  <2> HIDE DEF w
  <2>6. [v EXCEPT ![Len(v)] = w] \in Seq(Name) /\ Len([v EXCEPT ![Len(v)] = w]) = Len(v)
    BY <2>1, <2>5, ExceptSeqType DEF w
  <2>7. [v EXCEPT ![Len(v)] = w] \in V  BY <2>1, <2>6 DEF Arg
  <2> QED  BY <2>3, <2>7 DEF w
<1>6. <<<<>>>> \in V  BY Constants DEF Arg, Name
<1> HIDE DEF V
<1>7. step \in [1..n -> [V -> V]]  BY <1>5
<1>8. PICK f \in [0..n -> V] : f[0] = <<<<>>>> /\ \A k \in 1..n : f[k] = step[k][f[k - 1]]
  <2> DEFINE base == <<<<>>>>
  <2>1. base \in V /\ n \in Nat  BY <1>4, <1>6
  <2> HIDE DEF step, n, base
  <2>2. Runs(n, V, base, step) # {}  BY <1>7, <2>1, LoopExists
  <2> QED  BY <2>2 DEF base, Runs
<1>9. \A k \in 0..n : f[k] = IF k = 0 THEN <<<<>>>> ELSE Next1(k, f[k - 1])
  <2> SUFFICES ASSUME NEW k \in 0..n, k # 0 PROVE f[k] = Next1(k, f[k - 1])
    BY <1>8
  <2>1. k \in 1..n /\ k - 1 \in 0..n  BY <1>4
  <2>2. f[k - 1] \in V  BY <2>1
  <2> QED  BY <1>8, <2>1, <2>2
<1>10. f = Body(f)
  <2>1. Body(f) = [k \in 0..n |-> f[k]]  BY <1>9
  <2> QED  BY <2>1
<1>11. Names = Body(Names)  BY <1>10
<1> HIDE DEF Names
<1>13. Names[0] = <<<<>>>> /\ \A k \in 1..n : Names[k] = Next1(k, Names[k - 1])
  <2>1. \A k \in 0..n : Names[k] = Body(Names)[k]  BY <1>11
  <2>2. 0 \in 0..n /\ \A k \in 1..n : k \in 0..n /\ k # 0  BY <1>4
  <2> QED  BY <2>1, <2>2
<1>12. Names[n] \in V
  <2> DEFINE T == {k \in Nat : k <= n => Names[k] \in V}
  <2>1. 0 \in T  BY <1>6, <1>13
  <2>2. ASSUME NEW k \in 1..n, k - 1 \in T PROVE k \in T
    <3>1. Names[k - 1] \in V  BY <2>2, <1>4
    <3>2. Names[k] = Next1(k, Names[k - 1])  BY <1>13
    <3> QED  BY <1>4, <1>5, <3>1, <3>2
  <2> HIDE DEF T, Names, n
  <2>3. 0..n \subseteq T  BY <1>4, <2>1, <2>2, LoopKeeps
  <2> QED  BY <1>4, <2>3 DEF T
<1> QED  BY <1>1, <1>2, <1>12 DEF V, Arg, Path

\* A string ends at the first terminator, of those at E, or at the end of the array.
FirstAmong(N, E) == {n \in 0..N : (\A k \in 1..n : k \notin E) /\ (n = N \/ n + 1 \in E)}

LEMMA EndExists ==
  ASSUME NEW N \in Nat, NEW E
  PROVE  FirstAmong(N, E) # {}
<1> SUFFICES ASSUME ~ \E n \in 0..N : (\A k \in 1..n : k \notin E) /\ (n = N \/ n + 1 \in E)
             PROVE  FALSE
  BY DEF FirstAmong
<1> DEFINE T == {n \in 0..N : \A k \in 1..n : k \notin E}
<1>1. 0 \in T  OBVIOUS
<1>2. ASSUME NEW k \in 1..N, k - 1 \in T PROVE k \in T
  <2>1. k - 1 \in 0..N /\ k - 1 # N /\ \A x \in 1..(k - 1) : x \notin E  BY <1>2
  <2>2. (k - 1) + 1 = k  OBVIOUS
  <2>3. k \notin E  BY <2>1, <2>2
  <2> QED  BY <2>1, <2>3
<1> HIDE DEF T
<1>3. 0..N \subseteq T  BY <1>1, <1>2, LoopKeeps
<1> QED  BY <1>3 DEF T

Buffers == [1..LineLength -> Name]
ArgList == [1..NumArgs -> Arg]
ScanState == [args: ArgList, count: Nat \ {0}, index: Nat \ {0}, quotes: BOOLEAN, wild: BOOLEAN]

LEMMA LineSizes == LineLength \in Nat \ {0} /\ NumArgs \in Nat /\ NumArgs >= 4
BY ParserAssumption

LEMMA StrlenIs ==
  ASSUME NEW b
  PROVE  /\ strlen(b) \in 0..LineLength
         /\ \A k \in 1..strlen(b) : b[k] # NUL
         /\ strlen(b) = LineLength \/ b[strlen(b) + 1] = NUL
<1> DEFINE E == {k \in 1..LineLength : b[k] = NUL}
<1> HIDE DEF E
<1>1. PICK n \in 0..LineLength : (\A k \in 1..n : k \notin E) /\ (n = LineLength \/ n + 1 \in E)
  <2>1. LineLength \in Nat  BY LineSizes
  <2>2. FirstAmong(LineLength, E) # {}  BY <2>1, EndExists
  <2> QED  BY <2>2 DEF FirstAmong
<1>2. \A k \in 1..n : k \in 1..LineLength  BY LineSizes
<1>3. (\A k \in 1..n : b[k] # NUL) /\ (n = LineLength \/ b[n + 1] = NUL)
  BY <1>1, <1>2 DEF E
<1> QED  BY <1>3 DEF strlen

LEMMA PutTyped ==
  ASSUME NEW row \in Arg, NEW index \in Nat \ {0}, NEW t \in Name
  PROVE  Put(row, index, t) \in Arg
<1>1. row \in Seq(Name) /\ Len(row) \in Nat  BY DEF Arg
<1>2. CASE index <= Len(row)
  <2>1. index \in 1..Len(row)  BY <1>1, <1>2
  <2> QED  BY <1>1, <1>2, <2>1, ExceptSeqType DEF Put, Arg
<1>3. CASE ~(index <= Len(row))
  <2>1. Append(row, t) \in Seq(Name)  BY <1>1
  <2> QED  BY <1>3, <2>1 DEF Put, Arg
<1> QED  BY <1>2, <1>3

LEMMA Separators == Blank # Quote
<1>1. " " # "\""  OBVIOUS
<1>2. Blank[1] = " " /\ Quote[1] = "\""  BY DEF Blank, Quote
<1> QED  BY <1>1, <1>2

State(list, count, index, quotes, wild) ==
  [args |-> list, count |-> count, index |-> index, quotes |-> quotes, wild |-> wild]

\* What a character changes of the state of bufferToArgs.
LEMMA ConsumedIs ==
  ASSUME NEW s \in ScanState, NEW t
  PROVE  Consumed(s, t) =
           IF t = Blank /\ ~s.quotes THEN State(s.args, s.count + 1, 1, s.quotes, s.wild)
           ELSE IF t = Quote THEN State(s.args, s.count, s.index, ~s.quotes, s.wild)
           ELSE IF BeyondRows(s.count) THEN State(s.args, s.count, s.index, s.quotes, TRUE)
           ELSE State([s.args EXCEPT ![s.count] = Put(s.args[s.count], s.index, t)],
                      s.count, s.index + 1, s.quotes, s.wild)
<1>1. CASE t = Blank /\ ~s.quotes
  <2>1. Consumed(s, t) = [s EXCEPT !.count = s.count + 1, !.index = 1]
    BY <1>1, Separators DEF Consumed
  <2> QED  BY <1>1, <2>1 DEF ScanState, State
<1>2. CASE ~(t = Blank /\ ~s.quotes) /\ t = Quote
  <2>1. Consumed(s, t) = [s EXCEPT !.quotes = ~s.quotes]  BY <1>2 DEF Consumed
  <2> QED  BY <1>2, <2>1 DEF ScanState, State
<1>3. CASE ~(t = Blank /\ ~s.quotes) /\ t # Quote /\ BeyondRows(s.count)
  <2>1. Consumed(s, t) = [s EXCEPT !.wild = TRUE]  BY <1>3 DEF Consumed
  <2> QED  BY <1>3, <2>1 DEF ScanState, State
<1>4. CASE ~(t = Blank /\ ~s.quotes) /\ t # Quote /\ ~BeyondRows(s.count)
  <2> DEFINE put == Put(s.args[s.count], s.index, t)
  <2>1. Consumed(s, t) = [s EXCEPT !.args = [s.args EXCEPT ![s.count] = put],
                                   !.index = s.index + 1]
    BY <1>4 DEF Consumed
  <2> HIDE DEF put
  <2> DEFINE rows == [s.args EXCEPT ![s.count] = put]
  <2> HIDE DEF rows
  <2>2. Consumed(s, t) = [s EXCEPT !.args = rows, !.index = s.index + 1]  BY <2>1 DEF rows
  <2>3. Consumed(s, t) = State(rows, s.count, s.index + 1, s.quotes, s.wild)
    BY <2>2 DEF ScanState, State
  <2> QED  BY <1>4, <2>3 DEF rows, put
<1> QED  BY <1>1, <1>2, <1>3, <1>4

LEMMA ConsumedTyped ==
  ASSUME NEW s \in ScanState, NEW t \in Name
  PROVE  Consumed(s, t) \in ScanState
<1>0. Consumed(s, t) =
        IF t = Blank /\ ~s.quotes THEN State(s.args, s.count + 1, 1, s.quotes, s.wild)
        ELSE IF t = Quote THEN State(s.args, s.count, s.index, ~s.quotes, s.wild)
        ELSE IF BeyondRows(s.count) THEN State(s.args, s.count, s.index, s.quotes, TRUE)
        ELSE State([s.args EXCEPT ![s.count] = Put(s.args[s.count], s.index, t)],
                   s.count, s.index + 1, s.quotes, s.wild)
  BY ConsumedIs
<1>1. /\ s.args \in ArgList /\ s.count \in Nat \ {0} /\ s.index \in Nat \ {0}
      /\ s.quotes \in BOOLEAN /\ s.wild \in BOOLEAN
      /\ s.count + 1 \in Nat \ {0} /\ s.index + 1 \in Nat \ {0} /\ 1 \in Nat \ {0}
  BY DEF ScanState
<1>2. ASSUME ~BeyondRows(s.count)
      PROVE  [s.args EXCEPT ![s.count] = Put(s.args[s.count], s.index, t)] \in ArgList
  <2>1. s.count \in 1..NumArgs  BY <1>1, <1>2, LineSizes DEF BeyondRows
  <2>2. s.args[s.count] \in Arg  BY <1>1, <2>1 DEF ArgList
  <2> DEFINE put == Put(s.args[s.count], s.index, t)
  <2>3. put \in Arg  BY <1>1, <2>2, PutTyped
  <2> HIDE DEF put
  <2> QED  BY <1>1, <2>1, <2>3 DEF ArgList, put
<1>3. ASSUME NEW a \in ArgList, NEW n \in Nat \ {0}, NEW x \in Nat \ {0},
             NEW q \in BOOLEAN, NEW w \in BOOLEAN
      PROVE  State(a, n, x, q, w) \in ScanState
  BY DEF State, ScanState
<1>4. (~s.quotes) \in BOOLEAN /\ TRUE \in BOOLEAN  OBVIOUS
<1>5. CASE t = Blank /\ ~s.quotes
  <2>1. Consumed(s, t) = State(s.args, s.count + 1, 1, s.quotes, s.wild)
    BY Zenon, <1>5, <1>0
  <2>2. /\ s.args \in ArgList /\ s.count + 1 \in Nat \ {0} /\ 1 \in Nat \ {0}
        /\ s.quotes \in BOOLEAN /\ s.wild \in BOOLEAN
    BY <1>1
  <2>3. State(s.args, s.count + 1, 1, s.quotes, s.wild) \in ScanState  BY Zenon, <1>3, <2>2
  <2> QED  BY <2>1, <2>3
<1>6. CASE ~(t = Blank /\ ~s.quotes) /\ t = Quote
  <2>1. Consumed(s, t) = State(s.args, s.count, s.index, ~s.quotes, s.wild)
    BY <1>6, <1>0
  <2>2. /\ s.args \in ArgList /\ s.count \in Nat \ {0} /\ s.index \in Nat \ {0}
        /\ (~s.quotes) \in BOOLEAN /\ s.wild \in BOOLEAN
    BY <1>1, <1>4
  <2>3. State(s.args, s.count, s.index, ~s.quotes, s.wild) \in ScanState  BY Zenon, <1>3, <2>2
  <2> QED  BY <2>1, <2>3
<1>7. CASE ~(t = Blank /\ ~s.quotes) /\ t # Quote /\ BeyondRows(s.count)
  <2>1. Consumed(s, t) = State(s.args, s.count, s.index, s.quotes, TRUE)
    BY <1>7, <1>0
  <2>2. /\ s.args \in ArgList /\ s.count \in Nat \ {0} /\ s.index \in Nat \ {0}
        /\ s.quotes \in BOOLEAN /\ TRUE \in BOOLEAN
    BY <1>1, <1>4
  <2>3. State(s.args, s.count, s.index, s.quotes, TRUE) \in ScanState  BY Zenon, <1>3, <2>2
  <2> QED  BY <2>1, <2>3
<1>8. CASE ~(t = Blank /\ ~s.quotes) /\ t # Quote /\ ~BeyondRows(s.count)
  <2> DEFINE rows == [s.args EXCEPT ![s.count] = Put(s.args[s.count], s.index, t)]
  <2>1. rows \in ArgList  BY <1>2, <1>8
  <2>2. Consumed(s, t) = State(rows, s.count, s.index + 1, s.quotes, s.wild)
    BY <1>8, ConsumedIs
  <2> HIDE DEF rows
  <2>3. /\ s.count \in Nat \ {0} /\ s.index + 1 \in Nat \ {0}
        /\ s.quotes \in BOOLEAN /\ s.wild \in BOOLEAN
    BY <1>1
  <2>4. State(rows, s.count, s.index + 1, s.quotes, s.wild) \in ScanState
    BY Zenon, <1>3, <2>1, <2>3
  <2> QED  BY <2>2, <2>4
<1> QED  BY <1>5, <1>6, <1>7, <1>8

\* bufferToArgs goes through the buffer a character at a time.
LEMMA ScanLoop ==
  ASSUME NEW b \in Buffers, NEW list \in ArgList
  PROVE  \E f \in [0..strlen(b) -> ScanState] :
           /\ f[0] = Started(list) /\ Scanned(b, list) = f[strlen(b)]
           /\ \A k \in 1..strlen(b) : f[k] = Consumed(f[k - 1], b[k])
<1> DEFINE n == strlen(b)
           base == Started(list)
           Body(g) == [k \in 0..n |-> IF k = 0 THEN base ELSE Consumed(g[k - 1], b[k])]
           Loop == CHOOSE g : g = Body(g)
           step == [k \in 1..n |-> [s \in ScanState |-> Consumed(s, b[k])]]
<1>1. Scanned(b, list) = Loop[n]  BY Zenon DEF Scanned
<1>2. n \in 0..LineLength  BY StrlenIs
<1>3. base \in ScanState  BY DEF Started, ScanState
<1> HIDE DEF base, n
<1>4. \A k \in 1..n : b[k] \in Name  BY <1>2, LineSizes DEF Buffers
<1>5. step \in [1..n -> [ScanState -> ScanState]]  BY <1>4, ConsumedTyped
<1>6. Runs(n, ScanState, base, step) # {}
  <2> HIDE DEF step
  <2> QED  BY <1>2, <1>3, <1>5, LineSizes, LoopExists
<1>7. PICK f \in [0..n -> ScanState] : f[0] = base /\ \A k \in 1..n : f[k] = step[k][f[k - 1]]
  BY <1>6 DEF Runs
<1>8. \A k \in 1..n : f[k] = Consumed(f[k - 1], b[k])
  <2> SUFFICES ASSUME NEW k \in 1..n PROVE f[k] = Consumed(f[k - 1], b[k])
    OBVIOUS
  <2>1. k - 1 \in 0..n  BY <1>2
  <2>2. f[k - 1] \in ScanState  BY <2>1
  <2> QED  BY <1>7, <2>2
<1>9. f = Body(f)
  <2>1. \A k \in 0..n : f[k] = IF k = 0 THEN base ELSE Consumed(f[k - 1], b[k])
    BY <1>2, <1>7, <1>8
  <2>2. Body(f) = [k \in 0..n |-> f[k]]  BY <2>1
  <2> QED  BY <2>2
<1>10. Loop = Body(Loop)  BY <1>9
<1> HIDE DEF Loop
<1>11. Loop[0] = base /\ \A k \in 1..n : Loop[k] = Consumed(Loop[k - 1], b[k])
  <2>1. \A k \in 0..n : Loop[k] = Body(Loop)[k]  BY <1>10
  <2>2. 0 \in 0..n /\ \A k \in 1..n : k \in 0..n /\ k # 0  BY <1>2
  <2> QED  BY <2>1, <2>2
<1>12. \A k \in 0..n : Loop[k] = f[k]
  <2> DEFINE T == {k \in 0..n : Loop[k] = f[k]}
  <2>1. 0 \in T  BY <1>2, <1>7, <1>11
  <2>2. ASSUME NEW k \in 1..n, k - 1 \in T PROVE k \in T
    BY <1>2, <1>8, <1>11, <2>2
  <2> HIDE DEF T
  <2>3. 0..n \subseteq T
    <3>1. n \in Nat  BY <1>2, LineSizes
    <3> HIDE DEF n
    <3> QED  BY <2>1, <2>2, <3>1, LoopKeeps
  <2> QED  BY <2>3 DEF T
<1> QED  BY <1>1, <1>2, <1>7, <1>8, <1>12 DEF n, base

LEMMA ScannedTyped ==
  ASSUME NEW b \in Buffers, NEW list \in ArgList
  PROVE  Scanned(b, list) \in ScanState
<1>1. PICK f \in [0..strlen(b) -> ScanState] : Scanned(b, list) = f[strlen(b)]
  BY ScanLoop
<1>2. strlen(b) \in 0..strlen(b)  BY StrlenIs
<1> QED  BY <1>1, <1>2

(***************************************************************************)
(* What the shell's own variables hold                                     *)
(***************************************************************************)

\* What is typed is read a line at a time, each up to its newline.
Tokens == Name \ {NUL}

Typed(x) ==
  /\ x \in Seq(Tokens \cup {Newline})
  /\ x # <<>> => x[Len(x)] = Newline

LEMMA EnteredIs ==
  ASSUME NEW x, Typed(x), x # <<>>
  PROVE  /\ Entered(x) \in 0..LineLength /\ Entered(x) < Len(x)
         /\ \A k \in 1..Entered(x) : x[k] \in Tokens
         /\ Entered(x) = LineLength \/ x[Entered(x) + 1] = Newline
<1> DEFINE E == {k \in 1..Len(x) : x[k] = Newline}
           OK(n) == /\ \A k \in 1..n : x[k] # Newline
                    /\ n = LineLength \/ x[n + 1] = Newline
<1>1. x \in Seq(Tokens \cup {Newline}) /\ x[Len(x)] = Newline  BY DEF Typed
<1>2. Len(x) \in Nat \ {0}  BY <1>1
<1>3. LineLength \in Nat  BY LineSizes
<1>4. Len(x) \in E  BY <1>1, <1>2
<1>5. \E n \in 0..LineLength : OK(n)
  <2> HIDE DEF E
  <2>1. FirstAmong(LineLength, E) # {}  BY <1>3, EndExists
  <2>2. PICK n \in 0..LineLength : (\A k \in 1..n : k \notin E) /\ (n = LineLength \/ n + 1 \in E)
    BY <2>1 DEF FirstAmong
  <2>3. n < Len(x)  BY <1>2, <1>3, <1>4, <2>2
  <2>4. \A k \in 1..n : k \in 1..Len(x)  BY <1>2, <1>3, <2>3
  <2>5. OK(n)  BY <2>2, <2>4 DEF E
  <2> QED  BY <2>5
<1> DEFINE e == Entered(x)
<1>6. e \in 0..LineLength /\ OK(e)  BY <1>5 DEF Entered
<1> HIDE DEF e
<1>7. e < Len(x)
  <2> SUFFICES ASSUME Len(x) <= e PROVE FALSE  BY <1>2, <1>3, <1>6
  <2>1. Len(x) \in 1..e  BY <1>2, <1>3, <1>6
  <2> QED  BY <1>1, <1>6, <2>1
<1>8. ASSUME NEW k \in 1..e PROVE x[k] \in Tokens
  <2>1. k \in 1..Len(x)  BY <1>2, <1>3, <1>6, <1>7
  <2>2. x[k] \in Tokens \cup {Newline}  BY <1>1, <2>1
  <2> QED  BY <1>6, <2>2
<1> QED  BY <1>6, <1>7, <1>8 DEF e

\* What is left of it is typed too.
LEMMA LeftTyped ==
  ASSUME NEW x, Typed(x), x # <<>>, NEW m \in Nat \ {0}, m <= Len(x) + 1
  PROVE  Typed(SubSeq(x, m, Len(x)))
<1> DEFINE n == Len(x)
           y == SubSeq(x, m, n)
<1>1. x \in Seq(Tokens \cup {Newline}) /\ x[n] = Newline  BY DEF Typed
<1>2. n \in Nat \ {0}  BY <1>1
<1>3. \A k \in m..n : x[k] \in Tokens \cup {Newline}
  <2> SUFFICES ASSUME NEW k \in m..n PROVE x[k] \in Tokens \cup {Newline}  OBVIOUS
  <2>1. k \in 1..n  BY <1>2
  <2> QED  BY <1>1, <2>1
<1> HIDE DEF n
<1>4. /\ y \in Seq(Tokens \cup {Newline}) /\ Len(y) = IF m <= n THEN n - m + 1 ELSE 0
      /\ \A k \in 1..n - m + 1 : y[k] = x[m + k - 1]
  <2> DEFINE S == Tokens \cup {Newline}
  <2>1. m \in Int /\ n \in Int /\ \A k \in m..n : x[k] \in S  BY <1>2, <1>3
  <2> HIDE DEF S
  <2>2. /\ SubSeq(x, m, n) \in Seq(S) /\ Len(SubSeq(x, m, n)) = IF m <= n THEN n - m + 1 ELSE 0
        /\ \A k \in 1..n - m + 1 : SubSeq(x, m, n)[k] = x[m + k - 1]
    BY <2>1, SubSeqProperties
  <2> QED  BY <2>2 DEF S
<1> HIDE DEF y
<1>5. ASSUME y # <<>> PROVE y[Len(y)] = Newline
  <2>1. Len(y) # 0  BY <1>4, <1>5
  <2>2. m <= n /\ Len(y) = n - m + 1  BY <1>4, <2>1
  <2>3. Len(y) \in 1..n - m + 1 /\ m + Len(y) - 1 = n  BY <1>2, <2>2
  <2> QED  BY <1>1, <1>4, <2>3
<1> QED  BY <1>4, <1>5 DEF Typed, y, n


ShellTypes ==
  /\ Typed(input) /\ buffer \in Buffers
  /\ parseArguments \in ArgList /\ workingDirectory \in Arg

LEMMA NULTyped == NUL \in Name
BY Constants DEF NUL, Name

LEMMA NoArgumentsTyped == NoArguments \in ArgList /\ <<Slash>> \in Arg
<1>1. <<>> \in Seq(Name)  OBVIOUS
<1>2. Slash \in Name  BY InputAssumption DEF Slash, Name
<1> QED  BY <1>1, <1>2 DEF NoArguments, ArgList, Arg

LEMMA ShellTypesInit ==
  ASSUME TypedInput, ShellInit
  PROVE  TypeInv /\ ShellTypes
<1>1. Typed(<<>>)  BY DEF Typed
<1>2. buffer \in Buffers  BY DEF ShellInit, TypedInput, Buffers
<1> QED  BY <1>1, <1>2, InitTypes, NoArgumentsTyped DEF ShellInit, ShellTypes

\* What inputToBuffer reads of x, and what bufferToArgs makes of it.
LEMMA InputTypes ==
  ASSUME ShellTypes, NEW x, Typed(x), x # <<>>, inputToBuffer(x)
  PROVE  Typed(input') /\ buffer' \in Buffers
<1> DEFINE n == Entered(x)
           m == IF n = LineLength THEN n + 1 ELSE n + 2
<1>1. /\ n \in 0..LineLength /\ n < Len(x)
      /\ \A k \in 1..n : x[k] \in Tokens
  BY EnteredIs
<1>2. input' = SubSeq(x, m, Len(x))
  BY DEF inputToBuffer
<1>3. buffer' = [k \in 1..LineLength |-> IF k <= n THEN x[k] ELSE buffer[k]]
  BY DEF inputToBuffer
<1>4. Len(x) \in Nat  BY DEF Typed
<1> HIDE DEF n
<1>5. m \in Nat \ {0} /\ m <= Len(x) + 1  BY <1>1, <1>4, LineSizes
<1> HIDE DEF m
<1>6. Typed(input')  BY <1>2, <1>5, LeftTyped
<1>7. \A k \in 1..LineLength : (IF k <= n THEN x[k] ELSE buffer[k]) \in Name
  BY <1>1, LineSizes DEF ShellTypes, Buffers, Tokens
<1> QED  BY <1>3, <1>6, <1>7 DEF Buffers

LEMMA TypedLine ==
  ASSUME TypedInput, NEW l \in Lines
  PROVE  Typed(Append(l, Newline)) /\ Append(l, Newline) # <<>>
<1>1. l \in Seq(Tokens)  BY DEF TypedInput, Tokens
<1>2. l \in Seq(Tokens \cup {Newline}) /\ Newline \in Tokens \cup {Newline}  BY <1>1
<1> DEFINE S == Tokens \cup {Newline}
<1> HIDE DEF S
<1>3. l \in Seq(S) /\ Newline \in S  BY <1>2 DEF S
<1>4. /\ Append(l, Newline) \in Seq(S) /\ Len(Append(l, Newline)) = Len(l) + 1
      /\ Append(l, Newline)[Len(l) + 1] = Newline /\ Len(l) \in Nat
  BY <1>3
<1> QED  BY <1>4 DEF Typed, S

LEMMA ReadLineTypes ==
  ASSUME TypedInput, TypeInv, ShellTypes, ReadLine
  PROVE  TypeInv' /\ ShellTypes'
<1>1. PICK x : Typed(x) /\ x # <<>> /\ inputToBuffer(x)
  <2>1. CASE \E l \in Lines : inputToBuffer(Append(l, Newline))
    BY <2>1, TypedLine
  <2>2. CASE input # <<>> /\ inputToBuffer(input)
    BY <2>2 DEF ShellTypes
  <2> QED  BY <2>1, <2>2 DEF ReadLine
<1>2. Typed(input') /\ buffer' \in Buffers  BY <1>1, InputTypes
<1>3. workingDirectory' \in Arg  BY DEF ReadLine, ShellTypes
<1>4. CASE bufferToArgs(buffer') /\ UNCHANGED vars
  <2>1. parseArguments \in ArgList  BY DEF ShellTypes
  <2> DEFINE b == buffer'
             a == parseArguments
  <2>2. parseArguments' = Scanned(b, a).args  BY <1>4 DEF bufferToArgs
  <2>3. b \in Buffers /\ a \in ArgList  BY <1>2, <2>1
  <2> HIDE DEF a, b
  <2>4. Scanned(b, a) \in ScanState  BY <2>3, ScannedTyped
  <2>5. parseArguments' \in ArgList  BY <2>2, <2>4 DEF ScanState
  <2> QED  BY <1>2, <1>3, <1>4, <2>5, StutterTypes DEF ShellTypes
<1>5. CASE Wild /\ UNCHANGED parseArguments
  <2>1. ShellTypes'  BY <1>2, <1>3, <1>5 DEF ShellTypes
  <2>2. TypeInv'
    BY <1>5 DEF Wild, Fault, TypeInv, TypeOK, storage, caches, args
  <2> QED  BY <2>1, <2>2
<1> QED  BY <1>4, <1>5 DEF ReadLine

\* Back at the prompt the calls' variables are what Init gave them.
LEMMA PromptTypes ==
  ASSUME TypeInv, ShellTypes, Prompt, disk' \in Disk, workingDirectory' \in Arg
  PROVE  TypeInv' /\ ShellTypes'
<1>1. ShellTypes'
  <2>1. buffer' \in Buffers  BY NULTyped DEF Prompt, nullCharArray, Buffers
  <2>2. parseArguments' \in ArgList  BY NoArgumentsTyped DEF Prompt, initParseArguments
  <2> QED  BY <2>1, <2>2 DEF Prompt, ShellTypes
<1>2. TypeInv'
  <2>1. StorageTypes'  BY TypeParts DEF Prompt, caches, StorageTypes
  <2>2. CallTypes'  BY Constants DEF Prompt, CallTypes
  <2>3. WorkTypes'
    <3>1. WorkTypes  BY TypeParts
    <3>2. fp' \in File /\ ret' \in 0..5 /\ dir' \in Clusters /\ out' \in Seq(Unit)
      BY Constants, SizeAssumption DEF Prompt, Clusters
    <3> QED  BY <3>1, <3>2 DEF Prompt, WorkTypes
  <2> QED  BY <2>1, <2>2, <2>3, TypePartsNext
<1> QED  BY <1>1, <1>2

LEMMA GoesTypes ==
  ASSUME ShellTypes, NEW to, Goes(to)
  PROVE  ShellTypes'
BY DEF Goes, terminal, ShellTypes

LEMMA ArgumentTyped ==
  ASSUME ShellTypes
  PROVE  \A j \in {1, 3} : Argument(j) \in Arg
                          /\ PathArgument(j) \in Path /\ PathArgument(j).names # <<>>
<1> SUFFICES ASSUME NEW j \in {1, 3} PROVE Argument(j) \in Arg
  BY PathTyped DEF PathArgument
<1>1. j + 1 \in 1..NumArgs  BY LineSizes
<1> QED  BY <1>1 DEF Argument, ShellTypes, ArgList

LEMMA GarbageUnits ==
  ASSUME TypeInv, NEW c \in Clusters, NEW g \in Garbage(c)
  PROVE  readFromCluster(disk, c, g) \in [DirSlots -> Unit]
<1>1. disk \in Disk /\ rootDir \in [Slots -> Unit]  BY TypeParts DEF StorageTypes
<1>2. c = 0 => \A s \in Window : g[s] \in Unit
  BY <1>1, Constants DEF Garbage
<1> QED  BY <1>1, <1>2, ReadUnits

\* What mkdir makes of a slot.
Become(u, n, c) ==
  [(IF u.kind = "entry" THEN u ELSE [Zero EXCEPT !.cluster = c]) EXCEPT !.name = n, !.attr = "dir"]

LEMMA BecomeIs ==
  ASSUME NEW u \in Unit, NEW n \in Name, NEW c \in Clusters
  PROVE  Become(u, n, c) \in Entry /\ Become(u, n, c).name = n
<1>1. CASE u.kind = "entry"
  <2>1. u \in Entry  BY <1>1, EntryUnit
  <2> QED  BY <1>1, <2>1 DEF Become, Entry
<1>2. CASE u.kind # "entry"
  <2>1. [Zero EXCEPT !.cluster = c] \in Entry  BY Constants DEF Entry
  <2> QED  BY <1>2, <2>1 DEF Become, Entry
<1> QED  BY <1>1, <1>2

LEMMA DottedUnits ==
  ASSUME TypedInput, NEW e \in [DirSlots -> Unit], NEW s \in DirSlots, s < DirSize,
         NEW c \in Clusters
  PROVE  /\ Dotted(e, s, c) \in [DirSlots -> Unit]
         /\ Dotted(e, s, c)[s] \in Entry /\ Dotted(e, s, c)[s].name \in DotNames
<1>1. <<".">> \in Name /\ <<".", ".">> \in Name  BY InputAssumption DEF Name
<1>2. s + 1 \in DirSlots /\ s \in DirSlots /\ s # s + 1  BY Sizes DEF DirSlots
<1> DEFINE one == Become(e[s], <<".">>, c)
           two == Become(e[s + 1], <<".", ".">>, c)
<1>3. Dotted(e, s, c) = [e EXCEPT ![s] = one, ![s + 1] = two]
  BY <1>2 DEF Dotted, Become
<1>4. one \in Entry /\ one.name = <<".">> /\ two \in Entry
  BY <1>1, <1>2, BecomeIs
<1> HIDE DEF one, two
<1>5. one \in Unit /\ two \in Unit  BY <1>4 DEF Unit
<1>6. [e EXCEPT ![s] = one, ![s + 1] = two] \in [DirSlots -> Unit]
  BY <1>2, <1>5
<1>7. [e EXCEPT ![s] = one, ![s + 1] = two][s] = one
  BY <1>2, <1>5
<1>8. <<".">> \in DotNames  BY DEF DotNames
<1> QED  BY <1>3, <1>4, <1>6, <1>7, <1>8

\* The calls the shell makes.
Calls ==
  \E p \in Path, isDir \in BOOLEAN, t \in TextArg :
    /\ p.names # <<>>
    /\ \/ fatOpenRoot(p) \/ fatOpenPath(p) \/ fatCreateRoot(p, isDir) \/ fatCreatePath(p, isDir)
       \/ fatWrite(t) \/ fatRead
       \/ \E o \in {"fatOpen", "fatCreate"} : ScanAstray(o, p, isDir)

LEMMA CallsTypes ==
  ASSUME TypeInv, Calls
  PROVE  TypeInv' /\ CacheInv'
<1>1. PICK p \in Path, isDir \in BOOLEAN, t \in TextArg :
        /\ p.names # <<>>
        /\ \/ fatOpenRoot(p) \/ fatOpenPath(p) \/ fatCreateRoot(p, isDir)
           \/ fatCreatePath(p, isDir) \/ fatWrite(t) \/ fatRead
           \/ \E o \in {"fatOpen", "fatCreate"} : ScanAstray(o, p, isDir)
  BY DEF Calls
<1>2. TypeInv'
  BY <1>1, OpenRootTypes, PathCallTypes, CreateRootTypes, FatWriteTypes, FatReadTypes,
    ScanAstrayTypes
<1>3. CacheInv'  BY <1>1, <1>2, CallCaches
<1> QED  BY <1>2, <1>3

LEMMA OpenCalls ==
  ASSUME NEW p \in Path, p.names # <<>>, fatOpen(p)
  PROVE  Calls
<1>1. FALSE \in BOOLEAN /\ NoText \in TextArg  BY Constants
<1> QED  BY <1>1 DEF fatOpen, Calls

LEMMA CreateCalls ==
  ASSUME NEW p \in Path, p.names # <<>>, NEW isDir \in BOOLEAN, fatCreate(p, isDir)
  PROVE  Calls
<1>1. NoText \in TextArg  BY Constants
<1> QED  BY <1>1 DEF fatCreate, Calls

LEMMA WriteCalls ==
  ASSUME TypedTexts, ShellTypes, NEW t \in Copies(Argument(1)), fatWrite(t)
  PROVE  Calls
<1>1. NoPath \in Path /\ FALSE \in BOOLEAN  BY Constants
<1>2. t \in TextArg
  BY ArgumentTyped, InputAssumption DEF Copies, TypedTexts, TextArg, Arg
<1>3. \E p \in Path : p.names # <<>>  BY ArgumentTyped
<1> QED  BY <1>1, <1>2, <1>3 DEF Calls

LEMMA ReadCalls ==
  ASSUME ShellTypes, fatRead
  PROVE  Calls
<1>1. FALSE \in BOOLEAN /\ NoText \in TextArg  BY Constants
<1>2. \E p \in Path : p.names # <<>>  BY ArgumentTyped
<1> QED  BY <1>1, <1>2 DEF Calls

\* mkdir writes the dot entries to the cluster of the entry it has opened.
Dots ==
  \E g \in Garbage(fp.rde.cluster), c \in Clusters, s \in DirSlots :
    LET entries == readFromCluster(disk, fp.rde.cluster, g)
    IN  /\ s < DirSize
        /\ disk' = writeDataEntries(disk, fp.rde.cluster, Dotted(entries, s, c))

LEMMA DotsDisk ==
  ASSUME TypedInput, TypeInv, Dots
  PROVE  disk' \in Disk
<1> DEFINE c0 == fp.rde.cluster
<1>1. c0 \in Clusters /\ disk \in Disk
  BY TypeParts DEF WorkTypes, StorageTypes, File, Entry
<1> HIDE DEF c0
<1>2. PICK g \in Garbage(c0), c \in Clusters, s \in DirSlots :
        /\ s < DirSize
        /\ disk' = writeDataEntries(disk, c0, Dotted(readFromCluster(disk, c0, g), s, c))
  BY DEF Dots, c0
<1>3. readFromCluster(disk, c0, g) \in [DirSlots -> Unit]  BY <1>1, GarbageUnits
<1> DEFINE e == Dotted(readFromCluster(disk, c0, g), s, c)
<1>4. e \in [DirSlots -> Unit]  BY <1>2, <1>3, DottedUnits
<1> HIDE DEF e
<1>5. disk' = Overwrite(disk, DirBase(c0), e)  BY <1>2 DEF writeDataEntries, e
<1>6. \A u \in DOMAIN e : e[u] \in Unit  BY <1>4
<1>7. DirBase(c0) \in Int  BY <1>1, ClusterOnDisk
<1> QED  BY <1>1, <1>5, <1>6, <1>7, OverwriteDisk

\* What a command does next: a call, its end, a listing or anything at all.
CommandStep ==
  \/ Calls /\ \E to : Goes(to)
  \/ Prompt /\ (UNCHANGED disk \/ (at = "dots" /\ Dots)) /\ workingDirectory' \in Arg
  \/ UNCHANGED vars /\ UNCHANGED <<terminal, workingDirectory>> /\ at' = "listed"
  \/ Wild /\ UNCHANGED shell

LEMMA CommandIs ==
  ASSUME TypedTexts, ShellTypes, Commands
  PROVE  pc = "idle" /\ CommandStep
<1> USE DEF CommandStep
<1>0. workingDirectory \in Arg /\ <<Slash>> \in Arg
  BY NoArgumentsTyped DEF ShellTypes
<1>1. CASE PrintOnly \/ Finished \/ cdRoot \/ mkdirNothing
  BY <1>0, <1>1 DEF PrintOnly, Finished, Back, cdRoot, Running, mkdirNothing
<1>2. CASE touch \/ mkdir
  <2>1. TRUE \in BOOLEAN /\ FALSE \in BOOLEAN /\ 1 \in {1, 3}  OBVIOUS
  <2> QED  BY <1>2, <2>1, ArgumentTyped, CreateCalls DEF touch, mkdir, Running
<1>3. CASE cd \/ cat \/ echo
  BY <1>3, ArgumentTyped, OpenCalls DEF cd, cat, echo, Running
<1>4. CASE cdOpened
  <2>1. Changed \in Arg  BY <1>0, ArgumentTyped DEF Changed
  <2> QED  BY <1>4, <2>1 DEF cdOpened, Back
<1>5. CASE catOpened
  BY <1>0, <1>5, ReadCalls DEF catOpened, Back
<1>6. CASE lsRoot \/ lsOpened \/ lsAstray
  BY <1>6 DEF lsRoot, lsOpened, lsAstray, Running, Back, Prints
<1>7. CASE ls
  <2>1. \E p \in Path : p.names # <<>> /\ fatOpen(p)
    BY <1>0, <1>7, ArgumentTyped, PathTyped DEF ls
  <2> QED  BY <1>7, <2>1, OpenCalls DEF ls, Running
<1>8. CASE mkdirCreated
  BY <1>0, <1>8, ArgumentTyped, OpenCalls DEF mkdirCreated, Back
<1>9. CASE mkdirOpened
  <2>1. CASE ret # 0 /\ Prompt /\ UNCHANGED <<disk, workingDirectory>>
    BY <1>0, <1>9, <2>1 DEF mkdirOpened, Back
  <2>2. CASE Wild /\ UNCHANGED shell
    BY <1>9, <2>2 DEF mkdirOpened, Back
  <2>3. CASE \E g \in Garbage(fp.rde.cluster), c \in Clusters :
               LET entries == readFromCluster(disk, fp.rde.cluster, g)
                   first == Scan({s \in DirSlots : NulSlot(entries[s])})
               IN  /\ \E s \in first : s < DirSize /\
                         disk' = writeDataEntries(disk, fp.rde.cluster, Dotted(entries, s, c))
                   /\ Prompt /\ UNCHANGED workingDirectory
    <3>1. Dots  BY <2>3 DEF Dots, Scan
    <3> QED  BY <1>0, <1>9, <2>3, <3>1 DEF mkdirOpened, Back
  <2> QED  BY <1>9, <2>1, <2>2, <2>3 DEF mkdirOpened
<1>10. CASE echoOpened
  BY <1>0, <1>10, WriteCalls DEF echoOpened, Back
<1> QED
  BY <1>1, <1>2, <1>3, <1>4, <1>5, <1>6, <1>7, <1>8, <1>9, <1>10 DEF Commands

LEMMA FatStepTypes ==
  ASSUME TypeInv, ShellTypes, FatStep
  PROVE  TypeInv' /\ ShellTypes'
<1>1. [Next]_vars  BY DEF FatStep, Next
<1>2. TypeInv'  BY <1>1, NextTypes
<1>3. ShellTypes'  BY DEF FatStep, shell, terminal, ShellTypes
<1> QED  BY <1>2, <1>3

LEMMA CommandTypes ==
  ASSUME TypedInput, TypeInv, ShellTypes, CommandStep
  PROVE  TypeInv' /\ ShellTypes'
<1>1. CASE Calls /\ \E to : Goes(to)
  BY <1>1, CallsTypes, GoesTypes
<1>2. CASE Prompt /\ (UNCHANGED disk \/ (at = "dots" /\ Dots)) /\ workingDirectory' \in Arg
  <2>1. disk \in Disk  BY TypeParts DEF StorageTypes
  <2>2. disk' \in Disk  BY <1>2, <2>1, DotsDisk
  <2> QED  BY <1>2, <2>2, PromptTypes
<1>3. CASE UNCHANGED vars /\ UNCHANGED <<terminal, workingDirectory>>
  BY <1>3, StutterTypes DEF ShellTypes, terminal
<1>4. CASE Wild /\ UNCHANGED shell
  <2>1. TypeInv'  BY <1>4 DEF Wild, Fault, TypeInv, TypeOK, storage, caches, args
  <2> QED  BY <1>4, <2>1 DEF ShellTypes, shell, terminal
<1> QED  BY <1>1, <1>2, <1>3, <1>4 DEF CommandStep

LEMMA ShellTypesNext ==
  ASSUME TypedInput, TypedTexts
  PROVE  TypeInv /\ ShellTypes /\ [ShellNext]_shellVars => TypeInv' /\ ShellTypes'
<1> SUFFICES ASSUME TypeInv, ShellTypes, [ShellNext]_shellVars PROVE TypeInv' /\ ShellTypes'
  OBVIOUS
<1>1. CASE ReadLine  BY <1>1, ReadLineTypes
<1>2. CASE Commands  BY <1>2, CommandIs, CommandTypes
<1>3. CASE FatStep  BY <1>3, FatStepTypes
<1>4. CASE UNCHANGED shellVars
  BY <1>4, StutterTypes DEF shellVars, shell, terminal, ShellTypes
<1> QED  BY <1>1, <1>2, <1>3, <1>4 DEF ShellNext

\* The shell calls module Fat with nothing but what has its types: the disk, the
\* caches and the arguments keep theirs, whatever is typed.
THEOREM ShellTypesHold ==
  ASSUME TypedInput, TypedTexts
  PROVE  ShellSpec => [](TypeInv /\ ShellTypes)
<1>1. ShellInit => TypeInv /\ ShellTypes  BY ShellTypesInit
<1>2. TypeInv /\ ShellTypes /\ [ShellNext]_shellVars => TypeInv' /\ ShellTypes'
  BY ShellTypesNext
<1> QED  BY <1>1, <1>2, PTL DEF ShellSpec

(***************************************************************************)
(* The disk under the shell                                                *)
(***************************************************************************)

Fresh == fatTable = fat /\ rootDir = LoadRoot(disk)

\* Only mkdir's own write to the disk bypasses the caches.  The readers never get
\* further than a walk or a read.
DiskInv ==
  /\ CacheInv \/ (pc = "idle" /\ at # "dots" /\ RootDotted)
  /\ (at \in {"cd", "cat", "ls"} /\ pc \notin {"idle", "fault"}) => (pc = "walk" /\ op = "fatOpen")
  /\ (at = "read" /\ pc \notin {"idle", "fault"}) => pc = "read"

LEMMA DotsRoot ==
  ASSUME TypedInput, TypeInv, Dots
  PROVE  LoadRoot(disk') = LoadRoot(disk) \/ RootDotted'
<1> DEFINE c0 == fp.rde.cluster
<1>1. c0 \in Clusters /\ disk \in Disk
  BY TypeParts DEF WorkTypes, StorageTypes, File, Entry
<1> HIDE DEF c0
<1>2. PICK g \in Garbage(c0), c \in Clusters, s \in DirSlots :
        /\ s < DirSize
        /\ disk' = writeDataEntries(disk, c0, Dotted(readFromCluster(disk, c0, g), s, c))
  BY DEF Dots, c0
<1>3. readFromCluster(disk, c0, g) \in [DirSlots -> Unit]  BY <1>1, GarbageUnits
<1> DEFINE e == Dotted(readFromCluster(disk, c0, g), s, c)
<1>4. e \in [DirSlots -> Unit] /\ e[s] \in Entry /\ e[s].name \in DotNames
  BY <1>2, <1>3, DottedUnits
<1> HIDE DEF e
<1> DEFINE base == DirBase(c0)
<1>5. disk' = [a \in Addr |-> IF a - base \in DirSlots THEN e[a - base] ELSE disk[a]]
  BY <1>2, <1>4 DEF writeDataEntries, Overwrite, e
<1>6. base \in Int /\ base + s \in Addr  BY <1>1, ClusterOnDisk
<1>7. CASE c0 \in {0, 1}
  <2>1. base \in {-RootSize, -DirSize} /\ DirSize <= RootSize /\ RootSize \in Nat /\ DirSize \in Nat
    BY <1>7, Sizes, SizeAssumption DEF DirBase, ClusterBase
  <2> HIDE DEF base
  <2> DEFINE r == (base + s) + RootSize
  <2>2. r \in Slots /\ r - RootSize = base + s /\ (base + s) - base = s
    BY <1>6, <2>1 DEF Slots, DirSlots
  <2>3. disk'[r - RootSize] = e[s]  BY <1>5, <1>6, <2>2
  <2>4. e[s].kind = "entry"  BY <1>4 DEF Entry
  <2> QED  BY <1>4, <2>2, <2>3, <2>4 DEF RootDotted
<1>8. CASE c0 \notin {0, 1}
  <2>1. base \in Nat
    <3>1. c0 - 2 \in Nat /\ DirSize \in Nat  BY <1>1, <1>8, Sizes DEF Clusters
    <3>2. base = (c0 - 2) * DirSize  BY <1>8 DEF DirBase, ClusterBase
    <3> DEFINE m == c0 - 2
    <3> HIDE DEF m, base
    <3>3. m \in Nat /\ base = m * DirSize  BY <3>1, <3>2 DEF m
    <3> QED  BY <3>1, <3>3
  <2> HIDE DEF base
  <2>2. ASSUME NEW r \in Slots PROVE disk'[r - RootSize] = disk[r - RootSize]
    <3>1. r - RootSize \in Addr /\ ~((r - RootSize) - base \in DirSlots)
      BY <2>1, Sizes DEF Slots, Addr, DirSlots
    <3> QED  BY <1>5, <3>1
  <2> QED  BY <2>2 DEF LoadRoot
<1> QED  BY <1>7, <1>8

\* fatOpen writes back what it has just read, and fatRead writes nothing.
LEMMA OpenKeeps ==
  ASSUME TypeInv, NEW p, fatOpen(p)
  PROVE  /\ storage' = storage /\ op' = "fatOpen"
         /\ pc' \in {"idle", "walk", "fault"}
<1>1. disk \in Disk  BY TypeParts DEF StorageTypes
<1>2. op' = "fatOpen"  BY ScanStops DEF fatOpen, fatOpenRoot, fatOpenPath, Begin
<1>3. CASE fatOpenPath(p)
  BY <1>2, <1>3 DEF fatOpenPath, StartWalk, Fail, Return, storage
<1>4. CASE fatOpenRoot(p)
  <2>1. CASE Fail(1)  BY <1>2, <2>1 DEF Fail, Return, storage
  <2>2. CASE initFatStructs /\ writeFatTable /\ writeRootDirectory(disk) /\ Return(0)
    <3>1. fat' = fat /\ disk' = PutRoot(disk, LoadRoot(disk))
      BY <2>2 DEF initFatStructs, writeFatTable, writeRootDirectory
    <3> QED  BY <1>1, <1>2, <2>2, <3>1, PutBackRoot DEF storage, Return
  <2> QED  BY <1>4, <2>1, <2>2 DEF fatOpenRoot
<1>5. CASE ScanAstray("fatOpen", p, FALSE)
  BY <1>2, <1>5, ScanStops DEF Fault
<1> QED  BY <1>3, <1>4, <1>5 DEF fatOpen

LEMMA ReadKeeps ==
  ASSUME fatRead \/ ReadSingle \/ ReadLinked
  PROVE  storage' = storage /\ pc' \in {"idle", "read"}
BY DEF fatRead, ReadSingle, ReadLinked, Return, storage

LEMMA OpenStepKeeps ==
  ASSUME TypeInv, Fresh, fatOpenStep
  PROVE  storage' = storage /\ pc' \in {"idle", "walk"} /\ op' = op
<1>1. disk \in Disk  BY TypeParts DEF StorageTypes
<1>2. op' = op  BY DEF fatOpenStep, args
<1>3. CASE \E r : Fail(r)  BY <1>2, <1>3 DEF Fail, Return, storage
<1>4. CASE \E c : Descend(c)  BY <1>2, <1>4 DEF Descend, storage
<1>5. CASE UNCHANGED caches /\ writeFatTable /\ writeRootDirectory(disk) /\ Return(0)
  <2>1. fat' = fat /\ disk' = PutRoot(disk, LoadRoot(disk))
    BY <1>5 DEF caches, Fresh, writeFatTable, writeRootDirectory
  <2> QED  BY <1>1, <1>2, <1>5, <2>1, PutBackRoot DEF storage, Return
<1> QED  BY <1>3, <1>4, <1>5 DEF fatOpenStep

\* What the commands that read do.
LEMMA ReaderCommands ==
  ASSUME Commands, at \in Reading \/ at' \in Reading
  PROVE  \/ at' \in {"cd", "cat", "ls"} /\ \E p : fatOpen(p)
         \/ at' = "read" /\ fatRead
         \/ at' \in {"prompt", "listed"} /\ storage' = storage /\ pc' = pc
         \/ storage' = storage /\ pc' = "fault"
<1>1. CASE PrintOnly \/ touch \/ cdRoot \/ lsRoot \/ mkdirNothing \/ mkdir \/ echo
  BY <1>1 DEF PrintOnly, touch, cdRoot, lsRoot, mkdirNothing, mkdir, echo, Running, Reading,
     Prompt, Goes, Prints
<1>2. CASE Finished \/ cdOpened
  BY <1>2 DEF Finished, cdOpened, Prompt, storage
<1>3. CASE cd \/ cat \/ ls
  BY <1>3 DEF cd, cat, ls, Goes
<1>4. CASE catOpened
  BY <1>4 DEF catOpened, Prompt, Goes, storage
<1>5. CASE lsOpened
  BY <1>5 DEF lsOpened, Prints, vars, storage
<1>9. CASE lsAstray
  BY <1>9 DEF lsAstray, Wild, Fault
<1>6. CASE mkdirCreated
  BY <1>6 DEF mkdirCreated, Back, Prompt, Goes, Reading
<1>7. CASE mkdirOpened
  BY <1>7 DEF mkdirOpened, Back, Prompt, Wild, shell, Reading
<1>8. CASE echoOpened
  BY <1>8 DEF echoOpened, Back, Prompt, Goes, Reading
<1> QED
  BY <1>1, <1>2, <1>3, <1>4, <1>5, <1>6, <1>7, <1>8, <1>9 DEF Commands

\* The steps of a call while a reader runs.
LEMMA ReaderSteps ==
  ASSUME TypeInv, DiskInv, FatStep, at \in Reading
  PROVE  /\ storage' = storage
         /\ at # "read" => pc' \in {"idle", "walk", "fault"} /\ op' = "fatOpen"
         /\ at = "read" => pc' \in {"idle", "read", "fault"}
<1>1. Step /\ at' = at  BY DEF FatStep, shell
<1>2. pc \notin {"idle", "fault"}  BY <1>1, StepsGoOn
<1>5. CASE Stray
  <2>1. storage' = storage /\ pc' = "fault" /\ op' = op
    BY <1>5, StrayStops DEF Fault, args
  <2>2. at # "read" => op = "fatOpen"  BY <1>2 DEF DiskInv, Reading
  <2> QED  BY <2>1, <2>2
<1>3. CASE at # "read" /\ ~Stray
  <2>1. pc = "walk" /\ op = "fatOpen"  BY <1>2, <1>3 DEF DiskInv, Reading
  <2>2. fatOpenStep
    BY <1>1, <1>3, <2>1 DEF Step, Stray, fatCreateStep, FreeCluster, WriteSingle, WriteLinked, WriteLast,
       WriteWild, ReadSingle, ReadLinked
  <2>3. Fresh  BY <1>2, <2>1 DEF DiskInv, CacheInv, Fresh
  <2> QED  BY <1>3, <2>1, <2>2, <2>3, OpenStepKeeps
<1>4. CASE at = "read" /\ ~Stray
  <2>1. pc = "read"  BY <1>2, <1>4 DEF DiskInv
  <2>2. ReadSingle \/ ReadLinked
    BY <1>1, <1>4, <2>1 DEF Step, Stray, fatOpenStep, fatCreateStep, FreeCluster, WriteSingle,
       WriteLinked, WriteLast, WriteWild
  <2> QED  BY <1>4, <2>2, ReadKeeps
<1> QED  BY <1>3, <1>4, <1>5

LEMMA LineKeeps ==
  ASSUME ReadLine
  PROVE  /\ at \notin Reading /\ at' \in {"first", "run"} /\ storage' = storage
         /\ UNCHANGED caches /\ pc = "idle" /\ pc' \in {"idle", "fault"}
BY DEF ReadLine, Reading, vars, Wild, Fault, storage, caches

LEMMA DottedStays ==
  ASSUME RootDotted, disk' = disk
  PROVE  RootDotted'
BY DEF RootDotted

LEMMA CacheStays ==
  ASSUME CacheInv, storage' = storage, UNCHANGED caches, pc' \in {"fault", pc}
  PROVE  CacheInv'
BY DEF CacheInv, storage, caches, LoadRoot

LEMMA CommandCaches ==
  ASSUME TypedInput, TypeInv, DiskInv, pc = "idle", CommandStep
  PROVE  CacheInv' \/ (pc' = "idle" /\ at' # "dots" /\ RootDotted')
<1>1. CASE Calls  BY <1>1, CallsTypes
<1>2. CASE Prompt /\ UNCHANGED disk
  <2>1. storage' = storage /\ UNCHANGED caches /\ pc' = pc /\ at' = "prompt"
    BY <1>2 DEF Prompt, storage
  <2> QED  BY <1>2, <2>1, CacheStays, DottedStays DEF DiskInv
<1>3. CASE Prompt /\ at = "dots" /\ Dots
  <2>1. fat' = fat /\ UNCHANGED caches /\ pc' = "idle" /\ at' = "prompt"
    BY <1>3 DEF Prompt
  <2>2. Fresh  BY <1>3 DEF DiskInv, CacheInv, Fresh
  <2>3. CASE LoadRoot(disk') = LoadRoot(disk)
    BY <2>1, <2>2, <2>3 DEF Fresh, CacheInv, caches
  <2> QED  BY <1>3, <2>1, <2>3, DotsRoot
<1>4. CASE UNCHANGED vars /\ at' = "listed"
  <2>1. storage' = storage /\ UNCHANGED caches /\ pc' = pc /\ disk' = disk
    BY <1>4 DEF vars, storage, caches
  <2> QED  BY <1>4, <2>1, CacheStays, DottedStays DEF DiskInv
<1>5. CASE Wild  BY <1>5 DEF Wild, Fault, CacheInv
<1> QED  BY <1>1, <1>2, <1>3, <1>4, <1>5 DEF CommandStep

LEMMA DiskStep ==
  ASSUME TypedInput, TypedTexts
  PROVE  TypeInv /\ TypeInv' /\ ShellTypes /\ DiskInv /\ [ShellNext]_shellVars
           => DiskInv' /\ ({at, at'} \cap Reading # {} => storage' = storage)
<1> SUFFICES ASSUME TypeInv, TypeInv', ShellTypes, DiskInv, [ShellNext]_shellVars
             PROVE  DiskInv' /\ ((at \in Reading \/ at' \in Reading) => storage' = storage)
  OBVIOUS
<1>1. CASE ReadLine
  <2>1. /\ at \notin Reading /\ at' \in {"first", "run"} /\ storage' = storage
        /\ UNCHANGED caches /\ pc = "idle" /\ pc' \in {"idle", "fault"}
    BY <1>1, LineKeeps
  <2>2. CacheInv' \/ (pc' = "idle" /\ at' # "dots" /\ RootDotted')
    <3>1. CASE CacheInv  BY <2>1, <3>1, CacheStays
    <3>2. CASE RootDotted /\ pc' = "idle"  BY <2>1, <3>2, DottedStays DEF storage
    <3>3. CASE pc' = "fault"  BY <3>3 DEF CacheInv
    <3> QED  BY <2>1, <3>1, <3>2, <3>3 DEF DiskInv
  <2> QED  BY <2>1, <2>2 DEF DiskInv
<1>2. CASE Commands
  <2>1. pc = "idle" /\ CommandStep  BY <1>2, CommandIs
  <2>2. CacheInv' \/ (pc' = "idle" /\ at' # "dots" /\ RootDotted')
    BY <2>1, CommandCaches
  <2>3. CASE at \notin Reading /\ at' \notin Reading
    BY <2>2, <2>3 DEF DiskInv, Reading
  <2>4. CASE at' \in {"cd", "cat", "ls"} /\ \E p : fatOpen(p)
    BY <2>2, <2>4, OpenKeeps DEF DiskInv
  <2>5. CASE at' = "read" /\ fatRead
    BY <2>2, <2>5, ReadKeeps DEF DiskInv
  <2>6. CASE at' \in {"prompt", "listed"} /\ storage' = storage
    BY <2>2, <2>6 DEF DiskInv
  <2>8. CASE storage' = storage /\ pc' = "fault"
    BY <2>2, <2>8 DEF DiskInv
  <2>7. (at \in Reading \/ at' \in Reading) =>
          \/ at' \in {"cd", "cat", "ls"} /\ \E p : fatOpen(p)
          \/ at' = "read" /\ fatRead
          \/ at' \in {"prompt", "listed"} /\ storage' = storage
          \/ storage' = storage /\ pc' = "fault"
    BY <1>2, ReaderCommands
  <2> QED  BY <2>3, <2>4, <2>5, <2>6, <2>7, <2>8
<1>3. CASE FatStep
  <2>1. Step /\ at' = at  BY <1>3 DEF FatStep, shell
  <2>2. pc # "idle"  BY <2>1, StepsGoOn
  <2>3. CacheInv'  BY <2>1, <2>2, StepCaches DEF DiskInv
  <2>4. CASE at \in Reading
    <3>1. /\ storage' = storage
          /\ at # "read" => pc' \in {"idle", "walk", "fault"} /\ op' = "fatOpen"
          /\ at = "read" => pc' \in {"idle", "read", "fault"}
      BY <1>3, <2>4, ReaderSteps
    <3> QED  BY <2>1, <2>3, <2>4, <3>1 DEF DiskInv
  <2>5. CASE at \notin Reading
    BY <2>1, <2>3, <2>5 DEF DiskInv, Reading
  <2> QED  BY <2>4, <2>5
<1>4. CASE UNCHANGED shellVars
  <2>1. UNCHANGED <<at, pc, op>> /\ storage' = storage /\ UNCHANGED caches /\ disk' = disk
    BY <1>4 DEF shellVars, shell, vars, storage, caches
  <2> QED  BY <2>1, CacheStays, DottedStays DEF DiskInv
<1> QED  BY <1>1, <1>2, <1>3, <1>4 DEF ShellNext

LEMMA DiskInit == ShellInit => DiskInv
BY DEF ShellInit, Init, DiskInv, CacheInv

\* cd, cat and ls leave the disk as it is: the FAT and the root directory that every
\* successful fatOpen writes back are those it has just read.
THEOREM ReadersWriteNothing ==
  ASSUME TypedInput, TypedTexts
  PROVE  ShellSpec => ReadersLeaveDisk
<1> DEFINE Keeps == {at, at'} \cap Reading # {} => storage' = storage
           Inv == TypeInv /\ ShellTypes /\ DiskInv
<1>1. ShellInit => Inv  BY ShellTypesInit, DiskInit
<1>2. Inv /\ [ShellNext]_shellVars => Inv' /\ [Keeps]_shellVars
  BY ShellTypesNext, DiskStep
<1> HIDE DEF Inv
<1> QED  BY <1>1, <1>2, PTL DEF ShellSpec, ReadersLeaveDisk

\* The command ls is no other command.
LEMMA OnlyLs ==
  ASSUME Ls \in Command
  PROVE  Command = {Ls}
<1>1. SameName(Ls, Chars(parseArguments[1]))  BY DEF Command
<1>2. \A c \in commandList \ {Ls} : Rest(c) # Rest(Ls)
  <2>1. Rest(Ls) = <<"s">> /\ Rest(Cd) = <<"d">>  BY DEF Ls, Cd, Rest
  <2>2. Rest(Pwd) = <<"w", "d">> /\ Rest(Cat) = <<"a", "t">>  BY DEF Pwd, Cat, Rest
  <2>3. Rest(Help) = <<"e", "l", "p">> /\ Rest(Echo) = <<"c", "h", "o">>
    BY DEF Help, Echo, Rest
  <2>4. Rest(Touch) = <<"o", "u", "c", "h">> /\ Rest(Mkdir) = <<"k", "d", "i", "r">>
    BY DEF Touch, Mkdir, Rest
  <2>5. \A c \in {Touch, Cd, Pwd, Cat, Mkdir, Help, Echo} : Rest(c) # Rest(Ls)
    BY <2>1, <2>2, <2>3, <2>4
  <2> QED  BY <2>5 DEF commandList
<1>3. \A c \in Command : Rest(c) = Rest(Ls)  BY <1>1 DEF Command, SameName
<1>4. Command \subseteq commandList  BY DEF Command
<1> QED  BY <1>2, <1>3, <1>4

\* ls without a path lists the root directory that is on the disk, unless mkdir has
\* written over it.
THEOREM LsShowsRoot ==
  ASSUME TypedInput, TypedTexts
  PROVE  ShellSpec => LsShowsTheDisk
<1> DEFINE Lists == Running(Ls) /\ atRoot /\ at' = "listed" /\ ~RootDotted =>
                      listing' = Shown({disk[s - RootSize] : s \in Slots})
           Inv == TypeInv /\ ShellTypes /\ DiskInv
<1>1. ShellInit => Inv  BY ShellTypesInit, DiskInit
<1>2. Inv /\ [ShellNext]_shellVars => Inv'
  BY ShellTypesNext, DiskStep
<1>3. Inv /\ [ShellNext]_shellVars => [Lists]_shellVars
  <2> SUFFICES ASSUME Inv, ShellNext, Running(Ls), atRoot, at' = "listed", ~RootDotted
               PROVE  listing' = Shown({disk[s - RootSize] : s \in Slots})
    OBVIOUS
  <2>1. pc = "idle" /\ at \in {"first", "run"} /\ Command = {Ls}
    BY OnlyLs DEF Running
  <2>2. ~FatStep  BY <2>1, StepsGoOn DEF FatStep
  <2>3. ~ReadLine  BY <2>1 DEF ReadLine
  <2>4. Ls \notin {Touch, Cd, Cat, Mkdir, Echo, Pwd, Help}
    BY DEF Touch, Ls, Cd, Pwd, Cat, Mkdir, Help, Echo
  <2>5. lsRoot
    <3>1. ~(PrintOnly \/ touch \/ cdRoot \/ cd \/ cat \/ mkdirNothing \/ mkdir \/ echo)
      BY <2>1, <2>4 DEF PrintOnly, touch, cdRoot, cd, cat, mkdirNothing, mkdir, echo, Running
    <3>2. ~(Finished \/ cdOpened \/ catOpened \/ lsOpened \/ mkdirCreated \/ mkdirOpened
            \/ echoOpened)
      BY <2>1 DEF Finished, cdOpened, catOpened, lsOpened, mkdirCreated, mkdirOpened,
         echoOpened, Back
    <3>3. ~ls /\ ~lsAstray  BY <2>1 DEF ls, lsAstray, shell
    <3> QED  BY <2>2, <2>3, <3>1, <3>2, <3>3 DEF ShellNext, Commands
  <2>6. rootDir = LoadRoot(disk)  BY <2>1 DEF DiskInv, CacheInv
  <2>7. {rootDir[s] : s \in Slots} = {disk[s - RootSize] : s \in Slots}
    BY <2>6 DEF LoadRoot
  <2> QED  BY <2>5, <2>7 DEF lsRoot, Prints
<1> HIDE DEF Inv
<1> QED  BY <1>1, <1>2, <1>3, PTL DEF ShellSpec, LsShowsTheDisk

(***************************************************************************)
(* The arguments                                                           *)
(***************************************************************************)

\* One cell on, a set of cells of the line has grown by that cell or not at all.
LEMMA UptoNext ==
  ASSUME NEW n \in Nat, NEW S, S \subseteq 1..n, NEW k \in 1..n
  PROVE  /\ Upto(S, k) = IF k \in S THEN Upto(S, k - 1) \cup {k} ELSE Upto(S, k - 1)
         /\ Cardinality(Upto(S, k)) =
              Cardinality(Upto(S, k - 1)) + (IF k \in S THEN 1 ELSE 0)
         /\ Cardinality(Upto(S, k - 1)) \in Nat
<1> DEFINE T == Upto(S, k - 1)
<1>1. Upto(S, k) = IF k \in S THEN T \cup {k} ELSE T
  <2>1. ASSUME NEW m \in S PROVE (m <= k) <=> (m = k \/ m <= k - 1)
    <3>1. m \in 1..n  OBVIOUS
    <3> QED  BY <3>1
  <2>2. \A m \in S : (m <= k) <=> (m = k \/ m <= k - 1)  BY <2>1
  <2>3. k <= k /\ ~(k <= k - 1)  OBVIOUS
  <2> QED  BY <2>2, <2>3 DEF Upto
<1>2. T \subseteq 1..n /\ k \notin T
  <2>1. ~(k <= k - 1)  OBVIOUS
  <2> QED  BY <2>1 DEF Upto
<1> HIDE DEF T
<1>3. IsFiniteSet(1..n)  BY FS_Interval, SMT
<1>4. IsFiniteSet(T) /\ Cardinality(T) \in Nat
  BY <1>2, <1>3, FS_Subset, FS_CardinalityType
<1>5. Cardinality(T \cup {k}) = Cardinality(T) + 1
  BY <1>2, <1>4, FS_AddElement
<1> QED  BY <1>1, <1>4, <1>5 DEF T

LEMMA UptoNone ==
  ASSUME NEW n \in Nat, NEW S, S \subseteq 1..n
  PROVE  Upto(S, 0) = {} /\ Cardinality(Upto(S, 0)) = 0
<1>1. \A m \in 1..n : ~(m <= 0)  OBVIOUS
<1>2. Upto(S, 0) = {}  BY <1>1 DEF Upto
<1> QED  BY <1>2, FS_EmptySet

LEMMA UptoAll ==
  ASSUME NEW n \in Nat, NEW S, S \subseteq 1..n
  PROVE  Upto(S, n) = S
<1>1. \A m \in 1..n : m <= n  OBVIOUS
<1> QED  BY <1>1 DEF Upto

LEMMA UptoCount ==
  ASSUME NEW n \in Nat, NEW S, S \subseteq 1..n, NEW k \in 0..n
  PROVE  Cardinality(Upto(S, k)) \in Nat
<1>1. Upto(S, k) \subseteq 1..n  BY DEF Upto
<1>2. IsFiniteSet(1..n)  BY FS_Interval, SMT
<1> QED  BY <1>1, <1>2, FS_Subset, FS_CardinalityType

\* Fewer cells lie up to an earlier one.
LEMMA UptoLess ==
  ASSUME NEW n \in Nat, NEW S, S \subseteq 1..n, NEW j \in 0..n, NEW k \in 0..n, j <= k
  PROVE  Cardinality(Upto(S, j)) <= Cardinality(Upto(S, k))
<1>1. Upto(S, j) \subseteq Upto(S, k) /\ Upto(S, k) \subseteq 1..n
  <2>1. \A m \in 1..n : m <= j => m <= k  OBVIOUS
  <2> QED  BY <2>1 DEF Upto
<1>2. IsFiniteSet(1..n)  BY FS_Interval, SMT
<1>3. IsFiniteSet(Upto(S, k))  BY <1>1, <1>2, FS_Subset
<1> QED  BY <1>1, <1>3, FS_Subset

\* The rank of a cell of S is at least 1 and does not change with later cells.
LEMMA RankIs ==
  ASSUME NEW n \in Nat, NEW S, S \subseteq 1..n, NEW k \in 1..n, NEW m \in Upto(S, k - 1)
  PROVE  /\ Upto(Upto(S, k), m) = Upto(S, m) /\ Upto(Upto(S, k - 1), m) = Upto(S, m)
         /\ Cardinality(Upto(S, m)) \in 1..Cardinality(Upto(S, k - 1))
<1>1. m \in 1..n /\ m \in S /\ m <= k - 1  BY DEF Upto
<1>2. Upto(Upto(S, k), m) = Upto(S, m) /\ Upto(Upto(S, k - 1), m) = Upto(S, m)
  <2>1. \A x \in 1..n : x <= m => x <= k /\ x <= k - 1  BY <1>1
  <2> QED  BY <2>1 DEF Upto
<1>3. Cardinality(Upto(S, m)) <= Cardinality(Upto(S, k - 1))
  <2>1. m \in 0..n /\ k - 1 \in 0..n  BY <1>1
  <2> QED  BY <1>1, <2>1, UptoLess
<1>4. Cardinality(Upto(S, m)) = Cardinality(Upto(S, m - 1)) + 1
      /\ Cardinality(Upto(S, m - 1)) \in Nat
  BY <1>1, UptoNext
<1>5. Cardinality(Upto(S, k - 1)) \in Nat  BY UptoNext
<1> HIDE DEF Upto
<1> QED  BY <1>2, <1>3, <1>4, <1>5

\* A word grows by one character.
LEMMA SpellsNext ==
  ASSUME NEW l, NEW n \in Nat, NEW S, S \subseteq 1..n, NEW k \in 1..n, NEW w \in Arg,
         Spells(w, l, Upto(S, k - 1)), l[k] \in Name
  PROVE  Spells(IF k \in S THEN Append(w, l[k]) ELSE w, l, Upto(S, k))
<1> DEFINE T == Upto(S, k - 1)
           r(m) == Cardinality(Upto(S, m))
<1>1. /\ Upto(S, k) = IF k \in S THEN T \cup {k} ELSE T
      /\ r(k) = r(k - 1) + (IF k \in S THEN 1 ELSE 0)
      /\ r(k - 1) \in Nat
  BY UptoNext
<1>2. CASE k \notin S
  BY <1>1, <1>2
<1>3. CASE k \in S
  <2>1. ASSUME NEW m \in T
        PROVE  /\ Upto(Upto(S, k), m) = Upto(S, m) /\ Upto(T, m) = Upto(S, m)
               /\ r(m) \in 1..r(k - 1)
    BY RankIs
  <2>2. Len(w) = r(k - 1) /\ \A m \in T : w[Cardinality(Upto(T, m))] = l[m]
    BY DEF Spells
  <2>3. \A m \in T : w[r(m)] = l[m] /\ r(m) \in 1..Len(w)
    BY <2>1, <2>2
  <2>4. Upto(Upto(S, k), k) = Upto(S, k)  BY DEF Upto
  <2>5. Upto(S, k) = T \cup {k} /\ r(k) = Len(w) + 1  BY <1>1, <1>3, <2>2
  <2> DEFINE v == Append(w, l[k])
  <2> HIDE DEF T, r
  <2>6. w \in Seq(Name)  BY DEF Arg
  <2>7. /\ Len(v) = Len(w) + 1 /\ v[Len(w) + 1] = l[k]
        /\ \A x \in 1..Len(w) : v[x] = w[x]
    BY <2>6
  <2> HIDE DEF v
  <2>8. \A m \in T : v[r(m)] = l[m]  BY <2>3, <2>7
  <2>9. \A m \in T \cup {k} : v[Cardinality(Upto(Upto(S, k), m))] = l[m]
    <3>1. ASSUME NEW m \in T PROVE v[Cardinality(Upto(Upto(S, k), m))] = l[m]
      BY <2>1, <2>8 DEF r
    <3>2. v[Cardinality(Upto(Upto(S, k), k))] = l[k]
      BY <2>4, <2>5, <2>7 DEF r
    <3> QED  BY <3>1, <3>2
  <2>10. Len(v) = Cardinality(Upto(S, k))  BY <2>5, <2>7 DEF r
  <2>11. Spells(v, l, Upto(S, k))
    BY <2>5, <2>9, <2>10 DEF Spells
  <2> QED  BY <1>3, <2>11 DEF v
<1> QED  BY <1>2, <1>3

\* What the state of bufferToArgs says of the first k characters of l.
Count(S, k) == Cardinality(Upto(S, k))
Parsed(s, l, k) ==
  ~s.wild =>
    /\ s.quotes <=> (Count(Quotes(l), k) % 2 = 1)
    /\ s.count = 1 + Count(Cuts(l), k)
    /\ s.index = 1 + Count(WordCells(l, s.count), k)
    /\ \A j \in 1..NumArgs : Spells(s.args[j], l, Upto(WordCells(l, j), k))

LEMMA CellsOfLine ==
  ASSUME NEW l \in Seq(Tokens)
  PROVE  /\ Len(l) \in Nat /\ Quotes(l) \subseteq 1..Len(l) /\ Cuts(l) \subseteq 1..Len(l)
         /\ \A j : WordCells(l, j) \subseteq 1..Len(l)
BY DEF Quotes, Cuts, WordCells

LEMMA ParsedStart ==
  ASSUME NEW l \in Seq(Tokens)
  PROVE  Parsed(Started(NoArguments), l, 0)
<1>1. \A S \in SUBSET (1..Len(l)) : Upto(S, 0) = {} /\ Count(S, 0) = 0
  BY CellsOfLine, UptoNone DEF Count
<1>2. \A j : WordCells(l, j) \in SUBSET (1..Len(l))  BY CellsOfLine
<1>3. Quotes(l) \in SUBSET (1..Len(l)) /\ Cuts(l) \in SUBSET (1..Len(l))  BY CellsOfLine
<1>4. \A j \in 1..NumArgs : Spells(NoArguments[j], l, {})
  <2>1. Cardinality({}) = 0  BY FS_EmptySet
  <2> QED  BY <2>1 DEF Spells, NoArguments
<1>5. ~(0 % 2 = 1)  OBVIOUS
<1>6. Count(Quotes(l), 0) = 0 /\ Count(Cuts(l), 0) = 0
      /\ \A j : Count(WordCells(l, j), 0) = 0 /\ Upto(WordCells(l, j), 0) = {}
  BY <1>1, <1>2, <1>3
<1> DEFINE s == Started(NoArguments)
<1>7. s.quotes = FALSE /\ s.count = 1 /\ s.index = 1 /\ s.args = NoArguments
  BY DEF Started
<1> HIDE DEF s
<1>8. \A j \in 1..NumArgs : Spells(s.args[j], l, Upto(WordCells(l, j), 0))
  BY <1>4, <1>6, <1>7
<1>9. s.index = 1 + Count(WordCells(l, s.count), 0) /\ s.count = 1 + Count(Cuts(l), 0)
  BY <1>6, <1>7
<1>10. s.quotes <=> (Count(Quotes(l), 0) % 2 = 1)  BY <1>5, <1>6, <1>7
<1> QED  BY <1>8, <1>9, <1>10 DEF Parsed, s

LEMMA ParsedNext ==
  ASSUME NEW l \in Seq(Tokens), NEW k \in 1..Len(l), NEW s \in ScanState, Parsed(s, l, k - 1)
  PROVE  Parsed(Consumed(s, l[k]), l, k)
<1> DEFINE t == l[k]
           u == Consumed(s, t)
<1> SUFFICES ASSUME ~u.wild
             PROVE  /\ u.quotes <=> (Count(Quotes(l), k) % 2 = 1)
                    /\ u.count = 1 + Count(Cuts(l), k)
                    /\ u.index = 1 + Count(WordCells(l, u.count), k)
                    /\ \A j \in 1..NumArgs :
                         Spells(u.args[j], l, Upto(WordCells(l, j), k))
  BY DEF Parsed
<1>0. /\ s.args \in ArgList /\ s.count \in Nat \ {0} /\ s.index \in Nat \ {0}
      /\ s.quotes \in BOOLEAN /\ s.wild \in BOOLEAN
  BY DEF ScanState
<1>1. /\ Len(l) \in Nat /\ Quotes(l) \subseteq 1..Len(l) /\ Cuts(l) \subseteq 1..Len(l)
      /\ \A j : WordCells(l, j) \subseteq 1..Len(l)
  BY CellsOfLine
<1>2. ~s.wild
  BY ConsumedIs DEF State
<1>3. /\ s.quotes <=> (Count(Quotes(l), k - 1) % 2 = 1)
      /\ s.count = 1 + Count(Cuts(l), k - 1)
      /\ s.index = 1 + Count(WordCells(l, s.count), k - 1)
      /\ \A j \in 1..NumArgs : Spells(s.args[j], l, Upto(WordCells(l, j), k - 1))
  BY <1>2 DEF Parsed
<1>4. ASSUME NEW S, S \subseteq 1..Len(l)
      PROVE  /\ Upto(S, k) = IF k \in S THEN Upto(S, k - 1) \cup {k} ELSE Upto(S, k - 1)
             /\ Count(S, k) = Count(S, k - 1) + (IF k \in S THEN 1 ELSE 0)
             /\ Count(S, k - 1) \in Nat
  BY <1>1, <1>4, UptoNext DEF Count
<1>5. k \in Cuts(l) <=> (t = Blank /\ ~s.quotes)
  <2>1. Quoted(l, k) <=> s.quotes  BY <1>3 DEF Quoted, Count
  <2> QED  BY <2>1 DEF Cuts
<1>6. k \in Quotes(l) <=> t = Quote  BY DEF Quotes
<1>7. \A j \in Nat : k \in WordCells(l, j) <=> (k \notin Cuts(l) /\ t # Quote /\ j = s.count)
  <2> SUFFICES ASSUME NEW j \in Nat
               PROVE  k \in WordCells(l, j) <=> (k \notin Cuts(l) /\ t # Quote /\ j = s.count)
    OBVIOUS
  <2>1. Count(Cuts(l), k) = Count(Cuts(l), k - 1) + (IF k \in Cuts(l) THEN 1 ELSE 0)
        /\ Count(Cuts(l), k - 1) \in Nat
    BY <1>1, <1>4
  <2>2. k \in WordCells(l, j) <=> (k \notin Cuts(l) /\ t # Quote /\ Count(Cuts(l), k) = j - 1)
    BY DEF WordCells, Count
  <2> HIDE DEF t
  <2> QED  BY <1>3, <2>1, <2>2
<1>8. t \in Name  BY DEF Tokens
<1> HIDE DEF t
<1>9. CASE t = Blank /\ ~s.quotes
  <2>1. u = State(s.args, s.count + 1, 1, s.quotes, s.wild)  BY <1>9, ConsumedIs
  <2>2. u.quotes = s.quotes /\ u.count = s.count + 1 /\ u.index = 1 /\ u.args = s.args
    BY <2>1 DEF State
  <2>3. t # Quote /\ k \in Cuts(l)  BY <1>5, <1>9, Separators
  <2>4. \A j \in Nat : k \notin WordCells(l, j)  BY <1>7, <2>3
  <2> HIDE DEF u
  <2>5. /\ Count(Quotes(l), k) = Count(Quotes(l), k - 1)
        /\ Count(Cuts(l), k) = Count(Cuts(l), k - 1) + 1
        /\ Count(Cuts(l), k - 1) \in Nat /\ Count(Quotes(l), k - 1) \in Nat
    BY <1>1, <1>4, <1>6, <2>3
  <2>6. Upto(WordCells(l, s.count + 1), k) = {}
    <3> SUFFICES ASSUME NEW m \in Upto(WordCells(l, s.count + 1), k) PROVE FALSE
      OBVIOUS
    <3>1. m \in WordCells(l, s.count + 1) /\ m <= k  BY DEF Upto
    <3>2. m \in 1..Len(l) /\ m # k /\ s.count + 1 \in Nat  BY <1>0, <1>1, <2>4, <3>1
    <3>3. m \in 0..Len(l) /\ k - 1 \in 0..Len(l) /\ m <= k - 1  BY <3>1, <3>2
    <3>4. Count(Cuts(l), m) <= Count(Cuts(l), k - 1)  BY <1>1, <3>3, UptoLess DEF Count
    <3>5. Count(Cuts(l), m) = (s.count + 1) - 1  BY <3>1 DEF WordCells, Count
    <3> QED  BY <1>0, <1>3, <2>5, <3>4, <3>5
  <2>7. Count(WordCells(l, s.count + 1), k) = 0  BY <2>6, FS_EmptySet DEF Count
  <2>8. \A j \in 1..NumArgs : Upto(WordCells(l, j), k) = Upto(WordCells(l, j), k - 1)
    BY <1>1, <1>4, <2>4, LineSizes
  <2>9. u.quotes <=> (Count(Quotes(l), k) % 2 = 1)  BY <1>3, <2>2, <2>5
  <2>10. u.count = 1 + Count(Cuts(l), k)  BY <1>3, <2>2, <2>5
  <2>11. u.index = 1 + Count(WordCells(l, u.count), k)  BY <2>2, <2>7
  <2> QED  BY <1>3, <2>2, <2>8, <2>9, <2>10, <2>11
<1>10. CASE ~(t = Blank /\ ~s.quotes) /\ t = Quote
  <2>1. u = State(s.args, s.count, s.index, ~s.quotes, s.wild)  BY <1>10, ConsumedIs
  <2>2. u.quotes = ~s.quotes /\ u.count = s.count /\ u.index = s.index /\ u.args = s.args
    BY <2>1 DEF State
  <2>3. k \notin Cuts(l) /\ k \in Quotes(l)  BY <1>5, <1>6, <1>10
  <2>4. \A j \in Nat : k \notin WordCells(l, j)  BY <1>7, <1>10
  <2> HIDE DEF u
  <2>5. /\ Count(Quotes(l), k) = Count(Quotes(l), k - 1) + 1
        /\ Count(Cuts(l), k) = Count(Cuts(l), k - 1)
        /\ Count(Quotes(l), k - 1) \in Nat
    BY <1>1, <1>4, <2>3
  <2>6. Count(WordCells(l, s.count), k) = Count(WordCells(l, s.count), k - 1)
    BY <1>0, <1>1, <1>4, <2>4
  <2>7. \A j \in 1..NumArgs : Upto(WordCells(l, j), k) = Upto(WordCells(l, j), k - 1)
    BY <1>1, <1>4, <2>4, LineSizes
  <2>8. (Count(Quotes(l), k) % 2 = 1) <=> ~(Count(Quotes(l), k - 1) % 2 = 1)
    <3> DEFINE c == Count(Quotes(l), k - 1)
    <3>1. c \in Nat /\ Count(Quotes(l), k) = c + 1  BY <2>5
    <3> HIDE DEF c
    <3>2. ((c + 1) % 2 = 1) <=> ~(c % 2 = 1)  BY <3>1
    <3> QED  BY <3>1, <3>2 DEF c
  <2> QED  BY <1>0, <1>3, <2>2, <2>5, <2>6, <2>7, <2>8
<1>11. CASE ~(t = Blank /\ ~s.quotes) /\ t # Quote
  <2>1. ~BeyondRows(s.count)  BY <1>11, ConsumedIs DEF State
  <2> DEFINE row == Put(s.args[s.count], s.index, t)
             rows == [s.args EXCEPT ![s.count] = row]
  <2>2. u = State(rows, s.count, s.index + 1, s.quotes, s.wild)  BY <1>11, <2>1, ConsumedIs
  <2> HIDE DEF rows
  <2>3. u.quotes = s.quotes /\ u.count = s.count /\ u.index = s.index + 1 /\ u.args = rows
    BY <2>2 DEF State
  <2>4. k \notin Cuts(l) /\ k \notin Quotes(l)  BY <1>5, <1>6, <1>11
  <2>5. \A j \in Nat : k \in WordCells(l, j) <=> j = s.count  BY <1>7, <1>11, <2>4
  <2>6. s.count \in 1..NumArgs  BY <1>0, <2>1, LineSizes DEF BeyondRows
  <2> HIDE DEF u
  <2>7. Count(Quotes(l), k) = Count(Quotes(l), k - 1) /\ Count(Cuts(l), k) = Count(Cuts(l), k - 1)
    <3>1. Count(Quotes(l), k) = Count(Quotes(l), k - 1) + 0 /\ Count(Quotes(l), k - 1) \in Nat
      BY <1>1, <1>4, <2>4
    <3>2. Count(Cuts(l), k) = Count(Cuts(l), k - 1) + 0 /\ Count(Cuts(l), k - 1) \in Nat
      BY <1>1, <1>4, <2>4
    <3> QED  BY <3>1, <3>2
  <2>8. Count(WordCells(l, s.count), k) = Count(WordCells(l, s.count), k - 1) + 1
        /\ Count(WordCells(l, s.count), k - 1) \in Nat
    BY <1>0, <1>1, <1>4, <2>5
  <2>9. s.args[s.count] \in Arg
        /\ Len(s.args[s.count]) = Count(WordCells(l, s.count), k - 1)
    BY <1>0, <1>3, <2>6 DEF ArgList, Spells, Count
  <2>10. row = Append(s.args[s.count], t)
    BY <1>3, <2>8, <2>9 DEF Put
  <2>11. \A j \in 1..NumArgs : rows[j] = IF j = s.count THEN row ELSE s.args[j]
    BY <1>0, <2>6 DEF rows, ArgList
  <2> HIDE DEF row
  <2>12. ASSUME NEW j \in 1..NumArgs
         PROVE  Spells(rows[j], l, Upto(WordCells(l, j), k))
    <3> DEFINE S == WordCells(l, j)
               w == s.args[j]
    <3>1. S \subseteq 1..Len(l) /\ w \in Arg /\ Spells(w, l, Upto(S, k - 1)) /\ l[k] \in Name
      BY <1>0, <1>1, <1>3, <1>8 DEF ArgList, t
    <3>2. k \in S <=> j = s.count  BY <2>5, LineSizes
    <3>3. rows[j] = IF k \in S THEN Append(w, l[k]) ELSE w
      BY <2>10, <2>11, <3>2 DEF t
    <3> HIDE DEF S, w
    <3>4. Spells(IF k \in S THEN Append(w, l[k]) ELSE w, l, Upto(S, k))
      BY <1>1, <3>1, SpellsNext
    <3> QED  BY <3>3, <3>4 DEF S
  <2> QED  BY <1>0, <1>3, <2>3, <2>7, <2>8, <2>12
<1> QED  BY <1>9, <1>10, <1>11

\* The line l in a buffer that was clear.
Holding(l) == [k \in 1..LineLength |-> IF k <= Len(l) THEN l[k] ELSE NUL]

LEMMA WordsRead ==
  ASSUME NEW l \in Seq(Tokens), Len(l) <= LineLength, ~Scanned(Holding(l), NoArguments).wild
  PROVE  AreWords(Scanned(Holding(l), NoArguments).args, l)
<1> DEFINE b == Holding(l)
           n == Len(l)
<1>1. n \in Nat /\ LineLength \in Nat /\ \A k \in 1..n : l[k] \in Name /\ l[k] # NUL
  BY LineSizes DEF Tokens
<1>2. \A k \in 1..LineLength : b[k] = IF k <= n THEN l[k] ELSE NUL
  BY DEF Holding
<1>3. b \in Buffers
  <2>1. \A k \in 1..LineLength : (IF k <= n THEN l[k] ELSE NUL) \in Name
    BY <1>1, NULTyped
  <2> QED  BY <2>1 DEF Buffers, Holding
<1> HIDE DEF b, n
<1>4. strlen(b) = n
  <2>1. /\ strlen(b) \in 0..LineLength
        /\ \A k \in 1..strlen(b) : b[k] # NUL
        /\ strlen(b) = LineLength \/ b[strlen(b) + 1] = NUL
    BY StrlenIs
  <2> DEFINE z == strlen(b)
  <2> HIDE DEF z
  <2>2. z \in 0..LineLength /\ (\A k \in 1..z : b[k] # NUL) /\ (z = LineLength \/ b[z + 1] = NUL)
    BY <2>1 DEF z
  <2>3. n <= LineLength  BY DEF n
  <2>4. ASSUME z < n PROVE FALSE
    <3>1. z + 1 \in 1..n /\ z + 1 \in 1..LineLength /\ z # LineLength
      BY <1>1, <2>2, <2>3, <2>4
    <3> QED  BY <1>1, <1>2, <2>2, <3>1
  <2>5. ASSUME n < z PROVE FALSE
    <3>1. n + 1 \in 1..z /\ n + 1 \in 1..LineLength /\ ~(n + 1 <= n)
      BY <1>1, <2>2, <2>5
    <3> QED  BY <1>2, <2>2, <3>1
  <2> QED  BY <1>1, <2>2, <2>4, <2>5 DEF z
<1>5. NoArguments \in ArgList  BY NoArgumentsTyped
<1>6. PICK f \in [0..n -> ScanState] :
        /\ f[0] = Started(NoArguments) /\ Scanned(b, NoArguments) = f[n]
        /\ \A k \in 1..n : f[k] = Consumed(f[k - 1], b[k])
  BY <1>3, <1>4, <1>5, ScanLoop
<1> DEFINE T == {k \in 0..n : Parsed(f[k], l, k)}
<1>7. 0 \in T  BY <1>1, <1>6, ParsedStart
<1>8. ASSUME NEW k \in 1..n, k - 1 \in T PROVE k \in T
  <2>1. k - 1 \in 0..n /\ k \in 0..n /\ k \in 1..LineLength /\ k <= n
    BY <1>1 DEF n
  <2>2. f[k - 1] \in ScanState /\ Parsed(f[k - 1], l, k - 1)  BY <1>8, <2>1
  <2>3. f[k] = Consumed(f[k - 1], l[k])  BY <1>2, <1>6, <2>1
  <2>4. Parsed(f[k], l, k)  BY <2>2, <2>3, ParsedNext DEF n
  <2> QED  BY <2>1, <2>4
<1> HIDE DEF T
<1>9. 0..n \subseteq T  BY <1>1, <1>7, <1>8, LoopKeeps
<1>10. Parsed(f[n], l, n)  BY <1>1, <1>9 DEF T
<1>11. \A j \in 1..NumArgs : Spells(f[n].args[j], l, Upto(WordCells(l, j), n))
  BY <1>6, <1>10 DEF Parsed, b
<1>12. \A j : Upto(WordCells(l, j), n) = WordCells(l, j)
  BY <1>1, CellsOfLine, UptoAll DEF n
<1> QED  BY <1>6, <1>11, <1>12 DEF AreWords, b

\* At the prompt the buffer is clear and no argument is left.
PromptInv ==
  /\ at \in {"boot", "prompt", "first", "run"} => pc \in {"idle", "fault"}
  /\ at = "prompt" => buffer = [k \in 1..LineLength |-> NUL] /\ parseArguments = NoArguments

LEMMA LineRead ==
  ASSUME TypedInput, ShellTypes, PromptInv, ReadLine, at' = "run", pc' = "idle"
  PROVE  AreWords(parseArguments', line')
<1>1. PICK x : Typed(x) /\ x # <<>> /\ inputToBuffer(x)
  <2>1. CASE \E l \in Lines : inputToBuffer(Append(l, Newline))
    BY <2>1, TypedLine
  <2>2. CASE input # <<>> /\ inputToBuffer(input)
    BY <2>2 DEF ShellTypes
  <2> QED  BY <2>1, <2>2 DEF ReadLine
<1> DEFINE n == Entered(x)
           l == SubSeq(x, 1, n)
<1>2. /\ n \in 0..LineLength /\ n < Len(x)
      /\ \A k \in 1..n : x[k] \in Tokens
  BY <1>1, EnteredIs
<1>3. at = "prompt"  BY DEF ReadLine
<1>4. buffer = [k \in 1..LineLength |-> NUL] /\ parseArguments = NoArguments
  BY <1>3 DEF PromptInv
<1>5. line' = l /\ buffer' = [k \in 1..LineLength |-> IF k <= n THEN x[k] ELSE NUL]
  BY <1>1, <1>4 DEF inputToBuffer
<1> HIDE DEF n
<1>6. l \in Seq(Tokens) /\ Len(l) = n /\ \A k \in 1..n : l[k] = x[k]
  <2> DEFINE S == Tokens
  <2> HIDE DEF S
  <2>1. 1 \in Int /\ n \in Int /\ n \in Nat /\ \A k \in 1..n : x[k] \in S  BY <1>2, LineSizes DEF S
  <2>2. /\ SubSeq(x, 1, n) \in Seq(S) /\ Len(SubSeq(x, 1, n)) = IF 1 <= n THEN n - 1 + 1 ELSE 0
        /\ \A k \in 1..n - 1 + 1 : SubSeq(x, 1, n)[k] = x[1 + k - 1]
    BY <2>1, SubSeqProperties
  <2>3. n - 1 + 1 = n /\ (IF 1 <= n THEN n - 1 + 1 ELSE 0) = n /\ \A k \in 1..n : 1 + k - 1 = k
    BY <2>1
  <2> QED  BY <2>2, <2>3 DEF S
<1> HIDE DEF l
<1>7. Len(l) <= LineLength  BY <1>2, <1>6, LineSizes
<1>8. buffer' = Holding(l)
  <2>1. \A k \in 1..LineLength : (k <= n) => (k \in 1..n)  BY <1>2, LineSizes
  <2> QED  BY <1>5, <1>6, <2>1 DEF Holding
<1>9. /\ ~Scanned(Holding(l), NoArguments).wild
      /\ parseArguments' = Scanned(Holding(l), NoArguments).args
  BY <1>4, <1>8 DEF ReadLine, bufferToArgs, Wild, Fault
<1>10. AreWords(Scanned(Holding(l), NoArguments).args, l)  BY <1>6, <1>7, <1>9, WordsRead
<1> QED  BY <1>5, <1>9, <1>10

\* Where a command may go.
LEMMA CommandGoes ==
  ASSUME Commands
  PROVE  \/ Prompt /\ pc = "idle"
         \/ at' \notin {"boot", "prompt", "first", "run"}
         \/ at' # "prompt" /\ at' # "boot" /\ pc' = "fault"
<1>1. CASE PrintOnly \/ Finished \/ cdRoot \/ cdOpened \/ mkdirNothing
  BY <1>1 DEF PrintOnly, Finished, Back, cdRoot, cdOpened, mkdirNothing, Running
<1>2. CASE touch \/ cd \/ cat \/ lsRoot \/ ls \/ lsOpened \/ mkdir \/ echo
  BY <1>2 DEF touch, cd, cat, lsRoot, ls, lsOpened, mkdir, echo, Goes, Prints
<1>5. CASE lsAstray
  BY <1>5 DEF lsAstray, Running, Back, Wild, Fault, shell
<1>3. CASE catOpened \/ mkdirCreated \/ echoOpened
  BY <1>3 DEF catOpened, mkdirCreated, echoOpened, Back, Goes
<1>4. CASE mkdirOpened
  <2>1. at = "dots" /\ pc = "idle" /\ (Prompt \/ UNCHANGED shell)
    BY <1>4 DEF mkdirOpened, Back
  <2> QED  BY <2>1 DEF shell
<1> QED  BY <1>1, <1>2, <1>3, <1>4, <1>5 DEF Commands

LEMMA PromptStep ==
  ASSUME TypedInput
  PROVE  ShellTypes /\ PromptInv /\ ArgsAreTheLine /\ [ShellNext]_shellVars
           => PromptInv' /\ ArgsAreTheLine'
<1> SUFFICES ASSUME ShellTypes, PromptInv, ArgsAreTheLine, [ShellNext]_shellVars
             PROVE  PromptInv' /\ ArgsAreTheLine'
  OBVIOUS
<1>1. CASE ReadLine
  <2>1. PromptInv'  BY <1>1, LineKeeps DEF PromptInv
  <2>2. ArgsAreTheLine'  BY <1>1, LineRead DEF ArgsAreTheLine
  <2> QED  BY <2>1, <2>2
<1>2. CASE Commands
  <2>1. CASE Prompt /\ pc = "idle"
    BY <2>1 DEF Prompt, nullCharArray, initParseArguments, PromptInv, ArgsAreTheLine
  <2>2. CASE at' \notin {"boot", "prompt", "first", "run"}
    BY <2>2 DEF PromptInv, ArgsAreTheLine
  <2>3. CASE at' # "prompt" /\ at' # "boot" /\ pc' = "fault"
    BY <2>3 DEF PromptInv, ArgsAreTheLine
  <2> QED  BY <1>2, <2>1, <2>2, <2>3, CommandGoes
<1>3. CASE FatStep
  <2>1. Step /\ at' = at  BY <1>3 DEF FatStep, shell
  <2>2. pc \notin {"idle", "fault"}  BY <2>1, StepsGoOn
  <2> QED  BY <2>1, <2>2 DEF PromptInv, ArgsAreTheLine
<1>4. CASE UNCHANGED shellVars
  BY <1>4 DEF shellVars, shell, terminal, vars, PromptInv, ArgsAreTheLine
<1> QED  BY <1>1, <1>2, <1>3, <1>4 DEF ShellNext

\* From the second line on, the arguments of a command are the words of the line just
\* read, whatever was typed before it and however it is quoted.
THEOREM ArgsAreWords ==
  ASSUME TypedInput, TypedTexts
  PROVE  ShellSpec => []ArgsAreTheLine
<1> DEFINE Inv == TypeInv /\ ShellTypes /\ PromptInv /\ ArgsAreTheLine
<1>1. ShellInit => Inv
  <2>1. ShellInit => PromptInv /\ ArgsAreTheLine
    BY DEF ShellInit, Init, PromptInv, ArgsAreTheLine
  <2> QED  BY <2>1, ShellTypesInit
<1>2. Inv /\ [ShellNext]_shellVars => Inv'  BY ShellTypesNext, PromptStep
<1>3. Inv => ArgsAreTheLine  OBVIOUS
<1> HIDE DEF Inv
<1> QED  BY <1>1, <1>2, <1>3, PTL DEF ShellSpec

USE DEF Addr, Slots, DirSlots, Window, Clusters, FatValue

(***************************************************************************)
(* Free clusters are clear                                                 *)
(***************************************************************************)

\* No call writes into a free cluster but the one that takes it.
LEMMA PutClean ==
  ASSUME TypeInv, Clean(disk, fat), NEW a0, NEW n, NEW isDir, PutEntry(a0, n, isDir),
         \A c \in Clusters \ {0, 1}, s \in DirSlots : a0 = ClusterBase(c) + s => fat[c] # 0
  PROVE  Clean(disk', fat')
<1> SUFFICES ASSUME NEW c \in Clusters \ {0, 1}, fat'[c] = 0, NEW s \in DirSlots
             PROVE  disk'[ClusterBase(c) + s] = Zero
  BY DEF Clean
<1>1. fat \in [Clusters -> FatValue] /\ \E k : fat' = Taken(fat, k)
  BY DEF PutEntry, TypeInv, TypeOK
<1>2. fat[c] = 0  BY <1>1, EocIsNotFree DEF Taken
<1>3. ClusterBase(c) + s \in Addr  BY DataUnits, Sizes
<1> QED  BY <1>2, <1>3 DEF PutEntry, Clean

LEMMA CleanStep ==
  ASSUME Named', TypeInv, FilesInv, Orderly, Clean(disk, fat), [AnyNext]_vars
  PROVE  Clean(disk', fat')
<1> USE DEF FilesInv
<1>1. CASE UNCHANGED <<disk, fat>>  BY <1>1
<1>2. ASSUME NEW p \in Path, NEW isDir \in BOOLEAN, fatCreateRoot(p, isDir)
      PROVE  Clean(disk', fat')
  <2>1. p.names[1] # <<>>  BY <1>2 DEF fatCreateRoot, Begin, Named
  <2>2. ASSUME NEW s \in Slots, NEW c \in Clusters \ {0, 1}, NEW x \in DirSlots,
               s - RootSize = ClusterBase(c) + x
        PROVE  fat[c] # 0
    BY <2>2, DataUnits, Sizes
  <2> QED  BY <1>1, <1>2, <2>1, <2>2, RootPut, PutClean
<1>3. CASE fatCreateStep
  <2>1. dir >= 2 /\ dir \in Clusters \ {0, 1} /\ pc = "walk" /\ WellBehaved
    <3>1. pc = "walk"  BY <1>3 DEF fatCreateStep
    <3>2. dir >= 2 /\ WellBehaved  BY <3>1 DEF Orderly
    <3>3. dir \in Clusters  BY DEF TypeInv, TypeOK
    <3> QED  BY <3>1, <3>2, <3>3, Sizes
  <2>2. fat[dir] # 0  BY <2>1, WalkedCluster
  <2>3. ASSUME NEW s \in DirSlots, NEW c \in Clusters \ {0, 1}, NEW x \in DirSlots,
               DirBase(dir) + s = ClusterBase(c) + x
        PROVE  fat[c] # 0
    <3>1. DirBase(c) + x = ClusterBase(c) + x  BY DEF DirBase
    <3> QED  BY <2>1, <2>2, <2>3, <3>1, SameSlot
  <2> QED  BY <1>1, <1>3, <2>1, <2>3, DirPut, PutClean
<1>4. CASE WriteSingle
  <2> SUFFICES ASSUME NEW c \in Clusters \ {0, 1}, fat'[c] = 0, NEW s \in DirSlots
               PROVE  disk'[ClusterBase(c) + s] = Zero
    BY DEF Clean
  <2>1. fat[c] = 0  BY <1>4, SingleDisk
  <2>2. disk[ClusterBase(c) + s] = Zero  BY <2>1 DEF Clean
  <2>3. c # cluster
    <3>1. fatTable[cluster] = EOC /\ fatTable = fat
      BY <1>4 DEF WriteSingle, OwnershipInv, StorageSound
    <3> QED  BY <2>1, <3>1, EocIsNotFree
  <2>4. Copied(c, s) /\ DirBase(c) + s = ClusterBase(c) + s  BY DEF Copied, DirBase
  <2>5. Resized(disk[ClusterBase(c) + s], disk'[ClusterBase(c) + s])
    BY <1>4, <2>3, <2>4, WrittenSlots
  <2> QED  BY <2>2, <2>5 DEF Resized, Zero
<1> QED  BY <1>1, <1>2, <1>3, <1>4, OrderlySingle, StoresNothing

(***************************************************************************)
(* What the calls have made                                                *)
(***************************************************************************)

LEMMA MadeStep ==
  ASSUME Named', NamesGiven', TypeInv, TypeInv', FilesInv, Packed(disk), Clean(disk, fat),
         Orderly, Orderly', WalkInv, MadeInv, [AnyNext]_vars
  PROVE  MadeInv'
<1>1. CASE UNCHANGED vars  BY <1>1 DEF vars, MadeInv, Returned, Idle
<1>2. CASE CreatedTop
  <2>1. ASSUME NEW p \in Path, p = path', NEW e \in BOOLEAN, e = isDirectory'
        PROVE  Made(disk', fat', p, e)
    <3>1. /\ p.names[1] # <<>> /\ Len(p.names) = 1
          /\ StoredName(p) # <<>> /\ StoredName(p) = NewName(p)
      BY <1>2, <2>1 DEF CreatedTop, Named, NamesGiven, Returned
    <3>2. subDirectIndex(p) = 1  BY <3>1, IndexRange
    <3>3. p.names[1] \notin DotNames
      BY <1>2, <2>1, <3>2 DEF CreatedTop, NamesGiven, Returned
    <3>4. PICK s \in Slots :
            /\ PutEntry(s - RootSize, StoredName(p), e)
            /\ \A y \in Slots : y < s => ~RootMatch(disk[y - RootSize], p.names[1])
      BY <1>2, <2>1 DEF CreatedTop
    <3>5. WellBehaved' /\ RootShort'  BY DEF Orderly
    <3> QED  BY <3>1, <3>3, <3>4, <3>5, MadeTop
  <2> QED  BY <1>2, <2>1 DEF CreatedTop, MadeInv
<1>3. CASE CreatedBelow
  <2>1. /\ pc = "walk" /\ depth = subDirectIndex(path) /\ path' = path /\ path \in Path
        /\ isDirectory' = isDirectory /\ isDirectory \in BOOLEAN /\ op' = "fatCreate"
        /\ depth \in Nat \ {0} /\ Returned("fatCreate", 0)'
    BY <1>3 DEF CreatedBelow, args, TypeInv, TypeOK, Returned
  <2>3. /\ path.names[1] # <<>> /\ path.names[depth] \notin DotNames
        /\ StoredName(path) = NewName(path)
    BY <2>1 DEF NamesGiven, Returned
  <2>4. StoredName(path) = path.names[depth]
    <3>1. Len(path.names) > 1  BY <2>1 DEF WalkInv
    <3> QED  BY <2>1, <2>3, <3>1 DEF NewName
  <2>2. ASSUME NEW n, n = path.names[depth], NEW e \in BOOLEAN, e = isDirectory
        PROVE  Made(disk', fat', path, e)
    <3>1. n \in Name /\ n # <<>>  BY <2>1, <2>2, ComponentName, ComponentNamed
    <3>2. n \notin DotNames  BY <2>2, <2>3
    <3>3. PICK s \in DirSlots :
            /\ PutEntry(DirBase(dir) + s, n, e)
            /\ \A y \in DirSlots : y < s => ~DirMatch(disk[DirBase(dir) + y], n)
      BY <1>3, <2>2, <2>4 DEF CreatedBelow
    <3>4. WellBehaved'  BY DEF Orderly
    <3>5. Grown  BY <3>4, GrownStep
    <3> QED  BY <2>1, <2>2, <3>1, <3>2, <3>3, <3>4, <3>5, MadeBelow
  <2> QED  BY <2>1, <2>2 DEF MadeInv
<1>4. CASE ~Returned("fatCreate", 0)'  BY <1>4 DEF MadeInv
<1> QED
  BY <1>1, <1>2, <1>3, <1>4, StepKinds
  DEF FilesInv, Begun, Descended, OpenedTop, OpenedBelow, Neither, Returned, Idle

(***************************************************************************)
(* What the commands add to the calls                                      *)
(***************************************************************************)

\* A command writes no text of more than a cluster.
LEMMA WriteIsShort ==
  ASSUME ShortTexts, ShortArguments, ShellTypes, Commands, NEW x \in TextArg, fatWrite(x)
  PROVE  clustersNeeded(x) = 1
<1>1. op' = "fatWrite" /\ op = "fatOpen" /\ text' = x  BY DEF fatWrite, Begin
<1>2. CASE echoOpened
  <2>1. PICK t \in Copies(Argument(1)) : fatWrite(t)  BY <1>1, <1>2 DEF echoOpened, Prompt
  <2>2. t = x  BY <1>1, <2>1 DEF fatWrite, Begin
  <2>3. Argument(1) \in Seq(Name)  BY ArgumentTyped DEF Arg
  <2> QED  BY <2>1, <2>2, <2>3 DEF Copies, ShortTexts, ShortArguments
<1>3. ~(PrintOnly \/ Finished \/ cdRoot \/ cdOpened \/ mkdirNothing \/ mkdirOpened)
  BY <1>1 DEF PrintOnly, Finished, cdRoot, cdOpened, mkdirNothing, mkdirOpened, Prompt, Wild, args
<1>4. ~(touch \/ cd \/ cat \/ ls \/ mkdir \/ echo \/ mkdirCreated)
  BY <1>1 DEF touch, cd, cat, ls, mkdir, echo, mkdirCreated, fatOpen, fatCreate,
    fatOpenRoot, fatOpenPath, fatCreateRoot, fatCreatePath, ScanAstray, Begin, Prompt
<1>5. ~(catOpened \/ lsRoot \/ lsOpened \/ lsAstray)
  BY <1>1 DEF catOpened, lsRoot, lsOpened, lsAstray, fatRead, Begin, Prompt, Wild, vars, args
<1> QED  BY <1>2, <1>3, <1>4, <1>5 DEF Commands

\* What the shell does between two states of the filesystem: a call or a step of one,
\* the end of a command, the dot entries of mkdir, or what a line too long leads to.
LEMMA ShellKinds ==
  ASSUME TypedTexts, ShortTexts, ShortArguments, ShellTypes, [ShellNext]_shellVars
  PROVE  \/ [AnyNext]_vars
         \/ pc = "idle" /\ Prompt /\ UNCHANGED disk
         \/ pc = "idle" /\ mkdirOpened
         \/ pc = "idle" /\ lsAstray
         \/ ReadLine /\ pc = "idle" /\ Wild
<1>1. CASE ReadLine  BY <1>1 DEF ReadLine
<1>2. CASE UNCHANGED shellVars \/ FatStep  BY <1>2 DEF shellVars, FatStep, AnyNext
<1>3. CASE Commands /\ ~mkdirOpened /\ ~lsAstray
  <2>1. pc = "idle" /\ CommandStep  BY <1>3, CommandIs
  <2>2. CASE Calls
    <3>1. PICK p \in Path, isDir \in BOOLEAN, t \in TextArg :
            \/ fatOpenRoot(p) \/ fatOpenPath(p) \/ fatCreateRoot(p, isDir)
            \/ fatCreatePath(p, isDir) \/ fatWrite(t) \/ fatRead
            \/ \E o \in {"fatOpen", "fatCreate"} : ScanAstray(o, p, isDir)
      BY <2>2 DEF Calls
    <3>2. fatWrite(t) => clustersNeeded(t) = 1  BY <1>3, WriteIsShort
    <3>3. AnyCall  BY <3>1, <3>2 DEF AnyCall
    <3> QED  BY <3>3 DEF AnyNext
  <2>3. at # "dots"
    BY <1>3 DEF Commands, PrintOnly, Finished, touch, cdRoot, cd, cdOpened, cat, catOpened,
      lsRoot, ls, lsOpened, mkdirNothing, mkdir, mkdirCreated, echo, echoOpened, Running, Back
  <2>4. at' # at
    BY <1>3 DEF Commands, PrintOnly, Finished, touch, cdRoot, cd, cdOpened, cat, catOpened,
      lsRoot, ls, lsOpened, mkdirNothing, mkdir, mkdirCreated, echo, echoOpened, Running, Back,
      Prompt, Goes, Prints
  <2> QED  BY <2>1, <2>2, <2>3, <2>4 DEF CommandStep, shell
<1> QED  BY <1>1, <1>2, <1>3, CommandIs DEF ShellNext

\* The end of a command and a wild pointer leave the filesystem as it is.
LEMMA FilesRest ==
  ASSUME TypeInv, FilesInv, pc = "idle", (Prompt /\ UNCHANGED disk) \/ Wild
  PROVE  FilesInv'
<1>1. /\ UNCHANGED <<disk, fat, fatTable, rootDir, dataEntries>>
      /\ fp' = fp \/ fp' = NoFile
      /\ pc' = "fault" \/ (pc' = "idle" /\ op' = "none")
  BY DEF Prompt, Wild, Fault, storage, caches, args
<1>2. ~FileHandle' /\ pc' # "free" /\ pc' # "place"  BY <1>1 DEF FileHandle
<1>3. HandleSound(fp', fat)
  <2>1. HandleSound(fp, fat) /\ fat[0] = EOC
    BY DEF FilesInv, OwnershipInv, CallSound, StorageSound, Sound
  <2>2. HandleSound(NoFile, fat)
    BY <2>1, EocIsNotFree DEF HandleSound, NoFile, Backed, Zero
  <2> QED  BY <1>1, <2>1, <2>2
<1>4. OwnershipInv'  BY <1>1, <1>2, <1>3 DEF FilesInv, OwnershipInv, CallSound, StorageSound
<1>5. OpenInv'  BY <1>1, <1>2 DEF FilesInv, OpenInv, FirstInv, BlankInv
<1>6. TidyInv' /\ HeldInv' /\ DiskWhole'
  BY <1>1, <1>2 DEF FilesInv, TidyInv, HeldInv, DiskWhole
<1>7. DiskEnded'  BY <1>1 DEF FilesInv, DiskEnded, EndedFiles, IsFile
<1> QED  BY <1>4, <1>5, <1>6, <1>7 DEF FilesInv

(***************************************************************************)
(* The directory mkdir opens                                               *)
(***************************************************************************)

LEMMA NewIsNoDot ==
  ASSUME NEW p \in Path, p.names # <<>>, p.names[1] # <<>>,
         p.names[subDirectIndex(p)] \notin DotNames
  PROVE  NewName(p) \notin DotNames
<1>1. p.names \in Seq(Name) /\ Len(p.names) \in Nat \ {0}  BY DEF Path
<1>2. CASE Len(p.names) > 1  BY <1>2 DEF NewName
<1>3. CASE ~(Len(p.names) > 1)
  <2>0. \A n \in Nat \ {0} : n > 1 \/ n = 1  OBVIOUS
  <2>1. Len(p.names) = 1  BY <1>1, <1>3, <2>0
  <2>2. subDirectIndex(p) = 1  BY <2>1, IndexRange
  <2>3. p.abs => NewName(p)[1] = "/"
    <3>1. p.names[1] \in Seq(Char)  BY <1>1, <2>1 DEF Name
    <3> QED  BY <1>3, <3>1, SlashFirst DEF NewName
  <2>4. ~p.abs => NewName(p) = p.names[1]  BY <1>3 DEF NewName
  <2>5. p.abs => NewName(p) \notin DotNames
    <3> DEFINE n == NewName(p)
    <3> HIDE DEF n
    <3>1. n \in DotNames => n[1] = "."  BY DEF DotNames
    <3> QED  BY <2>3, <3>1 DEF n
  <2> QED  BY <2>2, <2>4, <2>5
<1> QED  BY <1>2, <1>3

\* A path of one component as the name of a new entry: with a slash in front it is
\* longer than its component.
LEMMA AsGiven ==
  ASSUME NEW p \in Path, p.names # <<>>, p.names[1] # <<>>, StoredName(p) = NewName(p)
  PROVE  /\ Len(p.names) > 1 => StoredName(p) = p.names[subDirectIndex(p)]
         /\ Len(p.names) = 1 /\ StoredName(p) = p.names[subDirectIndex(p)] =>
              StoredName(p) = p.names[1]
BY IndexRange DEF NewName

\* fatOpen, called after fatCreate with the same path, follows the trail that
\* fatCreate followed, and finds at its end the unit that it made.
OnTheWay(w) ==
  LET m == subDirectIndex(path)
  IN  /\ m >= 2 /\ Trail(disk, fat, path, m, w) /\ Safe(disk, fat, w[m])
      /\ depth \in 2..m /\ dir = w[depth]
      /\ \E s \in FoundInDir(Entries(disk, w[m]), path.names[m]) :
           NewUnit(disk, fat, Entries(disk, w[m])[s], path.names[m], TRUE)

\* Unless it goes wild it opens that unit, and it fails on no path whose last component
\* is the name that was stored.
OpensDir ==
  /\ op = "fatOpen" /\ pc \in {"walk", "idle", "fault"}
  /\ pc = "walk" => Len(path.names) > 1 /\ \E w : OnTheWay(w)
  /\ pc = "idle" =>
       /\ StoredName(path) = path.names[subDirectIndex(path)] => ret = 0
       /\ ret = 0 => NewUnit(disk, fat, fp.rde, StoredName(path), TRUE)

DotsInv ==
  /\ at \in {"mkdir", "dots"} => path = PathArgument(1)
  /\ at = "mkdir" => op = "fatCreate" /\ isDirectory
  /\ at = "dots" => /\ path.names[1] # <<>> /\ StoredName(path) = NewName(path)
                    /\ StoredName(path) \notin DotNames /\ OpensDir

LEMMA MoreThanOne == \A p \in Path : Len(p.names) > 1 => Len(p.names) # 1
<1>1. \A n \in Nat : n > 1 => n # 1  OBVIOUS
<1>2. \A p \in Path : Len(p.names) \in Nat  BY DEF Path
<1> QED  BY <1>1, <1>2, Zenon

\* A scan stops at one place.
LEMMA ScansStopOnce ==
  ASSUME NEW n, NEW r, NEW e
  PROVE  /\ \A s, x \in FoundInRoot(r, n) : s = x
         /\ \A s, x \in FoundInDir(e, n) : s = x
<1>1. ASSUME NEW S \in SUBSET Nat, NEW s \in Scan(S), NEW x \in Scan(S)
      PROVE  s = x
  BY <1>1 DEF Scan
<1>2. Slots \subseteq Nat /\ DirSlots \subseteq Nat  OBVIOUS
<1>3. {s \in Slots : RootMatch(r[s], n)} \in SUBSET Nat  BY <1>2
<1>4. {s \in DirSlots : DirMatch(e[s], n)} \in SUBSET Nat  BY <1>2
<1> QED  BY <1>1, <1>3, <1>4 DEF FoundInRoot, FoundInDir

\* What a call of fatOpen comes to, and a round of one.
LEMMA OpeningEnds ==
  ASSUME [AnyNext]_vars, pc = "idle", op # "fatOpen", op' = "fatOpen"
  PROVE  /\ pc' \in {"walk", "idle", "fault"}
         /\ pc' = "idle" =>
              (ret' = 0 /\ Len(path'.names) = 1) \/ FoundInRoot(LoadRoot(disk), path'.names[1]) = {}
<1>1. ASSUME NEW p, fatOpenRoot(p)
      PROVE  /\ pc' = "idle" /\ path' = p
             /\ (ret' = 0 /\ Len(p.names) = 1) \/ FoundInRoot(LoadRoot(disk), p.names[1]) = {}
  BY <1>1 DEF fatOpenRoot, Begin, Fail, Return
<1>2. ASSUME NEW p, fatOpenPath(p)
      PROVE  /\ path' = p /\ pc' \in {"walk", "idle"}
             /\ pc' = "idle" => FoundInRoot(LoadRoot(disk), p.names[1]) = {}
  BY <1>2 DEF fatOpenPath, Begin, StartWalk, Fail, Return
<1>3. ASSUME NEW o, NEW p, NEW isDir, ScanAstray(o, p, isDir)
      PROVE  pc' = "fault"
  BY <1>3, ScanStops DEF Fault
<1>4. ASSUME NEW p, NEW isDir, fatCreateRoot(p, isDir) \/ fatCreatePath(p, isDir)
      PROVE  FALSE
  BY <1>4 DEF fatCreateRoot, fatCreatePath, Begin
<1>5. ASSUME NEW t, fatWrite(t) PROVE FALSE
  BY <1>5 DEF fatWrite, Begin
<1>6. ~fatRead  BY DEF fatRead, Begin
<1>7. ~Step  BY StepsGoOn
<1>8. ~UNCHANGED vars  BY DEF vars
<1> QED  BY <1>1, <1>2, <1>3, <1>4, <1>5, <1>6, <1>7, <1>8 DEF AnyNext, AnyCall

LEMMA RoundEnds ==
  ASSUME Step, pc = "walk", op = "fatOpen", dir # 0
  PROVE  /\ pc' \in {"walk", "idle", "fault"}
         /\ pc' = "idle" => \/ ret' = 0 \/ depth > subDirectIndex(path)
                           \/ FoundInDir(Entries(disk, dir), path.names[depth]) = {}
<1>1. CASE Stray  BY <1>1, StrayStops DEF Fault
<1>2. CASE fatOpenStep
  <2>1. readFromCluster(disk, dir, dataEntries) = Entries(disk, dir)  BY ReadEntries
  <2> QED  BY <1>2, <2>1 DEF fatOpenStep, Fail, Return, Descend
<1> QED
  BY <1>1, <1>2 DEF Step, Stray, fatCreateStep, FreeCluster, WriteSingle, WriteLinked, WriteLast,
    WriteWild, ReadSingle, ReadLinked

\* The call that mkdir makes when it has made a directory.
LEMMA OpeningStarts ==
  ASSUME Named', TypeInv, OwnershipInv, OpenInv, Orderly, [AnyNext]_vars,
         pc = "idle", op = "fatCreate", Made(disk, fat, path, TRUE),
         op' = "fatOpen", path' = path, path.names # <<>>, path.names[1] # <<>>,
         StoredName(path) = NewName(path)
  PROVE  OpensDir'
<1>0. /\ pc' \in {"walk", "idle", "fault"}
      /\ pc' = "idle" => \/ ret' = 0
                        \/ FoundInRoot(LoadRoot(disk), path.names[1]) = {}
  <2>1. op # "fatOpen"  OBVIOUS
  <2>2. /\ pc' \in {"walk", "idle", "fault"}
        /\ pc' = "idle" =>
             (ret' = 0 /\ Len(path'.names) = 1) \/ FoundInRoot(LoadRoot(disk), path'.names[1]) = {}
    BY <2>1, OpeningEnds
  <2> QED  BY <2>2
<1>1. path \in Path /\ disk \in Disk  BY DEF TypeInv, TypeOK, Disk
<1>2. CASE OpenedTop
  <2>1. PICK s \in FoundInRoot(LoadRoot(disk), path.names[1]) : fp' = Handle(0, LoadRoot(disk)[s])
    BY <1>2 DEF OpenedTop
  <2>2. NewUnit(disk, fat, LoadRoot(disk)[s], StoredName(path), TRUE)
    <3>1. Len(path.names) = 1 /\ ~ (Len(path.names) > 1)  BY <1>2 DEF OpenedTop
    <3>2. \A x \in FoundInRoot(LoadRoot(disk), path.names[1]) :
            NewUnit(disk, fat, LoadRoot(disk)[x], StoredName(path), TRUE)
      BY <3>1, Zenon DEF Made
    <3> QED  BY <2>1, <3>2
  <2>3. fp'.rde = LoadRoot(disk)[s]  BY <2>1 DEF Handle
  <2>4. pc' = "idle" /\ ret' = 0 /\ UNCHANGED <<disk, fat>>
    BY <1>2 DEF OpenedTop, Returned, Idle
  <2> QED  BY <2>2, <2>3, <2>4 DEF OpensDir
<1>3. CASE Begun
  <2> DEFINE m == subDirectIndex(path)
  <2>1. /\ UNCHANGED <<disk, fat>> /\ pc' = "walk" /\ depth' = 2 /\ Len(path.names) > 1
    BY <1>3 DEF Begun
  <2>2. PICK w : /\ m >= 2 /\ Trail(disk, fat, path, m, w) /\ Safe(disk, fat, w[m])
                 /\ \E s \in FoundInDir(Entries(disk, w[m]), path.names[m]) :
                      NewUnit(disk, fat, Entries(disk, w[m])[s], path.names[m], TRUE)
    <3>1. Len(path.names) # 1  BY <1>1, <2>1, MoreThanOne, Zenon
    <3> QED  BY <3>1, Zenon DEF Made
  <2>3. m \in Nat  BY <1>1, IndexIsNat
  <2>4. dir' = w[2]
    <3>1. PICK s \in FoundInRoot(LoadRoot(disk), path.names[1]) : dir' = LoadRoot(disk)[s].cluster
      BY <1>3 DEF Begun
    <3>2. PICK x \in FoundInRoot(LoadRoot(disk), path.names[1]) : w[2] = LoadRoot(disk)[x].cluster
      BY <2>2 DEF Trail
    <3>3. s = x  BY <3>1, <3>2, ScansStopOnce
    <3> QED  BY <3>1, <3>2, <3>3
  <2>5. 2 \in 2..m  BY <2>2, <2>3
  <2>6. OnTheWay(w)'  BY <2>1, <2>2, <2>4, <2>5 DEF OnTheWay
  <2> QED  BY <2>1, <2>6 DEF OpensDir
<1>4. CASE Neither
  <2>1. pc' # "walk" /\ (pc' = "idle" => ret' # 0)  BY <1>4 DEF Neither, Returned, Idle
  <2>2. CASE pc' = "fault"  BY <2>2 DEF OpensDir
  <2>3. CASE pc' = "idle"
    <3>1. FoundInRoot(LoadRoot(disk), path.names[1]) = {}  BY <1>0, <2>1, <2>3
    <3>2. Len(path.names) = 1 /\ StoredName(path) # path.names[1]
      <4>1. ~(\E w : Trail(disk, fat, path, subDirectIndex(path), w))
        BY <3>1, Zenon DEF Trail
      <4> QED  BY <3>1, <4>1, Zenon DEF Made
    <3>3. StoredName(path) # path.names[subDirectIndex(path)]
      BY <1>1, <3>2, AsGiven
    <3> QED  BY <2>1, <2>3, <3>3 DEF OpensDir
  <2> QED  BY <1>0, <2>1, <2>2, <2>3
<1>5. ~ UNCHANGED vars /\ ~CreatedTop /\ ~Descended /\ ~OpenedBelow /\ ~CreatedBelow
  BY DEF vars, CreatedTop, Descended, OpenedBelow, CreatedBelow, Returned
<1> QED  BY <1>2, <1>3, <1>4, <1>5, StepKinds

\* Its rounds.
LEMMA OpeningGoes ==
  ASSUME Named', TypeInv, OwnershipInv, OpenInv, Orderly, Step, OpensDir,
         path.names # <<>>, path.names[1] # <<>>, StoredName(path) = NewName(path)
  PROVE  OpensDir'
<1>1. path \in Path /\ disk \in Disk /\ depth \in Nat  BY DEF TypeInv, TypeOK, Disk
<1>2. op' = "fatOpen" /\ path' = path /\ pc # "idle" /\ isDirectory' = isDirectory
  BY StepsGoOn DEF args, OpensDir
<1> DEFINE m == subDirectIndex(path)
<1>3. CASE Descended
  <2>1. /\ UNCHANGED <<disk, fat>> /\ pc = "walk" /\ pc' = "walk" /\ depth' = depth + 1 /\ depth < m
    BY <1>3 DEF Descended
  <2>2. PICK w : OnTheWay(w)  BY <2>1 DEF OpensDir
  <2>3. m \in Nat /\ depth \in 2..(m - 1) /\ depth' \in 2..m
    BY <1>1, <2>1, <2>2, IndexIsNat DEF OnTheWay
  <2>4. dir' = w[depth']
    <3>1. PICK s \in FoundInDir(Entries(disk, dir), path.names[depth]) :
            dir' = Entries(disk, dir)[s].cluster
      BY <1>3 DEF Descended
    <3>2. dir = w[depth]  BY <2>2 DEF OnTheWay
    <3>3. PICK x \in FoundInDir(Entries(disk, dir), path.names[depth]) :
            w[depth + 1] = Entries(disk, dir)[x].cluster
      BY <2>2, <2>3, <3>2 DEF OnTheWay, Trail
    <3>4. s = x  BY <3>1, <3>3, ScansStopOnce
    <3> QED  BY <2>1, <3>1, <3>3, <3>4
  <2>5. OnTheWay(w)'  BY <1>2, <2>1, <2>2, <2>3, <2>4 DEF OnTheWay
  <2> QED  BY <1>2, <2>1, <2>5 DEF OpensDir
<1>4. CASE OpenedBelow
  <2>1. /\ UNCHANGED <<disk, fat>> /\ pc = "walk" /\ pc' = "idle" /\ ret' = 0 /\ depth = m
    BY <1>4 DEF OpenedBelow, Returned, Idle
  <2>2. PICK w : OnTheWay(w)  BY <2>1 DEF OpensDir
  <2>3. dir = w[m] /\ Len(path.names) > 1  BY <2>1, <2>2 DEF OnTheWay, OpensDir
  <2>4. PICK s \in FoundInDir(Entries(disk, dir), path.names[m]) :
          fp' = Handle(dir, Entries(disk, dir)[s])
    BY <1>4, <2>1 DEF OpenedBelow
  <2>5. NewUnit(disk, fat, Entries(disk, dir)[s], path.names[m], TRUE)
    <3>1. PICK x \in FoundInDir(Entries(disk, dir), path.names[m]) :
            NewUnit(disk, fat, Entries(disk, dir)[x], path.names[m], TRUE)
      BY <2>2, <2>3 DEF OnTheWay
    <3>2. s = x  BY <2>4, <3>1, ScansStopOnce
    <3> QED  BY <3>1, <3>2
  <2>6. fp'.rde = Entries(disk, dir)[s]  BY <2>4 DEF Handle
  <2>7. StoredName(path) = path.names[m]  BY <1>1, <2>3, AsGiven
  <2> QED  BY <1>2, <2>1, <2>5, <2>6, <2>7 DEF OpensDir
<1>5. CASE Neither
  <2>1. pc' # "walk" /\ (pc' = "idle" => ret' # 0)
    BY <1>2, <1>5 DEF Neither, Returned, Idle
  <2>2. pc = "walk" /\ op = "fatOpen"  BY <1>2, StepsGoOn DEF OpensDir
  <2>3. PICK w : OnTheWay(w)  BY <2>2 DEF OpensDir
  <2>4. dir >= 2 /\ dir # 0
    <3>1. dir >= 2 /\ dir \in Clusters  BY <2>2 DEF Orderly, TypeInv, TypeOK
    <3> QED  BY <3>1, Sizes
  <2>5. ~(depth > m) /\ FoundInDir(Entries(disk, dir), path.names[depth]) # {}
    <3>1. m \in Nat /\ depth \in 2..m /\ dir = w[depth]
      BY <1>1, <2>3, IndexIsNat DEF OnTheWay
    <3>2. CASE depth = m  BY <2>3, <3>1, <3>2 DEF OnTheWay
    <3>3. CASE depth # m
      <4>1. depth \in 2..(m - 1)  BY <3>1, <3>3
      <4> QED  BY <2>3, <3>1, <4>1 DEF OnTheWay, Trail
    <3> QED  BY <3>1, <3>2, <3>3
  <2>6. pc' = "fault"  BY <2>1, <2>2, <2>4, <2>5, RoundEnds
  <2> QED  BY <1>2, <2>6 DEF OpensDir
<1>6. ~CreatedTop /\ ~Begun /\ ~OpenedTop /\ ~CreatedBelow
  BY <1>2 DEF CreatedTop, Begun, OpenedTop, CreatedBelow, Returned
<1>7. CASE UNCHANGED vars  BY <1>7 DEF vars, OpensDir, OnTheWay
<1> QED  BY <1>3, <1>4, <1>5, <1>6, <1>7, StepKinds DEF AnyNext

\* The commands that leave it alone.
LEMMA OtherCommands ==
  ASSUME Commands, ~mkdir, ~mkdirCreated, ~mkdirOpened
  PROVE  at' \notin {"mkdir", "dots"}
BY DEF Commands, PrintOnly, Finished, touch, cdRoot, cd, cdOpened, cat, catOpened, lsRoot, ls,
  lsOpened, lsAstray, mkdirNothing, echo, echoOpened, Prompt, Goes, Prints, Running, Back, shell

LEMMA DotsStep ==
  ASSUME TypedTexts, ShortTexts, ShortArguments, ShellTypes, Named', NamesGiven,
         TypeInv, FilesInv, Orderly, MadeInv, DotsInv, [ShellNext]_shellVars
  PROVE  DotsInv'
<1>1. CASE UNCHANGED shellVars
  BY <1>1 DEF shellVars, vars, shell, terminal, DotsInv, OpensDir, OnTheWay, PathArgument, Argument
<1>2. CASE FatStep
  <2>1. Step /\ UNCHANGED args /\ at' = at /\ PathArgument(1)' = PathArgument(1)
    BY <1>2, StepsGoOn DEF FatStep, shell, terminal, PathArgument, Argument
  <2>2. OwnershipInv /\ OpenInv  BY DEF FilesInv
  <2>3. at = "dots" => OpensDir'
    <3> SUFFICES ASSUME at = "dots" PROVE OpensDir'
      OBVIOUS
    <3>1. path.names # <<>>  BY ArgumentTyped DEF DotsInv
    <3> QED  BY <2>1, <2>2, <3>1, OpeningGoes DEF DotsInv
  <2> QED  BY <2>1, <2>3 DEF DotsInv, args
<1>3. CASE ReadLine  BY <1>3 DEF ReadLine, DotsInv
<1>4. CASE mkdir
  <2>1. fatCreate(PathArgument(1), TRUE) /\ at' = "mkdir" /\ UNCHANGED parseArguments
    BY <1>4 DEF mkdir, Goes, terminal
  <2>2. path' = PathArgument(1) /\ op' = "fatCreate" /\ isDirectory' = TRUE
    BY <2>1, ScanStops DEF fatCreate, fatCreateRoot, fatCreatePath, Begin
  <2>3. PathArgument(1)' = PathArgument(1)  BY <2>1 DEF PathArgument, Argument
  <2> QED  BY <2>1, <2>2, <2>3 DEF DotsInv
<1>5. CASE mkdirCreated
  <2>1. CASE Prompt  BY <2>1 DEF Prompt, DotsInv
  <2>2. CASE ret = 0 /\ fatOpen(PathArgument(1)) /\ Goes("dots")
    <3>1. at = "mkdir" /\ pc = "idle"  BY <1>5 DEF mkdirCreated, Back
    <3>2. path = PathArgument(1) /\ op = "fatCreate" /\ isDirectory  BY <3>1 DEF DotsInv
    <3>3. path' = PathArgument(1) /\ op' = "fatOpen" /\ at' = "dots"
      BY <2>2, ScanStops DEF fatOpen, fatOpenRoot, fatOpenPath, Begin, Goes
    <3>4. PathArgument(1)' = PathArgument(1)
      BY <2>2 DEF Goes, terminal, PathArgument, Argument
    <3>5. /\ path \in Path /\ path.names # <<>> /\ path.names[1] # <<>>
          /\ path.names[subDirectIndex(path)] \notin DotNames
          /\ StoredName(path) = NewName(path)
      BY <2>2, <3>1, <3>2, ArgumentTyped DEF TypeInv, TypeOK, NamesGiven, Returned, Idle
    <3>6. Made(disk, fat, path, TRUE)
      BY <2>2, <3>1, <3>2 DEF MadeInv, Returned, Idle, TypeInv, TypeOK
    <3>7. OwnershipInv /\ OpenInv  BY DEF FilesInv
    <3>8. [AnyNext]_vars
      <4>1. ~Prompt /\ ~mkdirOpened /\ ~lsAstray /\ ~ReadLine
        BY <3>1, <3>3 DEF Prompt, mkdirOpened, lsAstray, ReadLine, Running, Back
      <4> QED  BY <1>5, <4>1, ShellKinds DEF ShellNext, Commands
    <3>9. OpensDir'  BY <3>1, <3>2, <3>3, <3>5, <3>6, <3>7, <3>8, OpeningStarts
    <3>10. StoredName(path) \notin DotNames  BY <3>5, NewIsNoDot
    <3> QED  BY <3>2, <3>3, <3>4, <3>5, <3>9, <3>10 DEF DotsInv
  <2> QED  BY <1>5, <2>1, <2>2 DEF mkdirCreated
<1>6. CASE mkdirOpened
  <2>1. CASE Prompt  BY <2>1 DEF Prompt, DotsInv
  <2>2. CASE Wild /\ UNCHANGED shell
    BY <2>2 DEF Wild, Fault, args, shell, terminal, DotsInv, OpensDir, PathArgument, Argument
  <2> QED  BY <1>6, <2>1, <2>2 DEF mkdirOpened
<1>7. CASE Commands /\ ~mkdir /\ ~mkdirCreated /\ ~mkdirOpened
  BY <1>7, OtherCommands DEF DotsInv
<1> QED  BY <1>1, <1>2, <1>3, <1>4, <1>5, <1>6, <1>7 DEF ShellNext

(***************************************************************************)
(* The dot entries                                                         *)
(***************************************************************************)

DotUnit(n) == [Zero EXCEPT !.name = n, !.attr = "dir"]

\* They take the first two slots of the cluster k.
DotsPut(k) ==
  /\ disk' \in Disk /\ fat' = fat
  /\ disk'[ClusterBase(k) + 1] = DotUnit(<<".">>)
  /\ disk'[ClusterBase(k) + 2] = DotUnit(<<".", ".">>)
  /\ \A a \in Addr : a # ClusterBase(k) + 1 /\ a # ClusterBase(k) + 2 => disk'[a] = disk[a]

\* The cluster k is a directory's, and cleared.
NewDir(k) ==
  /\ k \in Clusters /\ k >= 2 /\ fat[k] = EOC
  /\ \A s \in DirSlots : disk[ClusterBase(k) + s] = Zero
  /\ \E a \in Addr : IsDir(disk[a]) /\ disk[a].cluster = k

LEMMA MadeIsNewDir ==
  ASSUME NEW n, n \notin DotNames, NEW u, NewUnit(disk, fat, u, n, TRUE)
  PROVE  NewDir(u.cluster)
BY DEF NewUnit, NewEntry, IsDir, NewDir

LEMMA DotUnits ==
  ASSUME TypedInput
  PROVE  \A n \in DotNames :
           LET u == DotUnit(n)
           IN  /\ u \in Unit /\ u.kind = "entry" /\ u.name = n /\ u.attr = "dir"
               /\ u.cluster = 0 /\ u.size = 0
               /\ ~IsFile(u) /\ ~IsDir(u) /\ ~Owns(u) /\ Vacant(u) /\ ~FreeSlot(u)
               /\ n # <<>>
<1>1. Zero \in Entry  BY Constants
<1>2. <<".">> \in Name /\ <<".", ".">> \in Name  BY InputAssumption DEF Name
<1>3. <<".">> # <<>> /\ <<".", ".">> # <<>>  OBVIOUS
<1> QED
  BY <1>1, <1>2, <1>3
  DEF DotUnit, DotNames, Zero, Unit, Entry, IsFile, IsDir, Owns, Vacant, FreeSlot

\* mkdir's end in the directory that it has made.
LEMMA DottedIs ==
  ASSUME NEW e \in [DirSlots -> Unit], \A s \in DirSlots : e[s] = Zero, DirSize > 1, NEW c
  PROVE  /\ DOMAIN Dotted(e, 1, c) = DirSlots
         /\ Dotted(e, 1, c)[1] = DotUnit(<<".">>)
         /\ Dotted(e, 1, c)[2] = DotUnit(<<".", ".">>)
         /\ \A s \in DirSlots \ {1, 2} : Dotted(e, 1, c)[s] = Zero
<1>1. 1 \in DirSlots /\ 1 + 1 \in DirSlots /\ 1 + 1 = 2  BY Sizes
<1> DEFINE one == Become(e[1], <<".">>, c)
           two == Become(e[1 + 1], <<".", ".">>, c)
<1>2. Dotted(e, 1, c) = [e EXCEPT ![1] = one, ![1 + 1] = two]  BY <1>1 DEF Dotted, Become
<1>3. one = DotUnit(<<".">>) /\ two = DotUnit(<<".", ".">>)
  <2>1. Zero.kind = "entry"  BY DEF Zero
  <2>2. e[1] = Zero /\ e[1 + 1] = Zero  BY <1>1
  <2> QED  BY <2>1, <2>2 DEF Become, DotUnit
<1> HIDE DEF one, two
<1>4. Dotted(e, 1, c) = [e EXCEPT ![1] = one, ![2] = two] /\ 2 \in DirSlots  BY <1>1, <1>2
<1> HIDE DEF DirSlots
<1>5. /\ DOMAIN Dotted(e, 1, c) = DirSlots
      /\ Dotted(e, 1, c)[1] = one /\ Dotted(e, 1, c)[2] = two
      /\ \A s \in DirSlots \ {1, 2} : Dotted(e, 1, c)[s] = e[s]
  BY <1>1, <1>4
<1> QED  BY <1>3, <1>5

LEMMA MkdirEnds ==
  ASSUME TypeInv, DotsInv, DirSize > 1, mkdirOpened
  PROVE  /\ ret # 0 => Prompt /\ UNCHANGED disk
         /\ ret = 0 => /\ NewDir(fp.rde.cluster)
                       /\ \/ Prompt /\ (disk' \in Disk => DotsPut(fp.rde.cluster))
                          \/ Wild /\ UNCHANGED shell /\ fp.rde.cluster >= DiskClusters
<1>1. CASE ret # 0  BY <1>1 DEF mkdirOpened
<1>2. CASE ret = 0
  <2> DEFINE k == fp.rde.cluster
  <2>1. NewUnit(disk, fat, fp.rde, StoredName(path), TRUE) /\ StoredName(path) \notin DotNames
    BY <1>2 DEF mkdirOpened, Back, DotsInv, OpensDir
  <2>2. NewDir(k)  BY <2>1, MadeIsNewDir
  <2>0. CASE Wild /\ UNCHANGED shell /\ k >= DiskClusters  BY <1>2, <2>0, <2>2
  <2>3. k \in Clusters /\ k >= 2 /\ k # 0  BY <2>2 DEF NewDir
  <2>4. DirBase(k) = ClusterBase(k) /\ disk \in Disk
    BY <2>3 DEF DirBase, TypeInv, TypeOK, Disk
  <2>5. Garbage(k) = {Nulls}  BY <2>3 DEF Garbage
  <2> DEFINE e == Entries(disk, k)
  <2>6. readFromCluster(disk, k, Nulls) = e  BY <2>3, ReadEntries
  <2>7. \A s \in DirSlots : e[s] = Zero  BY <2>2, <2>4 DEF NewDir, Entries
  <2>8. e \in [DirSlots -> Unit]  BY <2>7, Constants DEF Entries
  <2> HIDE DEF e
  <2> DEFINE first == Scan({s \in DirSlots : NulSlot(e[s])})
  <2>9. first = {1}
    <3>1. {s \in DirSlots : NulSlot(e[s])} = DirSlots  BY <2>7 DEF NulSlot, FreeSlot, Zero
    <3>2. Scan(DirSlots) = {1}  BY Sizes DEF Scan
    <3> QED  BY <3>1, <3>2
  <2>10. \E s \in first : s < DirSize  BY <2>9, Sizes
  <2> HIDE DEF first
  <2> SUFFICES ASSUME ~(Wild /\ UNCHANGED shell /\ k >= DiskClusters)
               PROVE  NewDir(k) /\ Prompt /\ (disk' \in Disk => DotsPut(k))
    BY <1>2, <2>0
  <2>11. PICK c \in Clusters :
           /\ \E s \in first : disk' = writeDataEntries(disk, k, Dotted(e, s, c))
           /\ Prompt
    <3>1. \/ Wild /\ UNCHANGED shell /\ k >= DiskClusters
          \/ \E c \in Clusters :
               \/ /\ \E s \in first : disk' = writeDataEntries(disk, k, Dotted(e, s, c))
                  /\ Prompt
               \/ ~\E s \in first : s < DirSize
      BY <1>2, <2>5, <2>6 DEF mkdirOpened, first
    <3> QED  BY <2>10, <3>1
  <2>12. disk' = writeDataEntries(disk, k, Dotted(e, 1, c))  BY <2>9, <2>11
  <2> DEFINE w == Dotted(e, 1, c)
  <2>13. /\ DOMAIN w = DirSlots /\ w[1] = DotUnit(<<".">>) /\ w[2] = DotUnit(<<".", ".">>)
         /\ \A s \in DirSlots \ {1, 2} : w[s] = Zero
    BY <2>7, <2>8, DottedIs
  <2> HIDE DEF w
  <2>14. disk' = [a \in Addr |-> IF a - ClusterBase(k) \in DirSlots THEN w[a - ClusterBase(k)]
                                 ELSE disk[a]]
    BY <2>4, <2>12, <2>13 DEF w, writeDataEntries, Overwrite
  <2> DEFINE b == ClusterBase(k)
  <2>15. b \in Int /\ \A s \in DirSlots : b + s \in Addr  BY <2>3, <2>4, ClusterOnDisk
  <2>16. \A s \in DirSlots : disk[b + s] = Zero  BY <2>2 DEF NewDir
  <2> HIDE DEF b, k
  <2>17. \A s \in DirSlots : disk'[b + s] = w[s]
    <3> SUFFICES ASSUME NEW s \in DirSlots
                 PROVE  disk'[b + s] = w[s]
      OBVIOUS
    <3>1. b + s \in Addr /\ (b + s) - b = s  BY <2>15, Sizes
    <3> QED  BY <2>14, <3>1 DEF b
  <2>18. ASSUME NEW a \in Addr, a # b + 1, a # b + 2
         PROVE  disk'[a] = disk[a]
    <3>1. CASE a - b \in DirSlots
      <4>1. a - b \in DirSlots \ {1, 2} /\ b + (a - b) = a  BY <2>15, <2>18, <3>1, Sizes
      <4> QED  BY <2>13, <2>16, <2>17, <4>1
    <3>2. CASE a - b \notin DirSlots  BY <2>14, <3>2 DEF b
    <3> QED  BY <3>1, <3>2
  <2>19. 1 \in DirSlots /\ 2 \in DirSlots  BY Sizes
  <2>20. fat' = fat  BY <2>11 DEF Prompt
  <2>21. disk' \in Disk => DotsPut(k)  BY <2>13, <2>17, <2>18, <2>19, <2>20 DEF DotsPut, b
  <2> QED  BY <2>2, <2>11, <2>21
<1> QED  BY <1>1, <1>2

\* No other unit changes, and none that was in use.
LEMMA DotsWhere ==
  ASSUME NewDir(fp.rde.cluster), DotsPut(fp.rde.cluster), DirSize > 1
  PROVE  /\ \A c \in Clusters \ {1}, s \in DirSlots :
              c # fp.rde.cluster => disk'[DirBase(c) + s] = disk[DirBase(c) + s]
         /\ \A a \in Addr :
              \/ disk'[a] = disk[a]
              \/ disk[a] = Zero /\ \E n \in DotNames : disk'[a] = DotUnit(n)
<1> DEFINE k == fp.rde.cluster
<1>1. k \in Clusters \ {1} /\ k # 0 /\ 1 \in DirSlots /\ 2 \in DirSlots  BY Sizes DEF NewDir
<1>2. DirBase(k) = ClusterBase(k)  BY <1>1 DEF DirBase
<1>3. /\ \A s \in DirSlots : disk[DirBase(k) + s] = Zero
      /\ disk'[DirBase(k) + 1] = DotUnit(<<".">>)
      /\ disk'[DirBase(k) + 2] = DotUnit(<<".", ".">>)
      /\ \A a \in Addr : a # DirBase(k) + 1 /\ a # DirBase(k) + 2 => disk'[a] = disk[a]
  BY <1>2 DEF NewDir, DotsPut
<1> HIDE DEF k
<1>4. ASSUME NEW c \in Clusters \ {1}, NEW s \in DirSlots, c # k
      PROVE  disk'[DirBase(c) + s] = disk[DirBase(c) + s]
  <2>1. DirBase(c) + s # DirBase(k) + 1 /\ DirBase(c) + s # DirBase(k) + 2
    BY <1>1, <1>4, SameSlot
  <2>2. DirBase(c) + s \in Addr  BY ClusterOnDisk
  <2> QED  BY <1>3, <2>1, <2>2
<1>5. ASSUME NEW a \in Addr
      PROVE  \/ disk'[a] = disk[a]
             \/ disk[a] = Zero /\ \E n \in DotNames : disk'[a] = DotUnit(n)
  <2>1. <<".">> \in DotNames /\ <<".", ".">> \in DotNames  BY DEF DotNames
  <2> QED  BY <1>1, <1>3, <2>1
<1> QED  BY <1>4, <1>5 DEF k

\* Files and directories are what they were, and so is what a scan can come upon.
LEMMA DotsKinds ==
  ASSUME TypedInput, NewDir(fp.rde.cluster), DotsPut(fp.rde.cluster), DirSize > 1,
         NEW a \in Addr
  PROVE  /\ IsFile(disk'[a]) \/ IsDir(disk'[a]) \/ Owns(disk'[a]) => disk'[a] = disk[a]
         /\ IsFile(disk[a]) \/ IsDir(disk[a]) \/ ~FreeSlot(disk[a]) => disk'[a] = disk[a]
<1>1. CASE disk'[a] = disk[a]  BY <1>1
<1>2. CASE disk[a] = Zero /\ \E n \in DotNames : disk'[a] = DotUnit(n)
  <2>1. ~IsFile(disk'[a]) /\ ~IsDir(disk'[a]) /\ ~Owns(disk'[a])  BY <1>2, DotUnits
  <2>2. ~IsFile(Zero) /\ ~IsDir(Zero) /\ FreeSlot(Zero)
    BY DEF Zero, IsFile, IsDir, FreeSlot
  <2> QED  BY <1>2, <2>1, <2>2
<1> QED  BY <1>1, <1>2, DotsWhere

LEMMA DotsFiles ==
  ASSUME TypedInput, TypeInv, FilesInv, DirSize > 1, pc = "idle", Prompt,
         NewDir(fp.rde.cluster), DotsPut(fp.rde.cluster)
  PROVE  FilesInv'
<1> DEFINE k == fp.rde.cluster
<1>1. /\ UNCHANGED <<fat, fatTable, rootDir, dataEntries>> /\ fp' = NoFile
      /\ pc' = "idle" /\ op' = "none"
  BY DEF Prompt, caches
<1>2. ~FileHandle'  BY <1>1 DEF FileHandle
<1>3. k \in Clusters /\ k >= 2 /\ k # 0 /\ fat[k] # 0  BY EocIsNotFree DEF NewDir
<1>4. /\ fat[0] = EOC /\ \A a \in Addr : Backed(disk[a], fat) /\ FileApart(disk[a], disk)
      /\ \A a \in Addr : Vacant(disk[a])
      /\ fat[1] = EOC
  BY DEF FilesInv, OwnershipInv, StorageSound, Sound, TidyInv, TidyVolume, OpenInv, FirstInv,
    BlankInv
<1>5. ASSUME NEW a \in Addr
      PROVE  Backed(disk'[a], fat) /\ Vacant(disk'[a])
  <2>1. CASE disk'[a] = disk[a]  BY <1>4, <2>1
  <2>2. ASSUME NEW n \in DotNames, disk'[a] = DotUnit(n)
        PROVE  Backed(disk'[a], fat) /\ Vacant(disk'[a])
    <3>1. /\ disk'[a].cluster = 0 /\ disk'[a].attr = "dir" /\ ~FreeSlot(disk'[a])
          /\ Vacant(disk'[a])
      BY <2>2, DotUnits
    <3> QED  BY <1>4, <3>1, EocIsNotFree DEF Backed
  <2> QED  BY <2>1, <2>2, DotsWhere
<1>6. Distinct(disk')
  <2>1. \A a \in Kept : a \in Addr  BY DEF Kept
  <2>2. Distinct(disk)  BY DEF FilesInv, OwnershipInv, StorageSound, Sound
  <2>3. \A a \in Kept : Owns(disk'[a]) => disk'[a] = disk[a]  BY <2>1, DotsKinds
  <2> QED  BY <2>2, <2>3 DEF Distinct
<1>7. LoadRoot(disk') = LoadRoot(disk)
  <2>1. ASSUME NEW s \in Slots
        PROVE  disk'[s - RootSize] = disk[s - RootSize]
    <3>1. 1 \in DirSlots /\ 2 \in DirSlots  BY Sizes
    <3>2. ClusterBase(k) + 1 >= 1 /\ ClusterBase(k) + 2 >= 1  BY <1>3, <3>1, DataUnits
    <3>3. s - RootSize \in Addr /\ s - RootSize < 1  BY Sizes
    <3> HIDE DEF k
    <3>4. s - RootSize # ClusterBase(k) + 1 /\ s - RootSize # ClusterBase(k) + 2
      <4>1. ClusterBase(k) + 1 \in Int /\ ClusterBase(k) + 2 \in Int  BY <1>3, ClusterOnDisk
      <4> QED  BY <3>2, <3>3, <4>1
    <3> QED  BY <3>3, <3>4 DEF DotsPut, k
  <2> QED  BY <2>1 DEF LoadRoot
<1>8. OwnershipInv'
  <2>1. Backed(Zero, fat)  BY <1>4, EocIsNotFree DEF Backed, Zero
  <2>2. HandleSound(NoFile, fat)  BY <2>1 DEF HandleSound, NoFile, Zero
  <2>3. Sound(disk', fat)  BY <1>4, <1>5, <1>6 DEF Sound
  <2>4. fatTable = fat /\ rootDir = LoadRoot(disk) /\ WindowSound(dataEntries, fat)
    BY DEF FilesInv, OwnershipInv, StorageSound
  <2>5. StorageSound'  BY <1>1, <1>7, <2>3, <2>4 DEF StorageSound
  <2> QED  BY <1>1, <2>2, <2>5 DEF OwnershipInv, CallSound
<1>9. OpenInv'
  <2>1. \A s \in Window : Vacant(dataEntries[s])
    BY DEF FilesInv, OpenInv, FirstInv, BlankInv
  <2> QED  BY <1>1, <1>2, <1>5, <2>1 DEF OpenInv, FirstInv, BlankInv
<1>10. ASSUME NEW u, IsFile(u), FileApart(u, disk)
       PROVE  u.cluster # k
  BY <1>10 DEF FileApart, NewDir
<1>11. ASSUME NEW c \in Clusters, c >= 2, c # k
       PROVE  \A s \in DirSlots : disk'[ClusterBase(c) + s] = disk[ClusterBase(c) + s]
  <2>1. c \in Clusters \ {1} /\ DirBase(c) = ClusterBase(c)  BY <1>11 DEF DirBase
  <2> QED  BY <1>11, <2>1, DotsWhere
<1>12. ASSUME NEW u, FileApart(u, disk), u.cluster \in Clusters
       PROVE  FileApart(u, disk')
  <2> SUFFICES ASSUME IsFile(u)
               PROVE  FileApart(u, disk')
    BY DEF FileApart
  <2>1. u.cluster # k /\ u.cluster >= 2 /\ Bare(disk, u.cluster)
    BY <1>10, <1>12 DEF FileApart
  <2>2. Bare(disk', u.cluster)  BY <1>11, <1>12, <2>1 DEF Bare
  <2>3. \A a \in Addr : IsDir(disk'[a]) => IsDir(disk[a]) /\ disk'[a].cluster = disk[a].cluster
    BY DotsKinds
  <2> QED  BY <1>12, <2>1, <2>2, <2>3 DEF FileApart
<1>13. \A a \in Addr : IsFile(disk[a]) => disk[a].cluster \in Clusters
  <2>1. \A a \in Addr : disk[a] \in Unit  BY DEF TypeInv, TypeOK
  <2> QED  BY <2>1 DEF IsFile, Unit, Entry, Text
<1>14. TidyVolume(disk', fat)
  <2>1. ASSUME NEW a \in Addr
        PROVE  FileApart(disk'[a], disk')
    <3>1. CASE IsFile(disk'[a])
      <4>1. disk'[a] = disk[a]  BY <3>1, DotsKinds
      <4> QED  BY <1>4, <1>12, <1>13, <3>1, <4>1
    <3> QED  BY <3>1 DEF FileApart
  <2>2. ASSUME NEW c \in Clusters, fat[c] = 0
        PROVE  Bare(disk', c)
    <3>1. c >= 2 /\ c # k  BY <1>3, <1>4, <2>2, EocIsNotFree, Sizes
    <3>2. Bare(disk, c)  BY <2>2 DEF FilesInv, TidyInv, TidyVolume
    <3> QED  BY <1>11, <3>1, <3>2 DEF Bare
  <2> QED  BY <1>4, <2>1, <2>2 DEF TidyVolume
<1>15. \A s \in Window : FileApart(dataEntries[s], disk')
  <2> SUFFICES ASSUME NEW s \in Window, IsFile(dataEntries[s])
               PROVE  FileApart(dataEntries[s], disk')
    BY DEF FileApart
  <2>1. dataEntries[s] \in Unit  BY DEF TypeInv, TypeOK
  <2>2. dataEntries[s].cluster \in Clusters  BY <2>1 DEF IsFile, Unit, Entry, Text
  <2>3. FileApart(dataEntries[s], disk)  BY DEF FilesInv, TidyInv
  <2> QED  BY <1>12, <2>2, <2>3
<1>16. TidyInv' /\ HeldInv'  BY <1>1, <1>2, <1>14, <1>15 DEF TidyInv, HeldInv
<1>17. WholeFiles(disk')
  <2> SUFFICES ASSUME NEW a \in Kept, IsFile(disk'[a]), disk'[a].size > 0
               PROVE  Whole(disk', disk'[a])
    BY DEF WholeFiles
  <2>1. a \in Addr /\ disk'[a] = disk[a]  BY DotsKinds DEF Kept
  <2>2. Whole(disk, disk[a])  BY <2>1 DEF FilesInv, DiskWhole, WholeFiles
  <2>3. disk[a].cluster \in Clusters /\ disk[a].cluster >= 2 /\ disk[a].cluster # k
    BY <1>4, <1>10, <1>13, <2>1 DEF FileApart
  <2> QED  BY <1>11, <2>1, <2>2, <2>3, WholeStays
<1>18. ASSUME NEW a \in Kept, IsFile(disk'[a]), disk'[a].size > 0
       PROVE  fat[disk'[a].cluster] = EOC
  <2>1. disk'[a] = disk[a]  BY <1>18, DotsKinds DEF Kept
  <2> QED  BY <1>18, <2>1 DEF FilesInv, DiskEnded, EndedFiles
<1>19. DiskEnded'
  <2>1. fat' = fat  BY DEF DotsPut
  <2>2. EndedFiles(disk', fat)  BY <1>18 DEF EndedFiles
  <2> QED  BY <2>1, <2>2 DEF DiskEnded, EndedFiles, IsFile
<1> QED  BY <1>8, <1>9, <1>16, <1>17, <1>19 DEF FilesInv, DiskWhole

LEMMA DotsTidy ==
  ASSUME TypedInput, TypeInv, DirSize > 1, Packed(disk), Clean(disk, fat),
         NewDir(fp.rde.cluster), DotsPut(fp.rde.cluster)
  PROVE  Packed(disk') /\ Clean(disk', fat')
<1> DEFINE k == fp.rde.cluster
<1>1. k \in Clusters \ {1} /\ k # 0 /\ fat[k] # 0 /\ fat' = fat
  BY EocIsNotFree DEF NewDir, DotsPut
<1>2. DirBase(k) = ClusterBase(k)  BY <1>1 DEF DirBase
<1>3. ASSUME NEW c \in Clusters \ {1}, NEW x \in DirSlots, NEW s \in DirSlots,
             x < s, c = 0 => s <= RootRead, FreeSlot(disk'[DirBase(c) + x])
      PROVE  ~Used(disk'[DirBase(c) + s])
  <2>1. CASE c # k
    <3>1. /\ disk'[DirBase(c) + s] = disk[DirBase(c) + s]
          /\ disk'[DirBase(c) + x] = disk[DirBase(c) + x]
      BY <2>1, DotsWhere
    <3> QED  BY <1>3, <3>1 DEF Packed
  <2>2. CASE c = k
    <3>1. /\ disk'[DirBase(k) + 1] = DotUnit(<<".">>)
          /\ disk'[DirBase(k) + 2] = DotUnit(<<".", ".">>)
      BY <1>2 DEF DotsPut
    <3>2. <<".">> \in DotNames /\ <<".", ".">> \in DotNames  BY DEF DotNames
    <3>3. ~FreeSlot(disk'[DirBase(k) + 1]) /\ ~FreeSlot(disk'[DirBase(k) + 2])
      BY <3>1, <3>2, DotUnits
    <3>4. x # 1 /\ x # 2  BY <1>3, <2>2, <3>3
    <3>5. s # 1 /\ s # 2  BY <1>3, <3>4, Sizes
    <3>6. DirBase(k) + s # DirBase(k) + 1 /\ DirBase(k) + s # DirBase(k) + 2
      <4>1. 1 \in DirSlots /\ 2 \in DirSlots  BY Sizes
      <4> QED  BY <1>1, <3>5, <4>1, SameSlot
    <3>7. DirBase(k) + s \in Addr /\ disk[DirBase(k) + s] = Zero
      BY <1>1, <1>2, ClusterOnDisk DEF NewDir
    <3>8. disk'[DirBase(k) + s] = Zero  BY <1>2, <3>6, <3>7 DEF DotsPut
    <3> QED  BY <2>2, <3>8 DEF Used, Zero
  <2> QED  BY <2>1, <2>2
<1>4. ASSUME NEW c \in Clusters \ {0, 1}, fat[c] = 0, NEW s \in DirSlots
      PROVE  disk'[ClusterBase(c) + s] = Zero
  <2>1. c # k /\ c \in Clusters \ {1} /\ DirBase(c) = ClusterBase(c)
    BY <1>1, <1>4 DEF DirBase
  <2>2. disk'[DirBase(c) + s] = disk[DirBase(c) + s]  BY <2>1, DotsWhere
  <2> QED  BY <1>4, <2>1, <2>2 DEF Clean
<1> HIDE DEF k
<1>5. Packed(disk')  BY <1>3 DEF Packed
<1>6. Clean(disk', fat')  BY <1>1, <1>4 DEF Clean
<1> QED  BY <1>5, <1>6

LEMMA DotsGrown ==
  ASSUME TypedInput, TypeInv, DirSize > 1, NewDir(fp.rde.cluster), DotsPut(fp.rde.cluster)
  PROVE  Grown
<1>1. ASSUME NEW c \in Clusters
      PROVE  StaysIn(c)
  <2>1. \A s \in DirSlots : DirBase(c) + s \in Addr  BY ClusterOnDisk
  <2>2. \A s \in DirSlots :
          ~FreeSlot(disk[DirBase(c) + s]) => disk'[DirBase(c) + s] = disk[DirBase(c) + s]
    BY <2>1, DotsKinds
  <2> QED  BY <2>2 DEF StaysIn, Resized
<1>2. ASSUME NEW c \in Clusters, Safe(disk, fat, c)
      PROVE  Safe(disk', fat', c)
  <2>1. fat' = fat  BY DEF DotsPut
  <2>2. \A a \in Kept : IsFile(disk'[a]) => disk'[a] = disk[a]  BY DotsKinds DEF Kept
  <2> QED  BY <1>2, <2>1, <2>2 DEF Safe
<1>3. 0 \in Clusters  BY Sizes, SizeAssumption
<1> QED  BY <1>1, <1>2, <1>3 DEF Grown

(***************************************************************************)
(* The invariant of the shell                                              *)
(***************************************************************************)

CallsInv == WalkInv /\ OpenedInv /\ MadeInv
ShellInv == FilesInv /\ Packed(disk) /\ Clean(disk, fat) /\ CallsInv /\ DotsInv

\* The callers are in order: with their volume, and in the names they give.
InOrder == Orderly /\ NamesGiven

LEMMA ShellInvInit ==
  ASSUME SoundImages, BlankImages, TidyImages, WholeImages, PackedImages, CleanImages, ShellInit
  PROVE  ShellInv
<1>1. Init  BY DEF ShellInit
<1>2. FilesInv  BY <1>1, FilesInit
<1>3. Packed(disk) /\ Clean(disk, fat)  BY <1>1 DEF Init, PackedImages, CleanImages
<1>4. CallsInv  BY <1>1 DEF Init, CallsInv, WalkInv, OpenedInv, MadeInv, Returned
<1>5. DotsInv  BY DEF ShellInit, DotsInv
<1> QED  BY <1>2, <1>3, <1>4, <1>5 DEF ShellInv

\* Between commands nothing is called.
LEMMA CallsRest ==
  ASSUME TypeInv, CallsInv, pc = "idle", Prompt \/ Wild
  PROVE  CallsInv'
<1>1. pc' = "fault" \/ (pc' = "idle" /\ op' = "none")  BY DEF Prompt, Wild, Fault
<1> QED  BY <1>1 DEF CallsInv, WalkInv, OpenedInv, MadeInv, Returned, Idle

LEMMA ShellInvStep ==
  ASSUME TypedInput, TypedTexts, ShortTexts, ShortArguments, DirSize > 1,
         ShellTypes, TypeInv, TypeInv', InOrder, InOrder', ShellInv, [ShellNext]_shellVars
  PROVE  ShellInv'
<1>0. Named'  BY DEF InOrder, NamesGiven, Named
<1>1. DotsInv'  BY <1>0, DotsStep DEF ShellInv, CallsInv, InOrder
<1>2. CASE [AnyNext]_vars
  <2>1. Named' /\ Orderly /\ Orderly' /\ WellBehaved'
    BY <1>0 DEF InOrder, Orderly
  <2>2. FilesInv'  BY <1>2, <2>1, OrderlySingle, FilesStep DEF ShellInv
  <2>3. Packed(disk')  BY <1>2, <2>1, PackedStep DEF ShellInv
  <2>4. Clean(disk', fat')  BY <1>2, <2>1, CleanStep DEF ShellInv
  <2>5. WalkInv' /\ OpenedInv'  BY <1>2, <2>1, WalkStep, OpenedStep DEF ShellInv, CallsInv
  <2>6. MadeInv'  BY <1>2, <2>1, MadeStep DEF ShellInv, CallsInv, InOrder
  <2> QED  BY <1>1, <2>2, <2>3, <2>4, <2>5, <2>6 DEF ShellInv, CallsInv
<1>3. CASE pc = "idle" /\ ((Prompt /\ UNCHANGED disk) \/ Wild)
  <2>1. UNCHANGED <<disk, fat>>  BY <1>3 DEF Prompt, Wild, storage
  <2>2. FilesInv' /\ CallsInv'  BY <1>3, FilesRest, CallsRest DEF ShellInv
  <2> QED  BY <1>1, <2>1, <2>2 DEF ShellInv
<1>4. CASE pc = "idle" /\ Prompt /\ NewDir(fp.rde.cluster) /\ DotsPut(fp.rde.cluster)
  BY <1>1, <1>4, DotsFiles, DotsTidy, CallsRest DEF ShellInv
<1>5. CASE pc = "idle" /\ mkdirOpened
  <2>1. disk' \in Disk  BY DEF TypeInv, TypeOK, Disk
  <2>2. DotsInv  BY DEF ShellInv
  <2> QED  BY <1>3, <1>4, <1>5, <2>1, <2>2, MkdirEnds
<1>6. CASE pc = "idle" /\ lsAstray
  <2>1. Wild  BY <1>6 DEF lsAstray
  <2> QED  BY <1>3, <1>6, <2>1
<1> QED  BY <1>2, <1>3, <1>5, <1>6, ShellKinds

LEMMA ShellInvHolds ==
  ASSUME TypedInput, TypedTexts, ShortTexts, ShortArguments, DirSize > 1,
         SoundImages, BlankImages, TidyImages, WholeImages, PackedImages, CleanImages
  PROVE  ShellSpec /\ []InOrder => []ShellInv
<1>1. ShellInit => ShellInv  BY ShellInvInit
<1>2. /\ TypeInv /\ TypeInv' /\ ShellTypes /\ ShellInv /\ InOrder /\ InOrder'
      /\ [ShellNext]_shellVars
      => ShellInv'
  BY ShellInvStep
<1> QED  BY <1>1, <1>2, ShellTypesHold, PTL DEF ShellSpec

\* No command spoils a file it was not given: under the shell every file holds one
\* whole text of the length its entry has, whatever was typed before (command.c:300, fat.c:698).
THEOREM FilesKeptByShell ==
  ASSUME TypedInput, TypedTexts, ShortTexts, ShortArguments, DirSize > 1,
         SoundImages, BlankImages, TidyImages, WholeImages, PackedImages, CleanImages
  PROVE  ShellSpec /\ []InOrder => []ShellKeepsFiles
<1>1. ShellInv => ShellKeepsFiles  BY FilesAreIntact DEF ShellInv, ShellKeepsFiles
<1> QED  BY <1>1, ShellInvHolds, PTL

(***************************************************************************)
(* Wild pointers                                                           *)
(***************************************************************************)

LEMMA CountNext ==
  ASSUME NEW n \in Nat, NEW S, S \subseteq 1..n, NEW k \in 1..n
  PROVE  /\ k \in S => Count(S, k) = Count(S, k - 1) + 1
         /\ k \notin S => Count(S, k) = Count(S, k - 1)
<1> HIDE DEF Upto
<1>1. CASE k \in S
  <2>1. Cardinality(Upto(S, k)) = Cardinality(Upto(S, k - 1)) + 1  BY <1>1, UptoNext
  <2> QED  BY <1>1, <2>1 DEF Count
<1>2. CASE k \notin S
  <2>1. Upto(S, k) = Upto(S, k - 1)
    <3>1. ASSUME NEW m \in S
          PROVE  m <= k <=> m <= k - 1
      <4>1. m \in 1..n /\ m # k  BY <1>2
      <4> QED  BY <4>1
    <3> QED  BY <3>1 DEF Upto
  <2> QED  BY <1>2, <2>1 DEF Count
<1> QED  BY <1>1, <1>2

\* bufferToArgs writes beyond its rows on a line with as many blanks as there are
\* rows, if not on fewer: each round counts one row more at a blank alone.
LEMMA WildLine ==
  ASSUME NEW b \in Buffers, NEW list \in ArgList, Scanned(b, list).wild
  PROVE  numberArguments(b) >= NumArgs
<1> DEFINE n == strlen(b)
           B == {k \in 1..n : b[k] = Blank}
<1>1. n \in Nat /\ n <= LineLength /\ NumArgs \in Nat  BY StrlenIs, LineSizes
<1>2. PICK f \in [0..n -> ScanState] :
        /\ f[0] = Started(list) /\ Scanned(b, list) = f[n]
        /\ \A k \in 1..n : f[k] = Consumed(f[k - 1], b[k])
  BY ScanLoop
<1>3. numberArguments(b) = Cardinality(B)  BY DEF numberArguments
<1> HIDE DEF n
<1>4. B \subseteq 1..n  OBVIOUS
<1>5. \A k \in 0..n : Count(B, k) \in Nat  BY <1>1, <1>4, UptoCount DEF Count
<1>6. Count(B, 0) = 0  BY <1>1, <1>4, UptoNone DEF Count
<1>7. \A k \in 1..n : Count(B, k) = Count(B, k - 1) + (IF b[k] = Blank THEN 1 ELSE 0)
  <2>1. \A k \in 1..n : k \in B <=> b[k] = Blank  OBVIOUS
  <2> HIDE DEF B
  <2>2. ASSUME NEW k \in 1..n
        PROVE  Count(B, k) = Count(B, k - 1) + (IF k \in B THEN 1 ELSE 0)
    <3>1. k \in B => Count(B, k) = Count(B, k - 1) + 1  BY <1>1, <1>4, CountNext
    <3>2. k \notin B => Count(B, k) = Count(B, k - 1)  BY <1>1, <1>4, CountNext
    <3>3. Count(B, k - 1) \in Nat  BY <1>1, <1>5
    <3> QED  BY <3>1, <3>2, <3>3
  <2> QED  BY <2>1, <2>2
<1> DEFINE Bounded(k) == /\ f[k].count <= 1 + Count(B, k)
                         /\ f[k].wild => Count(B, k) >= NumArgs
           T == {k \in 0..n : Bounded(k)}
<1> HIDE DEF B
<1>8. 0 \in T  BY <1>1, <1>2, <1>6 DEF Started
<1>9. ASSUME NEW k \in 1..n, k - 1 \in T
      PROVE  k \in T
  <2> DEFINE s == f[k - 1]
             x == Count(B, k - 1)
             y == Count(B, k)
  <2>1. k - 1 \in 0..n /\ k \in 0..n  BY <1>1
  <2>2. s \in ScanState /\ f[k] = Consumed(s, b[k])  BY <1>2, <2>1
  <2>3. s.count <= 1 + x /\ (s.wild => x >= NumArgs)  BY <1>9
  <2>4. x \in Nat /\ y \in Nat /\ y = x + (IF b[k] = Blank THEN 1 ELSE 0)
    BY <1>5, <1>7, <2>1
  <2>5. s.count \in Nat  BY <2>2 DEF ScanState
  <2> HIDE DEF s, x, y
  <2>6. f[k].count <= 1 + y /\ (f[k].wild => y >= NumArgs)
    <3>1. CASE b[k] = Blank /\ ~s.quotes
      <4>1. f[k].count = s.count + 1 /\ f[k].wild = s.wild
        BY <2>2, <3>1, ConsumedIs DEF State
      <4> QED  BY <1>1, <2>3, <2>4, <2>5, <3>1, <4>1
    <3>2. CASE ~(b[k] = Blank /\ ~s.quotes)
      <4>1. /\ f[k].count = s.count
            /\ f[k].wild => s.wild \/ BeyondRows(s.count)
        BY <2>2, <3>2, ConsumedIs DEF State
      <4>2. BeyondRows(s.count) => x >= NumArgs  BY <1>1, <2>3, <2>4, <2>5 DEF BeyondRows
      <4> QED  BY <1>1, <2>3, <2>4, <2>5, <4>1, <4>2
    <3> QED  BY <3>1, <3>2
  <2> QED  BY <2>1, <2>6 DEF y
<1> HIDE DEF T
<1>10. 0..n \subseteq T  BY <1>1, <1>8, <1>9, LoopKeeps
<1>11. Count(B, n) >= NumArgs  BY <1>1, <1>2, <1>10 DEF T, n
<1>12. Upto(B, n) = B  BY <1>1, <1>4, UptoAll
<1> QED  BY <1>3, <1>11, <1>12 DEF Count, B

\* The kernel goes wild on a line too long for the buffer or with too many blanks,
\* where the root directory has no room, on what does not fit, and behind the disk.
WildInv ==
  pc = "fault" =>
    \/ Unterminated(buffer) \/ numberArguments(buffer) >= NumArgs
    \/ op = "fatCreate" /\ \A s \in Slots : ~FreeSlot(rootDir[s])
    \/ Unfit \/ OffDisk \/ fp.rde.cluster >= DiskClusters
LsInv == at = "ls" => op = "fatOpen"

LEMMA LsStep ==
  ASSUME LsInv, [ShellNext]_shellVars
  PROVE  LsInv'
<1>1. CASE UNCHANGED shellVars  BY <1>1 DEF shellVars, vars, args, shell, terminal, LsInv
<1>2. CASE FatStep  BY <1>2, StepsGoOn DEF FatStep, args, shell, terminal, LsInv
<1>3. CASE ReadLine  BY <1>3 DEF ReadLine, LsInv
<1>4. CASE ls
  <2>1. PICK p : fatOpen(p)  BY <1>4 DEF ls
  <2> QED  BY <2>1, ScanStops DEF fatOpen, fatOpenRoot, fatOpenPath, Begin, LsInv
<1>5. CASE Commands /\ ~ls
  <2>1. at' # "ls" \/ mkdirOpened \/ lsAstray
    BY <1>5 DEF Commands, PrintOnly, Finished, touch, cdRoot, cd, cdOpened, cat, catOpened, lsRoot,
      lsOpened, mkdirNothing, mkdir, mkdirCreated, echo, echoOpened, Prompt, Goes, Prints
  <2>2. mkdirOpened => at' # "ls"  BY DEF mkdirOpened, Back, Prompt, shell
  <2>3. lsAstray => (at' = "ls" => at = "ls") /\ op' = op
    BY DEF lsAstray, Wild, args, Running, Back, shell, terminal
  <2> QED  BY <2>1, <2>2, <2>3 DEF LsInv
<1> QED  BY <1>1, <1>2, <1>3, <1>4, <1>5 DEF ShellNext

\* The entry that was opened is one of the disk's.
LEMMA OpenedOnDisk ==
  ASSUME TypeInv, OpenedInv, Returned("fatOpen", 0)
  PROVE  \E a \in Addr : fp.rde = disk[a]
<1>1. OpenedAt(disk, fat, path, fp.rde)  BY DEF OpenedInv
<1>2. ASSUME NEW s \in FoundInRoot(LoadRoot(disk), path.names[1]), fp.rde = LoadRoot(disk)[s]
      PROVE  \E a \in Addr : fp.rde = disk[a]
  <2>1. s \in Slots  BY DEF FoundInRoot, Scan
  <2>2. s - RootSize \in Addr  BY <2>1, Sizes
  <2> QED  BY <1>2, <2>1, <2>2 DEF LoadRoot
<1>3. ASSUME NEW c \in Clusters, NEW n, NEW s \in FoundInDir(Entries(disk, c), n),
             fp.rde = Entries(disk, c)[s]
      PROVE  \E a \in Addr : fp.rde = disk[a]
  <2>1. s \in DirSlots  BY DEF FoundInDir, Scan
  <2> QED  BY <1>3, <2>1, SlotAddress DEF Entries
<1> QED  BY <1>1, <1>2, <1>3 DEF OpenedAt

LEMMA ListedAstray ==
  ASSUME TypeInv, ShellInv, LsInv, lsAstray
  PROVE  Unfit \/ fp.rde.cluster >= DiskClusters
<1>0. pc = "idle"  BY DEF lsAstray, Running, Back
<1>1. rootDir = LoadRoot(disk) /\ fp.start = fp.rde.cluster
  BY DEF ShellInv, FilesInv, OwnershipInv, StorageSound, CallSound, HandleSound
<1>2. disk \in Disk /\ fp.rde.cluster \in Clusters  BY DEF TypeInv, TypeOK, Disk, Entry
<1>3. ASSUME NEW s \in Slots, Overlong(rootDir[s]) PROVE Unfit
  <2>1. s - RootSize \in Addr  BY Sizes
  <2>2. Overlong(disk[s - RootSize])  BY <1>1, <1>3 DEF LoadRoot
  <2> QED  BY <2>1, <2>2 DEF Unfit
<1>4. ASSUME NEW s \in DirSlots, Overlong(readFromCluster(disk, fp.rde.cluster, Nulls)[s])
      PROVE  Unfit
  <2> DEFINE c == fp.rde.cluster
  <2>1. CASE c = 0 /\ s > RootRead
    <3>1. readFromCluster(disk, c, Nulls)[s] = Zero  BY <2>1 DEF readFromCluster, Nulls
    <3> QED  BY <1>4, <3>1, ZeroFits
  <2>2. CASE ~(c = 0 /\ s > RootRead)
    <3>1. readFromCluster(disk, c, Nulls)[s] = disk[DirBase(c) + s]
      BY <2>2 DEF readFromCluster
    <3>2. DirBase(c) + s \in Addr  BY <1>2, SlotAddress
    <3> QED  BY <1>4, <3>1, <3>2 DEF Unfit
  <2> QED  BY <2>1, <2>2
<1>5. CASE Running(Ls)
  <2>1. ~Back("ls")  BY <1>5 DEF Running, Back
  <2> QED  BY <1>3, <2>1 DEF lsAstray
<1>6. CASE Back("ls") /\ ret = 0
  <2>1. Returned("fatOpen", 0)  BY <1>0, <1>6 DEF LsInv, Back, Returned, Idle
  <2>2. Overlong(fp.rde) => Unfit  BY <2>1, OpenedOnDisk DEF ShellInv, CallsInv, Unfit
  <2>3. ~Running(Ls)  BY <1>6 DEF Running, Back
  <2> QED  BY <1>1, <1>4, <2>2, <2>3 DEF lsAstray
<1> QED  BY <1>5, <1>6 DEF lsAstray

LEMMA WildIsStuck ==
  ASSUME TypedTexts, ShellTypes, pc = "fault", [ShellNext]_shellVars
  PROVE  UNCHANGED shellVars
<1>1. ~ReadLine  BY DEF ReadLine
<1>2. ~Commands  BY CommandIs
<1>3. ~FatStep  BY StepsGoOn DEF FatStep
<1> QED  BY <1>1, <1>2, <1>3 DEF ShellNext

LEMMA WildLineStep ==
  ASSUME ShellTypes, ShellTypes', ReadLine, pc' = "fault"
  PROVE  Unterminated(buffer') \/ numberArguments(buffer') >= NumArgs
<1>1. Scanned(buffer', parseArguments).wild \/ Unterminated(buffer')  BY DEF ReadLine, vars
<1>2. buffer' \in Buffers /\ parseArguments \in ArgList  BY DEF ShellTypes
<1>3. Scanned(buffer', parseArguments).wild => numberArguments(buffer') >= NumArgs
  <2> SUFFICES ASSUME NEW b, b = buffer', b \in Buffers, Scanned(b, parseArguments).wild
               PROVE  numberArguments(b) >= NumArgs
    BY <1>2
  <2> QED  BY <1>2, WildLine
<1> QED  BY <1>1, <1>3

LEMMA WildStep ==
  ASSUME TypedTexts, ShortTexts, ShortArguments, DirSize > 1, TypeInv, TypeInv',
         ShellTypes, ShellTypes', ShellInv, LsInv, WildInv, [ShellNext]_shellVars
  PROVE  WildInv'
<1>1. CASE pc = "fault"
  <2>1. UNCHANGED <<pc, buffer, op, rootDir, path, disk, dataEntries, dir, cluster, fp>>
    BY <1>1, WildIsStuck DEF shellVars, vars, storage, caches, args, shell, terminal
  <2>2. Unfit' = Unfit /\ OffDisk' = OffDisk
    BY <2>1 DEF Unfit, OffDisk, Overruns, NewName, subDirectIndex
  <2> QED  BY <2>1, <2>2 DEF WildInv, Unterminated, numberArguments
<1>2. CASE ReadLine
  <2>1. pc' = "fault" => Unterminated(buffer') \/ numberArguments(buffer') >= NumArgs
    BY <1>2, WildLineStep
  <2> QED  BY <2>1 DEF WildInv, Unterminated, numberArguments
<1>3. CASE pc # "fault" /\ [AnyNext]_vars
  <2>1. ShortInv
    BY <1>3 DEF ShellInv, FilesInv, OwnershipInv, CallSound, CallsInv, WalkInv, ShortInv,
      WildOnlyAtLimits
  <2>2. WildOnlyAtLimits'  BY <1>3, <2>1, ShortNext DEF ShortInv
  <2> QED  BY <2>2 DEF WildOnlyAtLimits, WildInv
<1>4. CASE pc = "idle" /\ (Prompt \/ mkdirOpened)
  <2>1. Prompt \/ (Wild /\ fp.rde.cluster >= DiskClusters)  BY <1>4, MkdirEnds DEF ShellInv
  <2>2. pc' = "idle" \/ fp'.rde.cluster >= DiskClusters  BY <1>4, <2>1 DEF Prompt, Wild
  <2> QED  BY <2>2 DEF WildInv
<1>5. CASE pc = "idle" /\ lsAstray
  <2>1. Unfit \/ fp.rde.cluster >= DiskClusters  BY <1>5, ListedAstray
  <2>2. UNCHANGED <<op, path, disk, dataEntries, fp>>
    BY <1>5 DEF lsAstray, Wild, storage, args
  <2>3. Unfit' = Unfit  BY <2>2 DEF Unfit, Overruns, NewName, subDirectIndex
  <2> QED  BY <2>1, <2>2, <2>3 DEF WildInv
<1> QED  BY <1>1, <1>2, <1>3, <1>4, <1>5, ShellKinds

\* The kernel goes wild only on a line longer than the buffer, one with more blanks than
\* there are arguments, a full root directory, names and paths that do not fit the
\* arrays of fat.c, or a cluster behind the disk; mkdir, which opens the very directory
\* it has made, never is the one to otherwise (parse.c:69, 78, command.c:294).
THEOREM WildBeyondLimits ==
  ASSUME TypedInput, TypedTexts, ShortTexts, ShortArguments, DirSize > 1,
         SoundImages, BlankImages, TidyImages, WholeImages, PackedImages, CleanImages
  PROVE  ShellSpec /\ []InOrder => []WildOnlyBeyondLimits
<1>1. ShellInit => LsInv /\ WildInv  BY DEF ShellInit, Init, LsInv, WildInv
<1>2. /\ TypeInv /\ TypeInv' /\ ShellTypes /\ ShellTypes' /\ ShellInv /\ LsInv /\ WildInv
      /\ [ShellNext]_shellVars
      => LsInv' /\ WildInv'
  BY LsStep, WildStep
<1>3. WildInv => WildOnlyBeyondLimits  BY DEF WildInv, WildOnlyBeyondLimits
<1> QED  BY <1>1, <1>2, <1>3, ShellInvHolds, ShellTypesHold, PTL DEF ShellSpec

(***************************************************************************)
(* The dot entries of a new directory                                      *)
(***************************************************************************)

LEMMA LongNames ==
  ASSUME NEW p \in Path, p.names # <<>>, ~Short(p)
  PROVE  /\ p.names \in Seq(Name) /\ Len(p.names) \in Nat \ {0}
         /\ \A k \in 1..Len(p.names) : p.names[k] \in Name /\ Len(p.names[k]) > 1
         /\ subDirectIndex(p) = Len(p.names)
<1>1. p.names \in Seq(Name) /\ Len(p.names) \in Nat \ {0} /\ DOMAIN p.names = 1..Len(p.names)
  BY DEF Path
<1>2. \A k \in 1..Len(p.names) : p.names[k] \in Name /\ Len(p.names[k]) > 1
  <2> SUFFICES ASSUME NEW k \in 1..Len(p.names)
               PROVE  p.names[k] \in Name /\ Len(p.names[k]) > 1
    OBVIOUS
  <2>1. p.names[k] \in Name  BY <1>1
  <2>2. Len(p.names[k]) \in Nat  BY <2>1 DEF Name
  <2> QED  BY <1>1, <2>1, <2>2 DEF Short
<1>3. Len(<<>>) <= 1  OBVIOUS
<1>4. subDirectIndex(p) = Len(p.names)  BY <1>1, <1>3, WholeIndex DEF Short
<1> QED  BY <1>1, <1>2, <1>4

\* The name that fatOpen looks for last is the last of the path.
LEMMA SoughtIsLast ==
  ASSUME NEW p \in Path, p.names # <<>>, ~Short(p)
  PROVE  p.names[subDirectIndex(p)] = LastName(p)
BY LongNames DEF LastName

LEMMA DotsAreMade ==
  ASSUME TypedInput, ShellTypes, TypeInv, TypeInv', DotsInv, DirSize > 1, mkdirOpened,
         at' = "prompt", ~Short(path), StoredName(path) = LastName(path)
  PROVE  /\ ret = 0
         /\ fp.rde.name = LastName(path) /\ fp.rde.attr = "dir" /\ fp.rde.size = 0
         /\ \A a \in Addr : disk'[a] # disk[a] =>
              a - ClusterBase(fp.rde.cluster) \in DirSlots /\ disk[a] = Zero
         /\ \A n \in DotNames : \E s \in DirSlots :
              disk'[ClusterBase(fp.rde.cluster) + s] = [Zero EXCEPT !.name = n, !.attr = "dir"]
<1> DEFINE k == fp.rde.cluster
           b == ClusterBase(k)
<1>1. at = "dots" /\ pc = "idle"  BY DEF mkdirOpened, Back
<1>2. path \in Path /\ path.names # <<>>  BY <1>1, ArgumentTyped DEF DotsInv
<1>3. ret = 0  BY <1>1, <1>2, SoughtIsLast DEF DotsInv, OpensDir
<1>4. fp.rde = NewEntry(LastName(path), TRUE, k)
  BY <1>1, <1>3 DEF DotsInv, OpensDir, NewUnit
<1>5. fp.rde.name = LastName(path) /\ fp.rde.attr = "dir" /\ fp.rde.size = 0
  <2> HIDE DEF k
  <2> QED  BY <1>4 DEF NewEntry
<1>6. NewDir(k) /\ DotsPut(k)
  <2>1. ~(Wild /\ UNCHANGED shell)  BY <1>1 DEF shell, terminal
  <2>2. disk' \in Disk  BY DEF TypeInv, TypeOK, Disk
  <2> QED  BY <1>3, <2>1, <2>2, MkdirEnds
<1>7. b \in Int /\ 1 \in DirSlots /\ 2 \in DirSlots
  <2>1. k \in Clusters /\ k >= 2 /\ k # 0  BY <1>6 DEF NewDir
  <2>2. DirBase(k) = ClusterBase(k)  BY <2>1 DEF DirBase
  <2> QED  BY <2>1, <2>2, ClusterOnDisk, Sizes
<1> HIDE DEF b, k
<1>8. ASSUME NEW a \in Addr, disk'[a] # disk[a]
      PROVE  a - b \in DirSlots /\ disk[a] = Zero
  <2>1. a = b + 1 \/ a = b + 2  BY <1>6, <1>8 DEF DotsPut, b
  <2>2. disk[b + 1] = Zero /\ disk[b + 2] = Zero  BY <1>6, <1>7 DEF NewDir, b
  <2>3. (b + 1) - b = 1 /\ (b + 2) - b = 2  BY <1>7
  <2> QED  BY <1>7, <2>1, <2>2, <2>3
<1>9. /\ disk'[b + 1] = [Zero EXCEPT !.name = <<".">>, !.attr = "dir"]
      /\ disk'[b + 2] = [Zero EXCEPT !.name = <<".", ".">>, !.attr = "dir"]
  BY <1>6 DEF DotsPut, DotUnit, b
<1>10. ASSUME NEW n \in DotNames
       PROVE  \E s \in DirSlots : disk'[b + s] = [Zero EXCEPT !.name = n, !.attr = "dir"]
  <2>1. n = <<".">> \/ n = <<".", ".">>  BY DEF DotNames
  <2> QED  BY <1>7, <1>9, <2>1
<1> QED  BY <1>3, <1>5, <1>8, <1>10 DEF b, k

\* mkdir opens the directory that it has made, and adds to the disk the two dot
\* entries of its cluster alone (command.c:266, 296).
THEOREM DotsMade ==
  ASSUME TypedInput, TypedTexts, ShortTexts, ShortArguments, DirSize > 1,
         SoundImages, BlankImages, TidyImages, WholeImages, PackedImages, CleanImages
  PROVE  ShellSpec /\ []InOrder => MkdirMakesDots
<1> DEFINE Opens == at = "dots" /\ pc = "idle" /\ at' = "prompt"
                    /\ ~Short(path) /\ StoredName(path) = LastName(path)
           TwoDots ==
             /\ ret = 0
             /\ fp.rde.name = LastName(path) /\ fp.rde.attr = "dir" /\ fp.rde.size = 0
             /\ fp.rde.cluster # 0 =>
                  /\ \A a \in Addr : disk'[a] # disk[a] =>
                       a - ClusterBase(fp.rde.cluster) \in DirSlots /\ disk[a] = Zero
                  /\ \A n \in DotNames : \E s \in DirSlots :
                       disk'[ClusterBase(fp.rde.cluster) + s] =
                         [Zero EXCEPT !.name = n, !.attr = "dir"]
<1>1. TypeInv /\ TypeInv' /\ ShellTypes /\ ShellInv /\ [ShellNext]_shellVars
      => [Opens => TwoDots]_shellVars
  <2> SUFFICES ASSUME TypeInv, TypeInv', ShellTypes, ShellInv, ShellNext, Opens
               PROVE  TwoDots
    BY DEF shellVars, shell
  <2>1. mkdirOpened
    BY StepsGoOn DEF ShellNext, ReadLine, FatStep, Commands, PrintOnly, Finished, touch, cdRoot, cd,
      cdOpened, cat, catOpened, lsRoot, ls, lsOpened, lsAstray, mkdirNothing, mkdir, mkdirCreated,
      echo, echoOpened, Running, Back
  <2> QED  BY <2>1, DotsAreMade DEF ShellInv
<1> HIDE DEF Opens, TwoDots
<1>2. ShellSpec /\ []InOrder => [][Opens => TwoDots]_shellVars
  BY <1>1, ShellInvHolds, ShellTypesHold, PTL DEF ShellSpec
<1> QED  BY <1>2 DEF MkdirMakesDots, Opens, TwoDots

(***************************************************************************)
(* The working directory                                                   *)
(***************************************************************************)

LEMMA FoundFromRoot ==
  ASSUME RootShort, NEW n, NEW s \in FoundInRoot(LoadRoot(disk), n)
  PROVE  s \in FoundOn(disk, 0, n) /\ disk[DirBase(0) + s] = LoadRoot(disk)[s]
<1>1. s \in FoundOn(disk, 0, n)  BY RootScan DEF RootShort, ShortRoot
<1>2. s \in DirSlots  BY <1>1 DEF FoundOn, Scan
<1> QED  BY <1>1, <1>2, RootBase DEF LoadRoot

\* p leads to a directory, for fatOpen and for who looks it up on the disk.
LeadsTo(d, t, p) == \E u : OpenedAt(d, t, p, u) /\ u.attr = "dir"

LEMMA LeadsOnDisk ==
  ASSUME TypeInv, BlankInv, RootShort, NEW p \in Path, p.names # <<>>, ~Short(p),
         LeadsTo(disk, fat, p)
  PROVE  \E a \in EntryAt(p) : disk[a].attr = "dir"
<1> DEFINE m == Len(p.names)
<1>0. disk \in Disk  BY TypeParts DEF StorageTypes
<1>1. m \in Nat \ {0} /\ \A k \in 1..m : p.names[k] \in Name /\ Len(p.names[k]) > 1
  BY LongNames
<1>2. PICK f : /\ f[1] = SlotsOn(disk, 0, p.names[1])
               /\ \A k \in 2..m :
                    f[k] = UNION {SlotsOn(disk, disk[a].cluster, p.names[k]) : a \in f[k - 1]}
               /\ EntryAt(p) = f[m]
  BY <1>0, EntryOnIs DEF EntryAt
<1>3. PICK u : OpenedAt(disk, fat, p, u) /\ u.attr = "dir"  BY DEF LeadsTo
<1>4. CASE m = 1
  <2>1. ~ (m > 1)  BY <1>4
  <2>2. PICK s \in FoundInRoot(LoadRoot(disk), p.names[1]) : u = LoadRoot(disk)[s]
    BY <1>3, <2>1, Zenon DEF OpenedAt
  <2>3. s \in FoundOn(disk, 0, p.names[1]) /\ disk[DirBase(0) + s] = u  BY <2>2, FoundFromRoot
  <2> QED  BY <1>2, <1>3, <1>4, <2>3 DEF SlotsOn
<1>5. CASE m # 1
  <2>0. subDirectIndex(p) = m  BY LongNames
  <2>1. m > 1 /\ m >= 2 /\ m - 2 \in Nat
    <3> HIDE DEF m
    <3> QED  BY <1>1, <1>5
  <2>2. PICK c \in Clusters :
          /\ Walking(disk, fat, p, m, c)
          /\ \E s \in FoundInDir(Entries(disk, c), p.names[m]) : u = Entries(disk, c)[s]
    BY <1>3, <1>5, <2>0, <2>1 DEF OpenedAt
  <2>3. PICK w : Trail(disk, fat, p, m, w) /\ w[m] = c  BY <2>2 DEF Walking
  <2> HIDE DEF m
  <2>4. ASSUME NEW k \in 2..m, NEW a \in f[k - 1], disk[a].cluster = w[k],
               NEW s \in FoundInDir(Entries(disk, w[k]), p.names[k])
        PROVE  /\ DirBase(w[k]) + s \in f[k]
               /\ disk[DirBase(w[k]) + s] = Entries(disk, w[k])[s]
    <3>1. k \in 1..m  BY <2>4
    <3>2. s \in FoundOn(disk, w[k], p.names[k])  BY <1>1, <2>4, <3>1, DirScan
    <3>3. DirBase(w[k]) + s \in SlotsOn(disk, disk[a].cluster, p.names[k])
      BY <2>4, <3>2 DEF SlotsOn
    <3>4. s \in DirSlots  BY <3>2 DEF FoundOn, Scan
    <3> QED  BY <1>2, <3>3, <3>4 DEF Entries
  <2> DEFINE T == {k \in 0..(m - 2) : \E a \in f[k + 1] : disk[a].cluster = w[k + 2]}
  <2>5. 0 \in T
    <3>1. PICK s \in FoundInRoot(LoadRoot(disk), p.names[1]) : w[2] = LoadRoot(disk)[s].cluster
      BY <2>3 DEF Trail
    <3>2. s \in FoundOn(disk, 0, p.names[1]) /\ disk[DirBase(0) + s] = LoadRoot(disk)[s]
      BY <3>1, FoundFromRoot
    <3>3. DirBase(0) + s \in f[0 + 1] /\ disk[DirBase(0) + s].cluster = w[0 + 2]
      BY <1>2, <3>1, <3>2 DEF SlotsOn
    <3> QED  BY <2>1, <3>3
  <2>6. ASSUME NEW k \in 1..(m - 2), k - 1 \in T
        PROVE  k \in T
    <3>1. k + 1 \in 2..(m - 1) /\ k + 1 \in 2..m /\ (k + 1) + 1 = k + 2 /\ (k + 1) - 1 = k
      BY <1>1, <2>1
    <3>2. PICK a \in f[k] : disk[a].cluster = w[k + 1]
      <4>1. (k - 1) + 1 = k /\ (k - 1) + 2 = k + 1  BY <2>1
      <4> QED  BY <2>6, <4>1
    <3>3. PICK s \in FoundInDir(Entries(disk, w[k + 1]), p.names[k + 1]) :
            w[k + 2] = Entries(disk, w[k + 1])[s].cluster
      BY <2>3, <3>1 DEF Trail
    <3>4. /\ DirBase(w[k + 1]) + s \in f[k + 1]
          /\ disk[DirBase(w[k + 1]) + s] = Entries(disk, w[k + 1])[s]
      BY <2>4, <3>1, <3>2, <3>3
    <3> QED  BY <2>1, <3>3, <3>4
  <2> HIDE DEF T
  <2>7. m - 2 \in T
    <3>1. 0..(m - 2) \subseteq T  BY <2>1, <2>5, <2>6, LoopKeeps
    <3> QED  BY <2>1, <3>1
  <2>8. PICK a \in f[m - 1] : disk[a].cluster = w[m]
    <3>1. (m - 2) + 1 = m - 1 /\ (m - 2) + 2 = m  BY <1>1
    <3> QED  BY <2>7, <3>1 DEF T
  <2>9. PICK s \in FoundInDir(Entries(disk, w[m]), p.names[m]) : u = Entries(disk, w[m])[s]
    BY <2>2, <2>3
  <2>10. m \in 2..m  BY <1>1, <2>1
  <2>11. DirBase(w[m]) + s \in f[m] /\ disk[DirBase(w[m]) + s] = u
    BY <2>4, <2>8, <2>9, <2>10
  <2> QED  BY <1>2, <1>3, <2>11 DEF m
<1> QED  BY <1>4, <1>5

LEMMA RootLeadStays ==
  ASSUME TypeInv, BlankInv, RootShort, Packed(disk), Grown, NEW n,
         NEW s \in FoundInRoot(LoadRoot(disk), n)
  PROVE  /\ s \in FoundInRoot(LoadRoot(disk'), n)
         /\ LoadRoot(disk')[s].attr = LoadRoot(disk)[s].attr
<1>1. /\ s \in FoundInRoot(LoadRoot(disk'), n)
      /\ Resized(LoadRoot(disk)[s], LoadRoot(disk')[s])
      /\ Used(LoadRoot(disk)[s]) /\ s \in Slots
  BY FoundInRootStays, Sizes, SizeAssumption DEF Grown
<1>2. LoadRoot(disk)[s] \in Unit  BY <1>1, LoadRootUnits DEF TypeInv, TypeOK, Disk
<1> QED  BY <1>1, <1>2, SameMatch DEF Used

LEMMA DirLeadStays ==
  ASSUME TypeInv, Packed(disk), NEW c \in Clusters, c >= 2, StaysIn(c),
         NEW n \in Name, Len(n) > 1, NEW s \in FoundInDir(Entries(disk, c), n)
  PROVE  /\ s \in FoundInDir(Entries(disk', c), n)
         /\ Entries(disk', c)[s].attr = Entries(disk, c)[s].attr
<1>1. Used(Entries(disk, c)[s])  BY LongMatch DEF FoundInDir, Scan
<1>2. /\ s \in FoundInDir(Entries(disk', c), n)
      /\ Resized(Entries(disk, c)[s], Entries(disk', c)[s])
      /\ s \in DirSlots
  BY <1>1, FoundInDirStays
<1>3. Entries(disk, c)[s] \in Unit  BY <1>2, SlotAddress DEF Entries, TypeInv, TypeOK
<1> QED  BY <1>1, <1>2, <1>3, SameMatch DEF Used

LEMMA LeadStays ==
  ASSUME TypeInv, BlankInv, RootShort, Packed(disk), Grown,
         NEW p \in Path, p.names # <<>>, ~Short(p), LeadsTo(disk, fat, p)
  PROVE  LeadsTo(disk', fat', p)
<1> DEFINE m == Len(p.names)
<1>1. PICK u : OpenedAt(disk, fat, p, u) /\ u.attr = "dir"  BY DEF LeadsTo
<1>2. m \in Nat \ {0} /\ subDirectIndex(p) = m /\ p.names[m] \in Name /\ Len(p.names[m]) > 1
  <2>1. /\ m \in Nat \ {0} /\ subDirectIndex(p) = m
        /\ \A k \in 1..m : p.names[k] \in Name /\ Len(p.names[k]) > 1
    BY LongNames
  <2> HIDE DEF m
  <2>2. m \in 1..m  BY <2>1
  <2> QED  BY <2>1, <2>2
<1>3. CASE m = 1
  <2>1. ~ (m > 1)  BY <1>3
  <2>2. PICK s \in FoundInRoot(LoadRoot(disk), p.names[1]) : u = LoadRoot(disk)[s]
    BY <1>1, <2>1, Zenon DEF OpenedAt
  <2>3. /\ s \in FoundInRoot(LoadRoot(disk'), p.names[1])
        /\ LoadRoot(disk')[s].attr = u.attr
    BY <2>2, RootLeadStays
  <2>4. OpenedAt(disk', fat', p, LoadRoot(disk')[s])  BY <1>3, <2>3 DEF OpenedAt
  <2> QED  BY <1>1, <2>3, <2>4 DEF LeadsTo
<1>4. CASE m # 1
  <2>1. m > 1 /\ m >= 2 /\ m \in Nat
    <3> HIDE DEF m
    <3> QED  BY <1>2, <1>4
  <2>2. PICK c \in Clusters :
          /\ Walking(disk, fat, p, m, c) /\ Safe(disk, fat, c)
          /\ \E s \in FoundInDir(Entries(disk, c), p.names[m]) : u = Entries(disk, c)[s]
    BY <1>1, <1>2, <1>4, <2>1 DEF OpenedAt
  <2>3. PICK w : Trail(disk, fat, p, m, w) /\ w[m] = c  BY <2>2 DEF Walking
  <2>4. PICK s \in FoundInDir(Entries(disk, c), p.names[m]) : u = Entries(disk, c)[s]
    BY <2>2
  <2>5. Trail(disk', fat', p, m, w) /\ Safe(disk', fat', c)
    <3>1. Safe(disk, fat, w[m])  BY <2>2, <2>3
    <3> HIDE DEF m
    <3>2. Trail(disk', fat', p, m, w) /\ Safe(disk', fat', w[m])
      BY <2>1, <2>3, <3>1, TrailStays
    <3> QED  BY <2>3, <3>2
  <2>6. c >= 2 /\ StaysIn(c)  BY <2>2 DEF Safe, Grown
  <2>7. /\ s \in FoundInDir(Entries(disk', c), p.names[m])
        /\ Entries(disk', c)[s].attr = u.attr
    BY <1>2, <2>2, <2>4, <2>6, DirLeadStays
  <2>8. Walking(disk', fat', p, m, c)  BY <2>3, <2>5 DEF Walking
  <2>9. OpenedAt(disk', fat', p, Entries(disk', c)[s])
    BY <1>2, <2>1, <2>2, <2>5, <2>7, <2>8 DEF OpenedAt
  <2> QED  BY <1>1, <2>7, <2>9 DEF LeadsTo
<1> QED  BY <1>3, <1>4

\* What is written under the shell leaves what paths lead to where it is.
LEMMA ShellGrown ==
  ASSUME TypedInput, TypedTexts, ShortTexts, ShortArguments, DirSize > 1,
         ShellTypes, TypeInv, TypeInv', InOrder, InOrder', ShellInv, [ShellNext]_shellVars
  PROVE  Grown
<1>1. CASE [AnyNext]_vars
  BY <1>1, GrownStep DEF ShellInv, InOrder, NamesGiven, Named, Orderly
<1>2. ASSUME UNCHANGED <<disk, fat>>
      PROVE  Grown
  BY <1>2 DEF Grown, StaysIn, Resized, Safe
<1>3. CASE (Prompt /\ UNCHANGED disk) \/ Wild  BY <1>2, <1>3 DEF Prompt, Wild, storage
<1>5. CASE lsAstray
  <2>1. UNCHANGED <<disk, fat>>  BY <1>5 DEF lsAstray, Wild, storage
  <2> QED  BY <1>2, <2>1
<1>4. CASE mkdirOpened
  <2>1. CASE ret # 0
    <3>1. UNCHANGED <<disk, fat>>  BY <1>4, <2>1, MkdirEnds DEF ShellInv, Prompt
    <3> QED  BY <1>2, <3>1
  <2>2. CASE ret = 0
    <3>1. disk' \in Disk  BY DEF TypeInv, TypeOK, Disk
    <3>2. \/ NewDir(fp.rde.cluster) /\ DotsPut(fp.rde.cluster)
          \/ Wild
      BY <1>4, <2>2, <3>1, MkdirEnds DEF ShellInv
    <3> QED  BY <1>3, <3>2, DotsGrown
  <2> QED  BY <2>1, <2>2
<1> QED  BY <1>1, <1>3, <1>4, <1>5, ShellKinds

\* The working directory is a place that cd has been to.
Trusted(d, t, arg) ==
  LET p == pathToFileName(arg)
  IN  arg = <<Slash>> \/ Short(p) \/ LeadsTo(d, t, p)
CdInv == at = "cd" => path = PathArgument(1) /\ op = "fatOpen"
LeadsInv == CdInv /\ Trusted(disk, fat, workingDirectory)

LEMMA CdStep ==
  ASSUME CdInv, [ShellNext]_shellVars
  PROVE  CdInv'
<1>1. CASE UNCHANGED shellVars
  BY <1>1 DEF shellVars, vars, args, shell, terminal, CdInv, PathArgument, Argument
<1>2. CASE FatStep
  BY <1>2, StepsGoOn DEF FatStep, args, shell, terminal, CdInv, PathArgument, Argument
<1>3. CASE ReadLine  BY <1>3 DEF ReadLine, CdInv
<1>4. CASE cd
  <2>1. fatOpen(PathArgument(1)) /\ UNCHANGED parseArguments  BY <1>4 DEF cd, Goes, terminal
  <2>2. path' = PathArgument(1) /\ op' = "fatOpen"
    BY <2>1, ScanStops DEF fatOpen, fatOpenRoot, fatOpenPath, Begin
  <2> QED  BY <2>1, <2>2 DEF CdInv, PathArgument, Argument
<1>5. CASE Commands /\ ~cd
  <2>1. at' # "cd" \/ mkdirOpened \/ lsAstray
    BY <1>5 DEF Commands, PrintOnly, Finished, touch, cdRoot, cdOpened, cat, catOpened, lsRoot, ls,
      lsOpened, mkdirNothing, mkdir, mkdirCreated, echo, echoOpened, Prompt, Goes, Prints
  <2>2. mkdirOpened => at' # "cd"  BY DEF mkdirOpened, Back, Prompt, shell
  <2>3. lsAstray => at' # "cd"  BY DEF lsAstray, Running, Back, shell
  <2> QED  BY <2>1, <2>2, <2>3 DEF CdInv
<1> QED  BY <1>1, <1>2, <1>3, <1>4, <1>5 DEF ShellNext

\* Only cd goes elsewhere.
LEMMA WhereTo ==
  ASSUME [ShellNext]_shellVars
  PROVE  UNCHANGED workingDirectory \/ cdRoot \/ cdOpened
BY DEF ShellNext, shellVars, FatStep, shell, ReadLine, Commands, PrintOnly, Finished, touch, cd,
  cat, catOpened, lsRoot, ls, lsOpened, lsAstray, mkdirNothing, mkdir, mkdirCreated, mkdirOpened,
  echo, echoOpened, Goes, Prints

LEMMA TrustStays ==
  ASSUME TypeInv, ShellInv, Orderly, Grown, NEW arg \in Arg, Trusted(disk, fat, arg)
  PROVE  Trusted(disk', fat', arg)
<1>1. BlankInv /\ RootShort /\ Packed(disk)
  BY DEF ShellInv, FilesInv, OpenInv, FirstInv, Orderly
<1>2. pathToFileName(arg) \in Path /\ pathToFileName(arg).names # <<>>  BY PathTyped
<1> QED  BY <1>1, <1>2, LeadStays DEF Trusted

LEMMA LeadsStep ==
  ASSUME TypedInput, TypedTexts, ShortTexts, ShortArguments, DirSize > 1, ShellTypes,
         TypeInv, TypeInv', InOrder, InOrder', ShellInv, LeadsInv, [ShellNext]_shellVars
  PROVE  LeadsInv'
<1>1. Grown  BY ShellGrown
<1>2. CdInv'  BY CdStep DEF LeadsInv
<1>3. CASE UNCHANGED workingDirectory
  <2>1. Trusted(disk', fat', workingDirectory)
    BY <1>1, TrustStays DEF ShellTypes, InOrder, LeadsInv
  <2> QED  BY <1>2, <1>3, <2>1 DEF LeadsInv
<1>4. CASE cdRoot
  <2>1. workingDirectory' = <<Slash>>  BY <1>4 DEF cdRoot
  <2> QED  BY <1>2, <2>1 DEF LeadsInv, Trusted
<1>5. CASE cdOpened /\ workingDirectory' # workingDirectory
  <2>1. /\ at = "cd" /\ pc = "idle" /\ ret = 0 /\ fp.rde.attr = "dir"
        /\ workingDirectory' = Argument(1) /\ UNCHANGED <<disk, fat>>
    BY <1>5 DEF cdOpened, Back, Changed, Prompt
  <2>2. path = PathArgument(1) /\ Returned("fatOpen", 0)
    BY <2>1 DEF LeadsInv, CdInv, Returned, Idle
  <2>3. OpenedAt(disk, fat, path, fp.rde)  BY <2>2 DEF ShellInv, CallsInv, OpenedInv
  <2>4. Trusted(disk, fat, Argument(1))
    BY <2>1, <2>2, <2>3 DEF Trusted, LeadsTo, PathArgument
  <2> QED  BY <1>2, <2>1, <2>4 DEF LeadsInv
<1> QED  BY <1>3, <1>4, <1>5, WhereTo

LEMMA LeadsHold ==
  ASSUME TypeInv, ShellTypes, ShellInv, InOrder, LeadsInv
  PROVE  Leads
<1>1. BlankInv /\ RootShort  BY DEF ShellInv, FilesInv, OpenInv, FirstInv, Orderly, InOrder
<1> DEFINE p == pathToFileName(workingDirectory)
<1>2. p \in Path /\ p.names # <<>>  BY PathTyped DEF ShellTypes
<1>3. workingDirectory = <<Slash>> \/ Short(p) \/ LeadsTo(disk, fat, p)
  BY DEF LeadsInv, Trusted
<1> HIDE DEF p
<1>4. ~Short(p) /\ LeadsTo(disk, fat, p) => \E a \in EntryAt(p) : disk[a].attr = "dir"
  BY <1>1, <1>2, LeadsOnDisk
<1> QED  BY <1>3, <1>4 DEF Leads, p

\* The path that cd has kept goes on leading to a directory: no command takes one
\* away, or puts an entry in front of one (command.c:221).
THEOREM WorkingDirectoryStays ==
  ASSUME TypedInput, TypedTexts, ShortTexts, ShortArguments, DirSize > 1,
         SoundImages, BlankImages, TidyImages, WholeImages, PackedImages, CleanImages
  PROVE  ShellSpec /\ []InOrder => []Leads /\ WorkingDirectoryLeads
<1> DEFINE Stays ==
             (Leads \/ workingDirectory' # workingDirectory) /\ ~RootDotted' /\ ~RootOverflows
               => Leads'
<1>1. ShellInit => LeadsInv  BY DEF ShellInit, LeadsInv, CdInv, Trusted
<1>2. /\ TypeInv /\ TypeInv' /\ ShellTypes /\ ShellInv /\ InOrder /\ InOrder' /\ LeadsInv
      /\ [ShellNext]_shellVars
      => LeadsInv'
  BY LeadsStep
<1>3. TypeInv /\ ShellTypes /\ ShellInv /\ InOrder /\ LeadsInv => Leads  BY LeadsHold
<1>4. Leads' => [Stays]_shellVars  OBVIOUS
<1> HIDE DEF Stays
<1>5. ShellSpec /\ []InOrder => []Leads /\ [][Stays]_shellVars
  BY <1>1, <1>2, <1>3, <1>4, ShellInvHolds, ShellTypesHold, PTL DEF ShellSpec
<1> QED  BY <1>5 DEF WorkingDirectoryLeads, Stays
=============================================================================
