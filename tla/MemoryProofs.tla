---------------------------- MODULE MemoryProofs ----------------------------
(***************************************************************************)
(* Proofs about the page allocator and the linked list: the chains of      *)
(* pointers are sequences, which share the cells out and which every call  *)
(* changes as it says.                                                     *)
(***************************************************************************)
EXTENDS MemoryProperties, Sequences, FiniteSetTheorems, WellFoundedInduction, TLAPS

(***************************************************************************)
(* Induction over the numbers, as a fact about sets of them: the theorems  *)
(* of the library take what is proved as an operator.                      *)
(***************************************************************************)

Less == OpToRel(<, Nat)

\* Less is the order of the numbers, and has no endless descent.
LEMMA LessIs == \A m, n \in Nat : <<m, n>> \in Less <=> m < n
BY DEF Less, OpToRel

LEMMA LessWellFounded == IsWellFoundedOn(Less, Nat)
BY NatLessThanWellFounded DEF Less

\* Induction, over the numbers of which something holds.
LEMMA SetInduction ==
  ASSUME NEW T, 0 \in T, \A n \in Nat : n \in T => n + 1 \in T
  PROVE  Nat \subseteq T
<1> SUFFICES ASSUME Nat \ T # {} PROVE FALSE  OBVIOUS
<1>1. PICK x \in Nat \ T : \A y \in Nat \ T : ~ (<<y, x>> \in Less)
  <2>1. Nat \ T \subseteq Nat  OBVIOUS
  <2> QED  BY <2>1, LessWellFounded, WFMin
<1>2. x # 0 /\ x - 1 \in Nat /\ x - 1 < x  BY <1>1
<1>3. x - 1 \in T  BY <1>1, <1>2, LessIs
<1> QED  BY <1>1, <1>2, <1>3

\* A sequence that repeats nothing is no longer than the set it is of.
LEMMA SeqBounded ==
  ASSUME NEW S, IsFiniteSet(S), NEW s \in Seq(S),
         \A i, j \in 1..Len(s) : s[i] = s[j] => i = j
  PROVE  Len(s) \in Nat /\ Len(s) <= Cardinality(S)
<1>1. Len(s) \in Nat /\ s \in [1..Len(s) -> S]  OBVIOUS
<1>2. s \in Injection(1..Len(s), S)  BY <1>1 DEF Injection, IsInjective
<1>3. Cardinality(1..Len(s)) <= Cardinality(S)  BY <1>2, FS_Injection
<1>4. Cardinality(1..Len(s)) = Len(s)  BY <1>1, FS_Interval
<1> QED  BY <1>1, <1>3, <1>4

(***************************************************************************)
(* Chains                                                                  *)
(***************************************************************************)

\* A chain leads through the cells that succ ties together.
LEMMA ChainIs ==
  ASSUME NEW S, NEW s \in Seq(S), NEW succ, NEW p, NEW max \in Nat, NEW null, null \notin S,
         Len(s) <= max + 1,
         p = IF s = <<>> THEN null ELSE s[1],
         \A i \in 1..Len(s) : succ[s[i]] = IF i = Len(s) THEN null ELSE s[i + 1]
  PROVE  Chain(succ, p, max, null) = s
<1> DEFINE Step(f, n) == IF n = 0 THEN p ELSE IF f[n - 1] = null THEN null ELSE succ[f[n - 1]]
           Nth == CHOOSE f : f = [n \in 0..max |-> Step(f, n)]
           At(n) == IF n < Len(s) THEN s[n + 1] ELSE null
<1>1. Chain(succ, p, max, null) =
        [n \in 1..Cardinality({n \in 0..max : Nth[n] # null}) |-> Nth[n - 1]]
  BY DEF Chain
<1>2. Len(s) \in Nat /\ \A i \in 1..Len(s) : s[i] \in S /\ s[i] # null  OBVIOUS
<1>3. Nth = [n \in 0..max |-> Step(Nth, n)]
  <2> DEFINE f == [n \in 0..max |-> At(n)]
  <2>1. \A n \in 0..max : Step(f, n) = At(n)
    <3> SUFFICES ASSUME NEW n \in 0..max PROVE Step(f, n) = At(n)  OBVIOUS
    <3>1. CASE n = 0  BY <1>2, <3>1
    <3>2. CASE n > 0
      <4>1. n - 1 \in 0..max /\ f[n - 1] = At(n - 1)  BY <3>2
      <4>2. CASE n - 1 < Len(s)
        <5>1. f[n - 1] = s[n] /\ n \in 1..Len(s)  BY <3>2, <4>1, <4>2
        <5> QED  BY <1>2, <3>2, <5>1
      <4>3. CASE ~(n - 1 < Len(s))  BY <1>2, <3>2, <4>1, <4>3
      <4> QED  BY <4>2, <4>3
    <3> QED  BY <3>1, <3>2
  <2>2. f = [n \in 0..max |-> Step(f, n)]  BY <2>1
  <2> HIDE DEF f, Step
  <2> QED  BY <2>2
<1>4. \A n \in 0..max : Nth[n] = At(n)
  <2> HIDE DEF Nth
  <2> DEFINE T == {n \in Nat : n <= max => Nth[n] = At(n)}
  <2>1. 0 \in T  BY <1>2, <1>3
  <2>2. ASSUME NEW n \in Nat, n \in T PROVE n + 1 \in T
    <3> SUFFICES ASSUME n + 1 <= max PROVE Nth[n + 1] = At(n + 1)  OBVIOUS
    <3>1. Nth[n] = At(n) /\ n + 1 \in 0..max  BY <2>2
    <3>2. Nth[n + 1] = IF Nth[n] = null THEN null ELSE succ[Nth[n]]  BY <1>3, <3>1
    <3>3. CASE n < Len(s)
      <4>1. Nth[n] = s[n + 1] /\ n + 1 \in 1..Len(s)  BY <1>2, <3>1, <3>3
      <4> QED  BY <1>2, <3>2, <4>1
    <3>4. CASE ~(n < Len(s))  BY <1>2, <3>1, <3>2, <3>4
    <3> QED  BY <3>3, <3>4
  <2> HIDE DEF T
  <2>3. Nat \subseteq T  BY <2>1, <2>2, SetInduction
  <2> QED  BY <2>3 DEF T
<1> HIDE DEF Nth
<1>5. {n \in 0..max : Nth[n] # null} = 0..(Len(s) - 1)  BY <1>2, <1>4
<1>6. Cardinality(0..(Len(s) - 1)) = Len(s)
  <2> DEFINE k == Len(s) - 1
  <2>1. 0 \in Int /\ k \in Int  BY <1>2
  <2> HIDE DEF k
  <2>2. Cardinality(0..k) = IF 0 > k THEN 0 ELSE k - 0 + 1  BY <2>1, FS_Interval
  <2> QED  BY <1>2, <2>2 DEF k
<1>7. \A n \in 1..Len(s) : Nth[n - 1] = s[n]  BY <1>2, <1>4
<1>8. [n \in 1..Len(s) |-> Nth[n - 1]] = [n \in 1..Len(s) |-> s[n]]  BY <1>7
<1>9. s = [n \in 1..Len(s) |-> s[n]]  OBVIOUS
<1> QED  BY <1>1, <1>5, <1>6, <1>8, <1>9

-----------------------------------------------------------------------------
(* The pages *)

\* The chains of ch, each under its first page, are those of m.
Links == [next: [PageSet -> PageSet \cup {NULL}], prev: [PageSet -> PageSet \cup {NULL}]]
Family(m, ch) ==
  /\ m \in Links /\ DOMAIN ch \subseteq PageSet
  /\ \A h \in DOMAIN ch : ch[h] \in Seq(PageSet) /\ Len(ch[h]) >= 1 /\ ch[h][1] = h
  /\ \A g, h \in DOMAIN ch : \A i \in 1..Len(ch[g]), j \in 1..Len(ch[h]) :
       ch[g][i] = ch[h][j] => g = h /\ i = j
  /\ \A h \in DOMAIN ch : \A i \in 1..Len(ch[h]) :
       /\ m.next[ch[h][i]] = IF i = Len(ch[h]) THEN NULL ELSE ch[h][i + 1]
       /\ m.prev[ch[h][i]] = IF i = 1 THEN NULL ELSE ch[h][i - 1]

LEMMA PagesAre ==
  /\ NULL \notin PageSet /\ NUMBERPAGES \in Nat /\ 0 \in PageSet
  /\ IsFiniteSet(PageSet) /\ Cardinality(PageSet) = NUMBERPAGES
<1> DEFINE k == NUMBERPAGES - 1
<1>1. 0 \in Int /\ k \in Int /\ k + 1 = NUMBERPAGES /\ k >= 0  BY PagesAssumption
<1>2. PageSet = 0..k  BY DEF PageSet
<1> HIDE DEF k
<1>3. IsFiniteSet(0..k) /\ Cardinality(0..k) = k + 1  BY <1>1, FS_Interval
<1> QED  BY <1>1, <1>2, <1>3 DEF NULL

\* A walk from the first page of a chain goes through it.
LEMMA WalkIs ==
  ASSUME NEW m, NEW ch, Family(m, ch), NEW h \in DOMAIN ch
  PROVE  Walk(m, h) = ch[h] /\ LastOf(m, h) = ch[h][Len(ch[h])]
<1> DEFINE s == ch[h]
<1>1. s \in Seq(PageSet) /\ Len(s) >= 1 /\ s[1] = h  BY DEF Family
<1>2. \A i, j \in 1..Len(s) : s[i] = s[j] => i = j  BY DEF Family
<1>3. \A i \in 1..Len(s) : m.next[s[i]] = IF i = Len(s) THEN NULL ELSE s[i + 1]
  BY DEF Family
<1> HIDE DEF s
<1>4. Len(s) <= NUMBERPAGES + 1
  <2>1. Len(s) \in Nat /\ Len(s) <= NUMBERPAGES  BY <1>1, <1>2, PagesAre, SeqBounded
  <2> QED  BY <2>1, PagesAre
<1>5. h = IF s = <<>> THEN NULL ELSE s[1]  BY <1>1
<1> DEFINE succ == m.next
<1>6. \A i \in 1..Len(s) : succ[s[i]] = IF i = Len(s) THEN NULL ELSE s[i + 1]  BY <1>3
<1> HIDE DEF succ
<1>7. Chain(succ, h, NUMBERPAGES, NULL) = s
  BY <1>1, <1>4, <1>5, <1>6, PagesAre, ChainIs
<1> QED  BY <1>7 DEF Walk, LastOf, Last, s, succ

\* The chain under p goes to the end of that under h.
Joined(ch, h, p) == [g \in DOMAIN ch \ {p} |-> IF g = h THEN ch[h] \o ch[p] ELSE ch[g]]

LEMMA AddFamily ==
  ASSUME NEW m, NEW ch, Family(m, ch), NEW h \in DOMAIN ch, NEW p \in DOMAIN ch, h # p
  PROVE  Family(ppageAdd(m, h, p), Joined(ch, h, p))
<1> DEFINE l == ch[h][Len(ch[h])]
           n == ppageAdd(m, h, p)
           s == ch[h] \o ch[p]
           new == [g \in DOMAIN ch \ {p} |-> IF g = h THEN s ELSE ch[g]]
           G(g, i) == IF g = h /\ i > Len(ch[h]) THEN p ELSE g
           I(g, i) == IF g = h /\ i > Len(ch[h]) THEN i - Len(ch[h]) ELSE i
<1>1. /\ \A g \in DOMAIN ch : /\ g \in PageSet /\ ch[g] \in Seq(PageSet) /\ ch[g][1] = g
                              /\ Len(ch[g]) \in Nat /\ Len(ch[g]) >= 1
      /\ \A g \in DOMAIN ch : \A i \in 1..Len(ch[g]) : ch[g][i] \in PageSet
  BY DEF Family
<1>2. \A f, g \in DOMAIN ch : \A i \in 1..Len(ch[f]), j \in 1..Len(ch[g]) :
        ch[f][i] = ch[g][j] => f = g /\ i = j
  BY DEF Family
<1>3. LastOf(m, h) = l /\ l \in PageSet  BY <1>1, WalkIs
<1>4. /\ n \in Links
      /\ \A x \in PageSet : n.next[x] = IF x = l THEN p ELSE m.next[x]
      /\ \A x \in PageSet : n.prev[x] = IF x = p THEN l ELSE m.prev[x]
  <2>1. m \in Links /\ p \in PageSet  BY <1>1 DEF Family
  <2>2. n = [m EXCEPT !.next[l] = p, !.prev[p] = l]  BY <1>3 DEF ppageAdd
  <2> HIDE DEF n, l
  <2> QED  BY <1>3, <2>1, <2>2 DEF Links
<1>5. /\ s \in Seq(PageSet) /\ Len(s) = Len(ch[h]) + Len(ch[p]) /\ s[1] = h
      /\ \A i \in 1..Len(s) :
           s[i] = IF i > Len(ch[h]) THEN ch[p][i - Len(ch[h])] ELSE ch[h][i]
  BY <1>1
<1> HIDE DEF n, s
<1>6. /\ DOMAIN new = DOMAIN ch \ {p}
      /\ \A g \in DOMAIN new : new[g] = IF g = h THEN s ELSE ch[g]
  OBVIOUS
<1> HIDE DEF new
<1>7. \A g \in DOMAIN new : \A i \in 1..Len(new[g]) :
        /\ G(g, i) \in DOMAIN ch /\ I(g, i) \in 1..Len(ch[G(g, i)])
        /\ new[g][i] = ch[G(g, i)][I(g, i)]
  BY <1>1, <1>5, <1>6
<1>8. /\ DOMAIN new \subseteq PageSet
      /\ \A g \in DOMAIN new : new[g] \in Seq(PageSet) /\ Len(new[g]) >= 1 /\ new[g][1] = g
  <2>1. Len(s) >= 1  BY <1>1, <1>5
  <2>2. \A g \in DOMAIN new : g = h \/ (g \in DOMAIN ch /\ new[g] = ch[g])  BY <1>6
  <2>3. h \in DOMAIN new => new[h] = s  BY <1>6
  <2> QED  BY <1>1, <1>5, <1>6, <2>1, <2>2, <2>3
<1>9. ASSUME NEW f \in DOMAIN new, NEW g \in DOMAIN new,
             NEW i \in 1..Len(new[f]), NEW j \in 1..Len(new[g]), new[f][i] = new[g][j]
      PROVE  f = g /\ i = j
  <2>1. G(f, i) = G(g, j) /\ I(f, i) = I(g, j)
    <3>1. ch[G(f, i)][I(f, i)] = ch[G(g, j)][I(g, j)]  BY <1>7, <1>9
    <3>2. G(f, i) \in DOMAIN ch /\ G(g, j) \in DOMAIN ch
          /\ I(f, i) \in 1..Len(ch[G(f, i)]) /\ I(g, j) \in 1..Len(ch[G(g, j)])
      BY <1>7
    <3> HIDE DEF G, I
    <3> QED  BY <1>2, <3>1, <3>2
  <2>2. f # p /\ g # p  BY <1>6
  <2> QED  BY <1>1, <2>1, <2>2
<1>10. ASSUME NEW g \in DOMAIN new, NEW i \in 1..Len(new[g])
       PROVE  /\ n.next[new[g][i]] = IF i = Len(new[g]) THEN NULL ELSE new[g][i + 1]
              /\ n.prev[new[g][i]] = IF i = 1 THEN NULL ELSE new[g][i - 1]
  <2> DEFINE f == G(g, i)
             k == I(g, i)
             x == new[g][i]
  <2>1. f \in DOMAIN ch /\ k \in 1..Len(ch[f]) /\ x = ch[f][k] /\ x \in PageSet
    BY <1>1, <1>7
  <2>2. /\ m.next[x] = IF k = Len(ch[f]) THEN NULL ELSE ch[f][k + 1]
        /\ m.prev[x] = IF k = 1 THEN NULL ELSE ch[f][k - 1]
    <3> HIDE DEF f, k, x
    <3> QED  BY <2>1 DEF Family
  <2>3. x = l <=> f = h /\ k = Len(ch[h])
    <3>1. Len(ch[h]) \in 1..Len(ch[h])  BY <1>1
    <3> HIDE DEF f, k, x
    <3> QED  BY <1>2, <2>1, <3>1
  <2>4. x = p <=> f = p /\ k = 1
    <3>1. 1 \in 1..Len(ch[p]) /\ ch[p][1] = p  BY <1>1
    <3> HIDE DEF f, k, x
    <3> QED  BY <1>2, <2>1, <3>1
  <2>5. CASE g # h
    <3>1. f = g /\ k = i /\ f # p /\ new[g] = ch[g]  BY <1>6, <2>5
    <3> HIDE DEF f, k
    <3> QED  BY <1>4, <2>1, <2>2, <2>3, <2>4, <2>5, <3>1
  <2>6. CASE g = h /\ i <= Len(ch[h])
    <3>1. f = h /\ k = i /\ new[g] = s /\ i # Len(s) /\ i \in Nat  BY <1>1, <1>5, <1>6, <2>6
    <3>2. s[i + 1] = IF i = Len(ch[h]) THEN p ELSE ch[h][i + 1]
      BY <1>1, <1>5, <1>6, <2>6
    <3>3. i # 1 => s[i - 1] = ch[h][i - 1]
      BY <1>1, <1>5, <1>6, <2>6
    <3> HIDE DEF f, k
    <3> QED  BY <1>4, <2>1, <2>2, <2>3, <2>4, <2>6, <3>1, <3>2, <3>3
  <2>7. CASE g = h /\ i > Len(ch[h])
    <3>1. f = p /\ k = i - Len(ch[h]) /\ new[g] = s /\ i # 1 /\ i \in Nat
      BY <1>1, <1>5, <1>6, <2>7
    <3>2. /\ i = Len(s) <=> k = Len(ch[p])
          /\ i # Len(s) => s[i + 1] = ch[p][k + 1]
      BY <1>1, <1>5, <1>6, <2>7, <3>1
    <3>3. s[i - 1] = IF k = 1 THEN l ELSE ch[p][k - 1]
      <4>1. i - 1 \in 1..Len(s) /\ Len(ch[h]) \in Nat  BY <1>1, <1>5, <1>6, <2>7
      <4>2. s[i - 1] = IF i - 1 > Len(ch[h]) THEN ch[p][i - 1 - Len(ch[h])] ELSE ch[h][i - 1]
        BY <1>5, <4>1
      <4>3. CASE k = 1
        <5>1. i - 1 = Len(ch[h])  BY <2>7, <3>1, <4>1, <4>3
        <5> HIDE DEF k
        <5> QED  BY <4>1, <4>2, <4>3, <5>1
      <4>4. CASE k # 1
        <5>1. i - 1 > Len(ch[h]) /\ i - 1 - Len(ch[h]) = k - 1  BY <2>7, <3>1, <4>1, <4>4
        <5> HIDE DEF k
        <5> QED  BY <4>2, <4>4, <5>1
      <4> QED  BY <4>3, <4>4
    <3> HIDE DEF f, k, l
    <3> QED  BY <1>4, <2>1, <2>2, <2>3, <2>4, <2>7, <3>1, <3>2, <3>3
  <2> QED  BY <1>1, <1>6, <2>5, <2>6, <2>7
<1>11. Family(n, new)  BY <1>4, <1>8, <1>9, <1>10 DEF Family
<1> QED  BY <1>11 DEF Joined, n, new, s

\* The last page of the chain under h, l, is one of its own.
Parted(ch, h, l) ==
  [g \in DOMAIN ch \cup {l} |->
     IF g = l THEN <<l>> ELSE IF g = h THEN SubSeq(ch[h], 1, Len(ch[h]) - 1) ELSE ch[g]]

LEMMA RemoveFamily ==
  ASSUME NEW m, NEW ch, Family(m, ch), NEW h \in DOMAIN ch
  PROVE  LET l == ch[h][Len(ch[h])] IN
         /\ CanRemove(m, h) <=> Len(ch[h]) > 1
         /\ Len(ch[h]) > 1 => l \notin DOMAIN ch /\ l \in PageSet
         /\ Len(ch[h]) > 1 =>
              Family(ppageRemove(m, h), Parted(ch, h, l))
<1> DEFINE len == Len(ch[h])
           l == ch[h][len]
           it == ch[h][len - 1]
           n == ppageRemove(m, h)
           s == SubSeq(ch[h], 1, len - 1)
           new == [g \in DOMAIN ch \cup {l} |->
                     IF g = l THEN <<l>> ELSE IF g = h THEN s ELSE ch[g]]
           G(g) == IF g = l THEN h ELSE g
           I(g, i) == IF g = l THEN len ELSE i
<1>1. /\ \A g \in DOMAIN ch : /\ g \in PageSet /\ ch[g] \in Seq(PageSet) /\ ch[g][1] = g
                              /\ Len(ch[g]) \in Nat /\ Len(ch[g]) >= 1
      /\ \A g \in DOMAIN ch : \A i \in 1..Len(ch[g]) : ch[g][i] \in PageSet
  BY DEF Family
<1>2. \A f, g \in DOMAIN ch : \A i \in 1..Len(ch[f]), j \in 1..Len(ch[g]) :
        ch[f][i] = ch[g][j] => f = g /\ i = j
  BY DEF Family
<1>3. LastOf(m, h) = l /\ l \in PageSet /\ len \in 1..len /\ len \in Nat  BY <1>1, WalkIs
<1>4. m.prev[l] = IF len = 1 THEN NULL ELSE it  BY <1>3 DEF Family
<1>5. CanRemove(m, h) <=> len > 1
  <2>1. len > 1 => it \in PageSet  BY <1>1
  <2> HIDE DEF l, it, len
  <2> QED  BY <1>3, <1>4, <2>1, PagesAre DEF CanRemove
<1>16. Parted(ch, h, l) = new  BY DEF Parted
<1> SUFFICES ASSUME len > 1
             PROVE  l \notin DOMAIN ch /\ Family(n, new)
  BY <1>3, <1>5, <1>16
<1>6. len - 1 \in 1..len /\ it \in PageSet /\ it # l
  BY <1>1, <1>2, <1>3
<1>7. l \notin DOMAIN ch
  <2>1. \A g \in DOMAIN ch : 1 \in 1..Len(ch[g]) /\ ch[g][1] = g  BY <1>1
  <2>2. \A g \in DOMAIN ch : ch[g][1] = ch[h][len] => 1 = len  BY <1>2, <1>3, <2>1
  <2> QED  BY <2>1, <2>2
<1>8. /\ n \in Links
      /\ \A x \in PageSet : n.next[x] = IF x = it THEN NULL ELSE m.next[x]
      /\ \A x \in PageSet : n.prev[x] = IF x = l THEN NULL ELSE m.prev[x]
  <2>1. m \in Links  BY DEF Family
  <2>2. m.next[it] = l  BY <1>3, <1>6 DEF Family
  <2>3. m.prev[LastOf(m, h)] = it  BY <1>3, <1>4
  <2>4. n = [m EXCEPT !.prev[l] = NULL, !.next[it] = NULL]  BY <2>2, <2>3 DEF ppageRemove
  <2> HIDE DEF n, l, it
  <2> QED  BY <1>3, <1>6, <2>1, <2>4 DEF Links
<1>9. /\ s \in Seq(PageSet) /\ Len(s) = len - 1
      /\ \A i \in 1..(len - 1) : s[i] = ch[h][i]
  BY <1>1, <1>3
<1> HIDE DEF n, s
<1>10. /\ DOMAIN new = DOMAIN ch \cup {l}
       /\ \A g \in DOMAIN new :
            new[g] = IF g = l THEN <<l>> ELSE IF g = h THEN s ELSE ch[g]
  OBVIOUS
<1> HIDE DEF new
<1>11. \A g \in DOMAIN new : \A i \in 1..Len(new[g]) :
        /\ G(g) \in DOMAIN ch /\ I(g, i) \in 1..Len(ch[G(g)]) /\ i \in Nat
        /\ new[g][i] = ch[G(g)][I(g, i)]
        /\ g = h => i < len
        /\ g = l => i = 1
  <2> SUFFICES ASSUME NEW g \in DOMAIN new, NEW i \in 1..Len(new[g])
               PROVE  /\ G(g) \in DOMAIN ch /\ I(g, i) \in 1..Len(ch[G(g)]) /\ i \in Nat
                      /\ new[g][i] = ch[G(g)][I(g, i)]
                      /\ g = h => i < len
                      /\ g = l => i = 1
    OBVIOUS
  <2>1. CASE g = l
    <3>1. new[g] = <<l>>  BY <1>10, <2>1
    <3>2. i = 1 /\ new[g][i] = l  BY <3>1
    <3>3. l # h  BY <1>7
    <3> QED  BY <1>3, <2>1, <3>2, <3>3
  <2>2. CASE g # l /\ g = h
    <3>1. new[g] = s  BY <1>10, <2>2
    <3>2. i \in 1..(len - 1) /\ s[i] = ch[h][i]  BY <1>9, <3>1
    <3> QED  BY <1>3, <2>2, <3>1, <3>2
  <2>3. CASE g # l /\ g # h  BY <1>10, <2>3
  <2> QED  BY <2>1, <2>2, <2>3
<1>12. /\ DOMAIN new \subseteq PageSet
       /\ \A g \in DOMAIN new : new[g] \in Seq(PageSet) /\ Len(new[g]) >= 1 /\ new[g][1] = g
  <2>1. DOMAIN new \subseteq PageSet  BY <1>1, <1>3, <1>10
  <2> SUFFICES ASSUME NEW g \in DOMAIN new
               PROVE  new[g] \in Seq(PageSet) /\ Len(new[g]) >= 1 /\ new[g][1] = g
    BY <2>1
  <2>2. CASE g = l
    <3>1. new[g] = <<l>>  BY <1>10, <2>2
    <3> HIDE DEF l
    <3> QED  BY <1>3, <2>2, <3>1
  <2>3. CASE g # l /\ g = h
    <3>1. new[g] = s /\ 1 \in 1..(len - 1)  BY <1>3, <1>10, <2>3
    <3> QED  BY <1>1, <1>9, <2>3, <3>1
  <2>4. CASE g # l /\ g # h  BY <1>1, <1>10, <2>4
  <2> QED  BY <2>2, <2>3, <2>4
<1>13. ASSUME NEW f \in DOMAIN new, NEW g \in DOMAIN new,
             NEW i \in 1..Len(new[f]), NEW j \in 1..Len(new[g]), new[f][i] = new[g][j]
       PROVE  f = g /\ i = j
  <2>1. G(f) = G(g) /\ I(f, i) = I(g, j)
    <3>1. ch[G(f)][I(f, i)] = ch[G(g)][I(g, j)]  BY <1>11, <1>13
    <3>2. G(f) \in DOMAIN ch /\ G(g) \in DOMAIN ch
          /\ I(f, i) \in 1..Len(ch[G(f)]) /\ I(g, j) \in 1..Len(ch[G(g)])
      BY <1>11
    <3> HIDE DEF G, I
    <3> QED  BY <1>2, <3>1, <3>2
  <2>2. /\ f = h => i < len
        /\ g = h => j < len
        /\ f = l => i = 1
        /\ g = l => j = 1
    BY <1>11
  <2> HIDE DEF l
  <2> QED  BY <1>3, <2>1, <2>2
<1>14. ASSUME NEW g \in DOMAIN new, NEW i \in 1..Len(new[g])
       PROVE  /\ n.next[new[g][i]] = IF i = Len(new[g]) THEN NULL ELSE new[g][i + 1]
              /\ n.prev[new[g][i]] = IF i = 1 THEN NULL ELSE new[g][i - 1]
  <2> DEFINE f == G(g)
             k == I(g, i)
             x == new[g][i]
  <2>1. /\ f \in DOMAIN ch /\ k \in 1..Len(ch[f]) /\ x = ch[f][k] /\ x \in PageSet
        /\ g = h => i < len
        /\ g = l => i = 1
        /\ i \in Nat
    BY <1>1, <1>11
  <2>2. /\ m.next[x] = IF k = Len(ch[f]) THEN NULL ELSE ch[f][k + 1]
        /\ m.prev[x] = IF k = 1 THEN NULL ELSE ch[f][k - 1]
    <3> HIDE DEF f, k, x
    <3> QED  BY <2>1 DEF Family
  <2>3. x = l <=> f = h /\ k = len
    <3> HIDE DEF f, k, x
    <3> QED  BY <1>2, <1>3, <2>1
  <2>4. x = it <=> f = h /\ k = len - 1
    <3> HIDE DEF f, k, x
    <3> QED  BY <1>2, <1>6, <2>1
  <2>5. CASE g = l
    <3>1. f = h /\ k = len /\ new[g] = <<l>> /\ i = 1  BY <1>10, <2>1, <2>5
    <3>2. Len(new[g]) = 1  BY <3>1
    <3> HIDE DEF f, k, x, l
    <3> QED  BY <1>3, <1>8, <2>1, <2>2, <2>3, <2>4, <3>1, <3>2 DEF x
  <2>6. CASE g # l /\ g = h
    <3>1. f = h /\ k = i /\ new[g] = s /\ i < len /\ i \in Nat  BY <1>10, <2>1, <2>6
    <3>2. i # len - 1 => i + 1 \in 1..(len - 1) /\ s[i + 1] = ch[h][i + 1]
      BY <1>3, <1>9, <2>1, <3>1
    <3>3. i # 1 => s[i - 1] = ch[h][i - 1]
      BY <1>3, <1>9, <2>1, <3>1
    <3> HIDE DEF f, k, l, it
    <3> QED  BY <1>3, <1>8, <1>9, <2>1, <2>2, <2>3, <2>4, <2>6, <3>1, <3>2, <3>3
  <2>7. CASE g # l /\ g # h
    <3>1. f = g /\ k = i /\ f # h /\ new[g] = ch[g]  BY <1>10, <2>7
    <3> HIDE DEF f, k
    <3> QED  BY <1>8, <2>1, <2>2, <2>3, <2>4, <2>7, <3>1
  <2> QED  BY <2>5, <2>6, <2>7
<1>15. Family(n, new)  BY <1>8, <1>12, <1>13, <1>14 DEF Family
<1> QED  BY <1>7, <1>15

\* The chains of m are those that own has the pages of, each under its first page.
Shares(m, own) == \E ch : Family(m, ch) /\ own = [h \in DOMAIN ch |-> ToSet(ch[h])]

LEMMA SharesFacts ==
  ASSUME NEW m, NEW own, Shares(m, own)
  PROVE  /\ m \in Links
         /\ \A h \in DOMAIN own : /\ own[h] \subseteq PageSet /\ h \in own[h]
                                  /\ ToSet(Walk(m, h)) = own[h] /\ m.prev[h] = NULL
         /\ \A g, h \in DOMAIN own : own[g] \cap own[h] # {} => g = h
         /\ \A h \in DOMAIN own : \A p \in own[h] :
              m.next[p] # NULL => m.prev[m.next[p]] = p
<1>1. PICK ch : Family(m, ch) /\ own = [h \in DOMAIN ch |-> ToSet(ch[h])]  BY DEF Shares
<1>2. /\ \A g \in DOMAIN ch : /\ ch[g] \in Seq(PageSet) /\ ch[g][1] = g
                              /\ Len(ch[g]) \in Nat /\ Len(ch[g]) >= 1
                              /\ DOMAIN ch[g] = 1..Len(ch[g])
      /\ \A g \in DOMAIN ch : \A i \in 1..Len(ch[g]) : ch[g][i] \in PageSet
  BY <1>1 DEF Family
<1>3. DOMAIN own = DOMAIN ch /\ \A h \in DOMAIN ch : own[h] = ToSet(ch[h])  BY <1>1
<1>4. \A h \in DOMAIN ch : ToSet(Walk(m, h)) = own[h]  BY <1>1, <1>3, WalkIs
<1>5. \A h \in DOMAIN ch : 1 \in DOMAIN ch[h] /\ m.prev[h] = NULL
  BY <1>1, <1>2 DEF Family
<1>6. \A h \in DOMAIN ch : own[h] \subseteq PageSet /\ h \in own[h]
  BY <1>2, <1>3, <1>5 DEF ToSet
<1>7. \A f, g \in DOMAIN ch : \A i \in 1..Len(ch[f]), j \in 1..Len(ch[g]) :
        ch[f][i] = ch[g][j] => f = g
  BY <1>1 DEF Family
<1>8. \A g, h \in DOMAIN own : own[g] \cap own[h] # {} => g = h
  BY <1>2, <1>3, <1>7 DEF ToSet
<1>9. ASSUME NEW h \in DOMAIN own, NEW p \in own[h], m.next[p] # NULL
      PROVE  m.prev[m.next[p]] = p
  <2>1. h \in DOMAIN ch  BY <1>3
  <2>2. PICK i \in 1..Len(ch[h]) : p = ch[h][i]  BY <1>2, <1>3, <2>1 DEF ToSet
  <2>3. m.next[p] = IF i = Len(ch[h]) THEN NULL ELSE ch[h][i + 1]
    BY <1>1, <2>1, <2>2 DEF Family
  <2>4. i + 1 \in 1..Len(ch[h]) /\ i + 1 # 1 /\ i + 1 - 1 = i /\ m.next[p] = ch[h][i + 1]
    BY <1>2, <1>9, <2>1, <2>3
  <2>5. m.prev[ch[h][i + 1]] = ch[h][i]  BY <1>1, <2>1, <2>4 DEF Family
  <2> QED  BY <2>2, <2>4, <2>5
<1>10. m \in Links  BY <1>1 DEF Family
<1> QED  BY <1>3, <1>4, <1>5, <1>6, <1>8, <1>9, <1>10

\* The pages under p go to those under h.
Merge(own, h, p) == [g \in DOMAIN own \ {p} |-> IF g = h THEN own[h] \cup own[p] ELSE own[g]]

LEMMA AddShares ==
  ASSUME NEW m, NEW own, Shares(m, own), NEW h \in DOMAIN own, NEW p \in DOMAIN own, h # p
  PROVE  Shares(ppageAdd(m, h, p), Merge(own, h, p))
<1>1. PICK ch : Family(m, ch) /\ own = [g \in DOMAIN ch |-> ToSet(ch[g])]  BY DEF Shares
<1>2. DOMAIN own = DOMAIN ch /\ \A g \in DOMAIN ch : own[g] = ToSet(ch[g])  BY <1>1
<1> DEFINE s == ch[h] \o ch[p]
           new == Joined(ch, h, p)
<1>3. Family(ppageAdd(m, h, p), new)  BY <1>1, <1>2, AddFamily
<1>4. ToSet(s) = ToSet(ch[h]) \cup ToSet(ch[p])
  <2> DEFINE a == ch[h]
             b == ch[p]
  <2>1. a \in Seq(PageSet) /\ b \in Seq(PageSet)  BY <1>1, <1>2 DEF Family
  <2>6. s = a \o b  OBVIOUS
  <2> HIDE DEF a, b, s
  <2>2. \A i \in 1..Len(a) : i \in 1..Len(s) /\ s[i] = a[i]  BY <2>1, <2>6
  <2>3. \A i \in 1..Len(b) : i + Len(a) \in 1..Len(s) /\ s[i + Len(a)] = b[i]
    BY <2>1, <2>6
  <2>4. \A i \in 1..Len(s) : \/ i \in 1..Len(a) /\ s[i] = a[i]
                             \/ i - Len(a) \in 1..Len(b) /\ s[i] = b[i - Len(a)]
    BY <2>1, <2>6
  <2>5. /\ DOMAIN s = 1..Len(s) /\ DOMAIN a = 1..Len(a) /\ DOMAIN b = 1..Len(b)
    BY <2>1, <2>6
  <2>7. ToSet(s) \subseteq ToSet(a) \cup ToSet(b)  BY <2>4, <2>5 DEF ToSet
  <2>8. ToSet(a) \subseteq ToSet(s)  BY <2>2, <2>5 DEF ToSet
  <2>9. ToSet(b) \subseteq ToSet(s)
    <3>1. \A i \in 1..Len(b) : \E j \in 1..Len(s) : s[j] = b[i]  BY <2>3
    <3> QED  BY <2>5, <3>1 DEF ToSet
  <2> QED  BY <2>7, <2>8, <2>9 DEF a, b
<1> HIDE DEF s
<1>5. Merge(own, h, p) = [g \in DOMAIN new |-> ToSet(new[g])]
  BY <1>2, <1>4 DEF Merge, Joined, s
<1> HIDE DEF new
<1> QED  BY <1>3, <1>5 DEF Shares

\* l, the last of the pages under h, is taken off and stands alone.
Split(own, h, l) ==
  [g \in DOMAIN own \cup {l} |->
     IF g = l THEN {l} ELSE IF g = h THEN own[h] \ {l} ELSE own[g]]

LEMMA RemoveShares ==
  ASSUME NEW m, NEW own, Shares(m, own), NEW h \in DOMAIN own, CanRemove(m, h)
  PROVE  /\ LastOf(m, h) \in own[h] \ DOMAIN own
         /\ Shares(ppageRemove(m, h), Split(own, h, LastOf(m, h)))
<1>1. PICK ch : Family(m, ch) /\ own = [g \in DOMAIN ch |-> ToSet(ch[g])]  BY DEF Shares
<1>2. DOMAIN own = DOMAIN ch /\ \A g \in DOMAIN ch : own[g] = ToSet(ch[g])  BY <1>1
<1> DEFINE len == Len(ch[h])
           l == ch[h][len]
           s == SubSeq(ch[h], 1, len - 1)
           new == Parted(ch, h, l)
<1>3. LastOf(m, h) = l  BY <1>1, <1>2, WalkIs
<1>4. len > 1 /\ l \notin DOMAIN ch /\ Family(ppageRemove(m, h), new)
  BY <1>1, <1>2, RemoveFamily
<1>5. ch[h] \in Seq(PageSet) /\ len \in Nat /\ DOMAIN ch[h] = 1..len /\ len \in 1..len
  BY <1>1, <1>2, <1>4 DEF Family
<1>6. \A i, j \in 1..len : ch[h][i] = ch[h][j] => i = j  BY <1>1, <1>2 DEF Family
<1>7. l \in ToSet(ch[h])  BY <1>5 DEF ToSet
<1>8. ToSet(s) = ToSet(ch[h]) \ {l}
  <2>1. /\ DOMAIN s = 1..(len - 1)
        /\ \A i \in 1..(len - 1) : s[i] = ch[h][i] /\ i \in 1..len /\ i # len
    BY <1>4, <1>5
  <2>2. \A i \in 1..len : i # len => i \in 1..(len - 1)  BY <1>5
  <2> HIDE DEF s, len
  <2> QED  BY <1>5, <1>6, <2>1, <2>2 DEF ToSet
<1>9. ToSet(<<l>>) = {l}
  <2> HIDE DEF l
  <2>1. DOMAIN <<l>> = {1} /\ <<l>>[1] = l  OBVIOUS
  <2> QED  BY <2>1 DEF ToSet
<1> HIDE DEF s, l
<1>10. Split(own, h, l) = [g \in DOMAIN new |-> ToSet(new[g])]
  <2>1. /\ DOMAIN new = DOMAIN ch \cup {l}
        /\ \A g \in DOMAIN new :
             new[g] = IF g = l THEN <<l>> ELSE IF g = h THEN s ELSE ch[g]
    BY DEF Parted, s
  <2> HIDE DEF new
  <2>2. ASSUME NEW g \in DOMAIN ch \cup {l}
        PROVE  ToSet(new[g]) = IF g = l THEN {l} ELSE IF g = h THEN own[h] \ {l} ELSE own[g]
    <3>1. CASE g = l
      <4>1. new[g] = <<l>>  BY <2>1, <3>1
      <4> QED  BY <1>9, <3>1, <4>1
    <3>2. CASE g # l /\ g = h
      <4>1. new[g] = s  BY <2>1, <3>2
      <4> QED  BY <1>2, <1>8, <3>2, <4>1
    <3>3. CASE g # l /\ g # h
      <4>1. new[g] = ch[g]  BY <2>1, <3>3
      <4> QED  BY <1>2, <3>3, <4>1
    <3> QED  BY <3>1, <3>2, <3>3
  <2> HIDE DEF new
  <2> QED  BY <1>2, <2>1, <2>2 DEF Split
<1> HIDE DEF new
<1>11. Shares(ppageRemove(m, h), Split(own, h, l))  BY <1>4, <1>10 DEF Shares
<1> QED  BY <1>2, <1>3, <1>4, <1>7, <1>11

\* Once the pages up to n have been added, those are under the first.
Done(n) == [h \in {0} \cup (n + 1)..(NUMBERPAGES - 1) |-> IF h = 0 THEN 0..n ELSE {h}]

LEMMA InitShares ==
  /\ Shares(init_pfa_list, Done(NUMBERPAGES - 1))
  /\ Done(NUMBERPAGES - 1) = [h \in {0} |-> PageSet]
<1> DEFINE start == [next |-> [p \in PageSet |-> NULL], prev |-> [p \in PageSet |-> NULL]]
           Step(x, n) == IF n = 0 THEN start ELSE ppageAdd(x, 0, n)
           Built == CHOOSE f : f = [n \in PageSet |-> Step(f[n - 1], n)]
<1>1. init_pfa_list = Built[NUMBERPAGES - 1]  BY DEF init_pfa_list, free_pages_list
<1>2. Shares(start, Done(0))
  <2> DEFINE ch == [h \in PageSet |-> <<h>>]
  <2>1. DOMAIN ch = PageSet /\ \A h \in PageSet : /\ ch[h] = <<h>> /\ ch[h] \in Seq(PageSet)
                                                  /\ Len(ch[h]) = 1 /\ ch[h][1] = h
    OBVIOUS
  <2>2. \A h \in PageSet : ToSet(<<h>>) = {h}  BY DEF ToSet
  <2>3. start \in Links /\ \A p \in PageSet : start.next[p] = NULL /\ start.prev[p] = NULL
    BY DEF Links
  <2>4. {0} \cup (0 + 1)..(NUMBERPAGES - 1) = PageSet  BY PagesAre DEF PageSet
  <2>5. 0..0 = {0}  OBVIOUS
  <2>6. Done(0) = [h \in DOMAIN ch |-> ToSet(ch[h])]  BY <2>1, <2>2, <2>4, <2>5 DEF Done
  <2> HIDE DEF ch, start
  <2>7. Family(start, ch)  BY <2>1, <2>3 DEF Family
  <2> QED  BY <2>6, <2>7 DEF Shares
<1> HIDE DEF start
<1>3. ASSUME NEW x, NEW n \in Nat, n # 0, n \in PageSet, Shares(x, Done(n - 1))
      PROVE  Shares(Step(x, n), Done(n))
  <2>1. 0 \in DOMAIN Done(n - 1) /\ n \in DOMAIN Done(n - 1)  BY <1>3 DEF Done, PageSet
  <2>2. Shares(ppageAdd(x, 0, n), Merge(Done(n - 1), 0, n))  BY <1>3, <2>1, AddShares
  <2>3. Merge(Done(n - 1), 0, n) = Done(n)
    <3>1. ({0} \cup (n - 1 + 1)..(NUMBERPAGES - 1)) \ {n} = {0} \cup (n + 1)..(NUMBERPAGES - 1)
      BY <1>3, PagesAre DEF PageSet
    <3>2. 0..(n - 1) \cup {n} = 0..n  BY <1>3
    <3>3. Done(n - 1)[0] = 0..(n - 1) /\ Done(n - 1)[n] = {n}
      BY <1>3, <2>1 DEF Done
    <3>4. DOMAIN Done(n - 1) = {0} \cup (n - 1 + 1)..(NUMBERPAGES - 1)  BY DEF Done
    <3>5. \A h \in DOMAIN Done(n - 1) : h # 0 => Done(n - 1)[h] = {h}  BY DEF Done
    <3>6. Merge(Done(n - 1), 0, n) =
            [h \in {0} \cup (n + 1)..(NUMBERPAGES - 1) |->
               IF h = 0 THEN Done(n - 1)[0] \cup Done(n - 1)[n] ELSE Done(n - 1)[h]]
      BY <3>1, <3>4 DEF Merge
    <3>7. \A h \in {0} \cup (n + 1)..(NUMBERPAGES - 1) : h \in DOMAIN Done(n - 1)
      BY <3>1, <3>4
    <3>8. [h \in {0} \cup (n + 1)..(NUMBERPAGES - 1) |->
               IF h = 0 THEN Done(n - 1)[0] \cup Done(n - 1)[n] ELSE Done(n - 1)[h]]
          = [h \in {0} \cup (n + 1)..(NUMBERPAGES - 1) |-> IF h = 0 THEN 0..n ELSE {h}]
      BY <3>2, <3>3, <3>5, <3>7
    <3> QED  BY <3>6, <3>8 DEF Done
  <2> QED  BY <1>3, <2>2, <2>3
<1>4. \A x : Step(x, 0) = start  OBVIOUS
<1> HIDE DEF Step
<1>5. Built = [n \in PageSet |-> Step(Built[n - 1], n)]
  <2> DEFINE T == {n \in Nat : \E f : \A k \in 0..n : f[k] = Step(f[k - 1], k)}
  <2>1. 0 \in T
    <3> DEFINE f == [k \in {0} |-> start]
    <3>1. \A k \in 0..0 : f[k] = Step(f[k - 1], k)  BY <1>4
    <3> HIDE DEF f
    <3> QED  BY <3>1
  <2>2. ASSUME NEW n \in Nat, n \in T PROVE n + 1 \in T
    <3>1. PICK f : \A k \in 0..n : f[k] = Step(f[k - 1], k)  BY <2>2
    <3> DEFINE g == [k \in -1..(n + 1) |-> IF k <= n THEN f[k] ELSE Step(f[n], n + 1)]
    <3>2. \A k \in 0..n : g[k] = f[k] /\ g[k - 1] = f[k - 1]  OBVIOUS
    <3>3. g[n + 1] = Step(g[n], n + 1)  OBVIOUS
    <3> HIDE DEF g
    <3>4. \A k \in 0..(n + 1) : g[k] = Step(g[k - 1], k)  BY <3>1, <3>2, <3>3
    <3> QED  BY <3>4
  <2> HIDE DEF T
  <2>3. NUMBERPAGES - 1 \in T  BY <2>1, <2>2, SetInduction, PagesAre, PagesAssumption
  <2>4. PICK f : \A k \in PageSet : f[k] = Step(f[k - 1], k)  BY <2>3 DEF T, PageSet
  <2> DEFINE g == [k \in PageSet |-> f[k]]
  <2>5. \A k \in PageSet : Step(g[k - 1], k) = g[k]
    <3> SUFFICES ASSUME NEW k \in PageSet PROVE Step(g[k - 1], k) = g[k]  OBVIOUS
    <3>1. CASE k = 0  BY <1>4, <2>4, <3>1
    <3>2. CASE k # 0
      <4>1. k - 1 \in PageSet  BY <3>2, PagesAssumption DEF PageSet
      <4> QED  BY <2>4, <4>1
    <3> QED  BY <3>1, <3>2
  <2>6. g = [n \in PageSet |-> Step(g[n - 1], n)]  BY <2>5
  <2> HIDE DEF g
  <2> QED  BY <2>6
<1> HIDE DEF Built
<1> DEFINE T == {n \in Nat : n \in PageSet => Shares(Built[n], Done(n))}
<1>6. 0 \in T  BY <1>2, <1>4, <1>5
<1>7. ASSUME NEW n \in Nat, n \in T PROVE n + 1 \in T
  <2> SUFFICES ASSUME n + 1 \in PageSet PROVE Shares(Built[n + 1], Done(n + 1))  OBVIOUS
  <2>1. n \in PageSet  BY PagesAssumption DEF PageSet
  <2>2. Shares(Built[n + 1 - 1], Done(n + 1 - 1))  BY <1>7, <2>1
  <2>3. Built[n + 1] = Step(Built[n + 1 - 1], n + 1)  BY <1>5
  <2>4. n + 1 \in Nat /\ n + 1 # 0  OBVIOUS
  <2> QED  BY <1>3, <2>2, <2>3, <2>4
<1> HIDE DEF T
<1>8. Nat \subseteq T  BY <1>6, <1>7, SetInduction
<1>9. NUMBERPAGES - 1 \in PageSet /\ NUMBERPAGES - 1 \in Nat
  BY PagesAssumption DEF PageSet
<1>10. Done(NUMBERPAGES - 1) = [h \in {0} |-> PageSet]
  <2>1. (NUMBERPAGES - 1 + 1)..(NUMBERPAGES - 1) = {}  BY PagesAssumption
  <2> QED  BY <2>1 DEF Done, PageSet
<1> QED  BY <1>1, <1>8, <1>9, <1>10 DEF T

\* The pages of t, which were under the first page, stand alone.
Cut(own, t) ==
  [h \in DOMAIN own \cup t |->
     IF h \in t THEN {h} ELSE IF h = 0 THEN own[0] \ t ELSE own[h]]

\* pgs, n of the pages under the first but itself, have been removed, which leaves m.
Off(own, m, pgs, n) ==
  /\ pgs \in Seq(own[0] \ {0}) /\ Len(pgs) = n
  /\ \A i, j \in 1..n : pgs[i] = pgs[j] => i = j
  /\ ToSet(pgs) \cap DOMAIN own = {}
  /\ Shares(m, Cut(own, ToSet(pgs)))

LEMMA OffMore ==
  ASSUME NEW own, 0 \in DOMAIN own, NEW n \in Nat, NEW m, NEW pgs, Off(own, m, pgs, n),
         CanRemove(m, 0)
  PROVE  Off(own, ppageRemove(m, 0), Append(pgs, LastOf(m, 0)), n + 1)
<1> DEFINE l == LastOf(m, 0)
           t == ToSet(pgs)
           s == Append(pgs, l)
           cut == Cut(own, t)
<1>1. /\ pgs \in Seq(own[0] \ {0}) /\ Len(pgs) = n /\ DOMAIN pgs = 1..n
      /\ t \cap DOMAIN own = {} /\ Shares(m, cut)
  BY DEF Off
<1>2. \A i, j \in 1..n : pgs[i] = pgs[j] => i = j  BY DEF Off
<1> HIDE DEF l, t
<1>3. DOMAIN cut = DOMAIN own \cup t /\ cut[0] = own[0] \ t /\ 0 \notin t
  BY <1>1 DEF Cut
<1> HIDE DEF cut
<1>4. l \in cut[0] \ DOMAIN cut /\ Shares(ppageRemove(m, 0), Split(cut, 0, l))
  BY <1>1, <1>3, RemoveShares DEF l
<1>5. l \in own[0] /\ l \notin t /\ l # 0 /\ l \notin DOMAIN own  BY <1>3, <1>4
<1>6. /\ s \in Seq(own[0] \ {0}) /\ Len(s) = n + 1 /\ DOMAIN s = 1..(n + 1)
      /\ s[n + 1] = l /\ \A i \in 1..n : s[i] = pgs[i]
  BY <1>1, <1>5
<1> HIDE DEF s
<1>7. \A i \in 1..n : pgs[i] # l  BY <1>1, <1>5 DEF ToSet, t
<1>8. \A i \in 1..(n + 1) : i \in 1..n \/ i = n + 1  OBVIOUS
<1>9. \A i, j \in 1..(n + 1) : s[i] = s[j] => i = j  BY <1>2, <1>6, <1>7, <1>8
<1>10. ToSet(s) = t \cup {l}
  <2>1. n + 1 \in 1..(n + 1) /\ 1..n \subseteq 1..(n + 1)  OBVIOUS
  <2>2. ToSet(s) \subseteq t \cup {l}  BY <1>1, <1>6, <1>8 DEF ToSet, t
  <2>3. t \cup {l} \subseteq ToSet(s)  BY <1>1, <1>6, <2>1 DEF ToSet, t
  <2> QED  BY <2>2, <2>3
<1>11. Split(cut, 0, l) = Cut(own, t \cup {l})
  <2>1. DOMAIN Split(cut, 0, l) = DOMAIN own \cup t \cup {l}  BY <1>3 DEF Split
  <2>2. ASSUME NEW h \in DOMAIN own \cup t \cup {l}
        PROVE  Split(cut, 0, l)[h] = IF h \in t \cup {l} THEN {h}
                                     ELSE IF h = 0 THEN own[0] \ (t \cup {l}) ELSE own[h]
    <3>1. h # l => cut[h] = IF h \in t THEN {h} ELSE IF h = 0 THEN own[0] \ t ELSE own[h]
      BY <2>2 DEF cut, Cut
    <3>2. Split(cut, 0, l)[h] = IF h = l THEN {l} ELSE IF h = 0 THEN cut[0] \ {l} ELSE cut[h]
      BY <1>3, <2>2 DEF Split
    <3>3. CASE h = l  BY <3>2, <3>3
    <3>4. CASE h = 0  BY <1>3, <1>5, <3>2, <3>4
    <3>5. CASE h # l /\ h # 0  BY <3>1, <3>2, <3>5
    <3> QED  BY <3>3, <3>4, <3>5
  <2> DEFINE f == Split(cut, 0, l)
  <2>3. f = [h \in DOMAIN f |-> f[h]]  BY DEF Split
  <2> HIDE DEF f
  <2>4. f = Cut(own, t \cup {l})  BY <2>1, <2>2, <2>3 DEF f, Cut
  <2> QED  BY <2>4 DEF f
<1>12. ToSet(s) \cap DOMAIN own = {}  BY <1>1, <1>5, <1>10
<1>13. Shares(ppageRemove(m, 0), Cut(own, ToSet(s)))  BY <1>4, <1>10, <1>11
<1>14. Off(own, ppageRemove(m, 0), s, n + 1)  BY <1>6, <1>9, <1>12, <1>13 DEF Off
<1> QED  BY <1>14 DEF s, l

LEMMA OffNone ==
  ASSUME NEW own, 0 \in DOMAIN own, Shares(links, own)
  PROVE  Off(own, links, <<>>, 0)
<1>1. ToSet(<<>>) = {}  BY DEF ToSet
<1>2. own = [h \in DOMAIN own |-> own[h]]  BY DEF Shares
<1>3. Cut(own, {}) = own  BY <1>2 DEF Cut
<1>4. <<>> \in Seq(own[0] \ {0}) /\ Len(<<>>) = 0  OBVIOUS
<1> QED  BY <1>1, <1>3, <1>4 DEF Off

\* The removals of a call come to n pages off the list, or to a null pointer.
LEMMA Removes ==
  ASSUME NEW own, 0 \in DOMAIN own, Shares(links, own), NEW n \in Nat
  PROVE  \E m, pgs, w : /\ Removed(n) = [m |-> m, pgs |-> pgs, wild |-> w] /\ w \in BOOLEAN
                        /\ ~w => Off(own, m, pgs, n)
<1> DEFINE start == [m |-> links, pgs |-> <<>>, wild |-> FALSE]
           Step(x, k) ==
             IF k = 0 THEN start
             ELSE LET s == x
                  IN  IF s.wild \/ ~CanRemove(s.m, free_pages_list)
                      THEN [s EXCEPT !.wild = TRUE]
                      ELSE [s EXCEPT !.m = ppageRemove(@, free_pages_list),
                                     !.pgs = Append(@, LastOf(s.m, free_pages_list))]
           Loop == CHOOSE f : f = [k \in 0..n |-> Step(f[k - 1], k)]
           Good(x, k) == \E m, pgs, w : /\ x = [m |-> m, pgs |-> pgs, wild |-> w]
                                        /\ w \in BOOLEAN
                                        /\ ~w => Off(own, m, pgs, k)
<1>1. Removed(n) = Loop[n]  BY DEF Removed
<1>2. Good(start, 0)  BY OffNone
<1>3. ASSUME NEW x, NEW k \in Nat, k # 0, Good(x, k - 1) PROVE Good(Step(x, k), k)
  <2>1. PICK m, pgs, w : /\ x = [m |-> m, pgs |-> pgs, wild |-> w]
                         /\ w \in BOOLEAN
                         /\ ~w => Off(own, m, pgs, k - 1)
    BY <1>3
  <2> HIDE DEF start
  <2>2. CASE w \/ ~CanRemove(m, 0)
    <3>1. Step(x, k) = [m |-> m, pgs |-> pgs, wild |-> TRUE]
      BY <1>3, <2>1, <2>2 DEF free_pages_list
    <3> HIDE DEF Step
    <3> QED  BY <3>1
  <2>3. CASE ~w /\ CanRemove(m, 0)
    <3> DEFINE m2 == ppageRemove(m, 0)
               p2 == Append(pgs, LastOf(m, 0))
    <3>1. Off(own, m2, p2, k)
      <4>1. k - 1 \in Nat /\ k - 1 + 1 = k  BY <1>3
      <4>2. Off(own, m2, p2, k - 1 + 1)  BY <2>1, <2>3, <4>1, OffMore
      <4> HIDE DEF m2, p2
      <4> QED  BY <4>1, <4>2
    <3>2. Step(x, k) = [m |-> m2, pgs |-> p2, wild |-> FALSE]
      BY <1>3, <2>1, <2>3 DEF free_pages_list
    <3> HIDE DEF Step, m2, p2
    <3> QED  BY <3>1, <3>2
  <2> QED  BY <2>2, <2>3
<1>4. \A x : Step(x, 0) = start  OBVIOUS
<1> HIDE DEF Step, start, Good
<1>5. Loop = [k \in 0..n |-> Step(Loop[k - 1], k)]
  <2> DEFINE T == {i \in Nat : \E f : \A k \in 0..i : f[k] = Step(f[k - 1], k)}
  <2>1. 0 \in T
    <3> DEFINE f == [k \in {0} |-> start]
    <3>1. \A k \in 0..0 : f[k] = Step(f[k - 1], k)  BY <1>4
    <3> HIDE DEF f
    <3> QED  BY <3>1
  <2>2. ASSUME NEW i \in Nat, i \in T PROVE i + 1 \in T
    <3>1. PICK f : \A k \in 0..i : f[k] = Step(f[k - 1], k)  BY <2>2
    <3> DEFINE g == [k \in -1..(i + 1) |-> IF k <= i THEN f[k] ELSE Step(f[i], i + 1)]
    <3>2. \A k \in 0..i : g[k] = f[k] /\ g[k - 1] = f[k - 1]  OBVIOUS
    <3>3. g[i + 1] = Step(g[i], i + 1)  OBVIOUS
    <3> HIDE DEF g
    <3>4. \A k \in 0..(i + 1) : g[k] = Step(g[k - 1], k)  BY <3>1, <3>2, <3>3
    <3> QED  BY <3>4
  <2> HIDE DEF T
  <2>3. n \in T  BY <2>1, <2>2, SetInduction
  <2>4. PICK f : \A k \in 0..n : f[k] = Step(f[k - 1], k)  BY <2>3 DEF T
  <2> DEFINE g == [k \in 0..n |-> f[k]]
  <2>5. \A k \in 0..n : Step(g[k - 1], k) = g[k]
    <3> SUFFICES ASSUME NEW k \in 0..n PROVE Step(g[k - 1], k) = g[k]  OBVIOUS
    <3>1. CASE k = 0  BY <1>4, <2>4, <3>1
    <3>2. CASE k # 0
      <4>1. k - 1 \in 0..n  BY <3>2
      <4> QED  BY <2>4, <4>1
    <3> QED  BY <3>1, <3>2
  <2>6. g = [k \in 0..n |-> Step(g[k - 1], k)]  BY <2>5
  <2> HIDE DEF g
  <2> QED  BY <2>6
<1> HIDE DEF Loop
<1> DEFINE T == {k \in Nat : k <= n => Good(Loop[k], k)}
<1>6. 0 \in T  BY <1>2, <1>4, <1>5
<1>7. ASSUME NEW k \in Nat, k \in T PROVE k + 1 \in T
  <2> SUFFICES ASSUME k + 1 <= n PROVE Good(Loop[k + 1], k + 1)  OBVIOUS
  <2>1. Good(Loop[k + 1 - 1], k + 1 - 1)  BY <1>7
  <2>2. Loop[k + 1] = Step(Loop[k + 1 - 1], k + 1)  BY <1>5
  <2>3. k + 1 \in Nat /\ k + 1 # 0  OBVIOUS
  <2> QED  BY <1>3, <2>1, <2>2, <2>3
<1> HIDE DEF T
<1>8. Nat \subseteq T  BY <1>6, <1>7, SetInduction
<1>9. Good(Removed(n), n)  BY <1>1, <1>8 DEF T
<1> QED  BY <1>9 DEF Good

\* Of the pages taken off, the first j are linked.
Tied(own, pgs, j) ==
  [h \in DOMAIN own \cup {pgs[1]} \cup {pgs[i] : i \in (j + 1)..Len(pgs)} |->
     IF h = pgs[1] THEN {pgs[i] : i \in 1..j}
     ELSE IF h \in ToSet(pgs) THEN {h} ELSE IF h = 0 THEN own[0] \ ToSet(pgs) ELSE own[h]]

LEMMA TiedMore ==
  ASSUME NEW own, NEW n \in Nat, NEW pgs, DOMAIN pgs = 1..n, Len(pgs) = n,
         \A i, j \in 1..n : pgs[i] = pgs[j] => i = j,
         ToSet(pgs) \cap DOMAIN own = {},
         NEW m, NEW j \in Nat, j + 1 <= n, j >= 1, Shares(m, Tied(own, pgs, j))
  PROVE  Shares(ppageAdd(m, pgs[1], pgs[j + 1]), Tied(own, pgs, j + 1))
<1> DEFINE p == pgs[j + 1]
           h == pgs[1]
           old == Tied(own, pgs, j)
           D == DOMAIN own \cup {h} \cup {pgs[i] : i \in (j + 1)..n}
           E == DOMAIN own \cup {h} \cup {pgs[i] : i \in (j + 1 + 1)..n}
           V(g, k) == IF g = h THEN {pgs[i] : i \in 1..k}
                      ELSE IF g \in ToSet(pgs) THEN {g}
                      ELSE IF g = 0 THEN own[0] \ ToSet(pgs) ELSE own[g]
<1>1. /\ DOMAIN old = D
      /\ \A g \in D : old[g] = V(g, j)
      /\ Tied(own, pgs, j + 1) = [g \in E |-> V(g, j + 1)]
  BY DEF Tied
<1>2. p # h /\ p \in ToSet(pgs) /\ h \in ToSet(pgs)
  <2>1. j + 1 \in 1..n /\ 1 \in 1..n /\ j + 1 # 1  OBVIOUS
  <2> QED  BY <2>1 DEF ToSet
<1>3. (j + 1)..n = (j + 1 + 1)..n \cup {j + 1}  OBVIOUS
<1>4. D \ {p} = E
  <2>1. p \notin DOMAIN own  BY <1>2
  <2>2. \A i \in (j + 1 + 1)..n : pgs[i] # p
    <3>1. \A i \in (j + 1 + 1)..n : i \in 1..n /\ i # j + 1  OBVIOUS
    <3>2. j + 1 \in 1..n  OBVIOUS
    <3> QED  BY <3>1, <3>2
  <2> QED  BY <1>2, <1>3, <2>1, <2>2
<1>5. p \in D /\ h \in D  BY <1>3
<1>6. V(h, j) \cup {p} = V(h, j + 1)
  <2>1. 1..(j + 1) = 1..j \cup {j + 1}  OBVIOUS
  <2> QED  BY <2>1
<1>7. V(p, j) = {p} /\ \A g : g # h => V(g, j) = V(g, j + 1)  BY <1>2
<1> HIDE DEF D, E, V, old, h, p
<1>8. Merge(old, h, p) = [g \in E |-> V(g, j + 1)]
  <2>1. Merge(old, h, p) = [g \in E |-> IF g = h THEN old[h] \cup old[p] ELSE old[g]]
    BY <1>1, <1>4 DEF Merge
  <2>2. \A g \in E : (IF g = h THEN old[h] \cup old[p] ELSE old[g]) = V(g, j + 1)
    BY <1>1, <1>4, <1>5, <1>6, <1>7
  <2> QED  BY <2>1, <2>2
<1>9. Shares(ppageAdd(m, h, p), Merge(old, h, p))
  BY <1>1, <1>2, <1>5, AddShares DEF old
<1> QED  BY <1>1, <1>8, <1>9 DEF h, p

LEMMA TiedOne ==
  ASSUME NEW own, NEW n \in Nat, n >= 1, NEW pgs, DOMAIN pgs = 1..n, Len(pgs) = n
  PROVE  Tied(own, pgs, 1) = Cut(own, ToSet(pgs))
<1>1. {pgs[i] : i \in 1..1} = {pgs[1]} /\ pgs[1] \in ToSet(pgs)
  <2>1. 1..1 = {1} /\ 1 \in 1..n  OBVIOUS
  <2> QED  BY <2>1 DEF ToSet
<1>2. {pgs[1]} \cup {pgs[i] : i \in (1 + 1)..n} = ToSet(pgs)
  <2>1. 1..n = {1} \cup (1 + 1)..n  OBVIOUS
  <2> QED  BY <2>1 DEF ToSet
<1> DEFINE D == DOMAIN own \cup ToSet(pgs)
<1>3. DOMAIN own \cup {pgs[1]} \cup {pgs[i] : i \in (1 + 1)..Len(pgs)} = D  BY <1>2
<1>4. Tied(own, pgs, 1) =
        [h \in D |-> IF h = pgs[1] THEN {pgs[i] : i \in 1..1}
                     ELSE IF h \in ToSet(pgs) THEN {h}
                     ELSE IF h = 0 THEN own[0] \ ToSet(pgs) ELSE own[h]]
  BY <1>3 DEF Tied
<1> HIDE DEF D
<1>5. Tied(own, pgs, 1) =
        [h \in D |-> IF h \in ToSet(pgs) THEN {h}
                     ELSE IF h = 0 THEN own[0] \ ToSet(pgs) ELSE own[h]]
  BY <1>1, <1>4
<1> QED  BY <1>5 DEF Cut, D

LEMMA TiedAll ==
  ASSUME NEW own, NEW n \in Nat, n >= 1, NEW pgs, DOMAIN pgs = 1..n, Len(pgs) = n
  PROVE  Tied(own, pgs, n) =
           [h \in DOMAIN own \cup {pgs[1]} |->
              IF h = pgs[1] THEN ToSet(pgs)
              ELSE IF h \in ToSet(pgs) THEN {h}
              ELSE IF h = 0 THEN own[0] \ ToSet(pgs) ELSE own[h]]
<1>1. (n + 1)..Len(pgs) = {}  OBVIOUS
<1>2. {pgs[i] : i \in 1..n} = ToSet(pgs)  BY DEF ToSet
<1>3. DOMAIN own \cup {pgs[1]} \cup {pgs[i] : i \in (n + 1)..Len(pgs)} =
        DOMAIN own \cup {pgs[1]}
  BY <1>1
<1> QED  BY <1>2, <1>3 DEF Tied

\* The pages taken off are under the first of them in the end.
LEMMA Ties ==
  ASSUME NEW own, NEW n \in Nat, n >= 1, NEW m, NEW pgs, Off(own, m, pgs, n)
  PROVE  LET Linked[j \in 1..n] ==
               IF j = 1 THEN m ELSE ppageAdd(Linked[j - 1], pgs[1], pgs[j])
         IN  Shares(Linked[n], Tied(own, pgs, n))
<1> DEFINE Step(x, j) == IF j = 1 THEN m ELSE ppageAdd(x, pgs[1], pgs[j])
           Loop == CHOOSE f : f = [j \in 1..n |-> Step(f[j - 1], j)]
<1>1. SUFFICES Shares(Loop[n], Tied(own, pgs, n))  OBVIOUS
<1>2. /\ pgs \in Seq(own[0] \ {0}) /\ Len(pgs) = n /\ DOMAIN pgs = 1..n
      /\ \A i, j \in 1..n : pgs[i] = pgs[j] => i = j
      /\ ToSet(pgs) \cap DOMAIN own = {}
      /\ Shares(m, Cut(own, ToSet(pgs)))
  BY DEF Off
<1>3. Shares(m, Tied(own, pgs, 1))  BY <1>2, TiedOne
<1>4. \A x : Step(x, 1) = m  OBVIOUS
<1>5. ASSUME NEW x, NEW j \in Nat, j + 1 <= n, j >= 1, Shares(x, Tied(own, pgs, j))
      PROVE  Shares(Step(x, j + 1), Tied(own, pgs, j + 1))
  <2>1. Step(x, j + 1) = ppageAdd(x, pgs[1], pgs[j + 1])  BY <1>5
  <2>2. Shares(ppageAdd(x, pgs[1], pgs[j + 1]), Tied(own, pgs, j + 1))
    BY <1>2, <1>5, TiedMore
  <2> HIDE DEF Step
  <2> QED  BY <2>1, <2>2
<1> HIDE DEF Step
<1>6. Loop = [j \in 1..n |-> Step(Loop[j - 1], j)]
  <2> DEFINE T == {i \in Nat : \E f : \A k \in 1..(i + 1) : f[k] = Step(f[k - 1], k)}
  <2>1. 0 \in T
    <3> DEFINE f == [k \in {1} |-> m]
    <3>1. \A k \in 1..(0 + 1) : f[k] = Step(f[k - 1], k)  BY <1>4
    <3> HIDE DEF f
    <3> QED  BY <3>1
  <2>2. ASSUME NEW i \in Nat, i \in T PROVE i + 1 \in T
    <3>1. PICK f : \A k \in 1..(i + 1) : f[k] = Step(f[k - 1], k)  BY <2>2
    <3> DEFINE g == [k \in 0..(i + 1 + 1) |->
                       IF k <= i + 1 THEN f[k] ELSE Step(f[i + 1], i + 1 + 1)]
    <3>2. \A k \in 1..(i + 1) : g[k] = f[k] /\ g[k - 1] = f[k - 1]  OBVIOUS
    <3>3. g[i + 1 + 1] = Step(g[i + 1], i + 1 + 1)  OBVIOUS
    <3> HIDE DEF g
    <3>4. \A k \in 1..(i + 1 + 1) : g[k] = Step(g[k - 1], k)  BY <3>1, <3>2, <3>3
    <3> QED  BY <3>4
  <2> HIDE DEF T
  <2>3. n - 1 \in T  BY <2>1, <2>2, SetInduction
  <2>4. PICK f : \A k \in 1..n : f[k] = Step(f[k - 1], k)  BY <2>3 DEF T
  <2> DEFINE g == [k \in 1..n |-> f[k]]
  <2>5. \A k \in 1..n : Step(g[k - 1], k) = g[k]
    <3> SUFFICES ASSUME NEW k \in 1..n PROVE Step(g[k - 1], k) = g[k]  OBVIOUS
    <3>1. CASE k = 1  BY <1>4, <2>4, <3>1
    <3>2. CASE k # 1
      <4>1. k - 1 \in 1..n  BY <3>2
      <4> QED  BY <2>4, <4>1
    <3> QED  BY <3>1, <3>2
  <2>6. g = [k \in 1..n |-> Step(g[k - 1], k)]  BY <2>5
  <2> HIDE DEF g
  <2> QED  BY <2>6
<1> HIDE DEF Loop
<1> DEFINE T == {j \in Nat : j + 1 <= n => Shares(Loop[j + 1], Tied(own, pgs, j + 1))}
<1>7. 0 \in T  BY <1>3, <1>4, <1>6
<1>8. ASSUME NEW j \in Nat, j \in T PROVE j + 1 \in T
  <2> DEFINE i == j + 1
  <2> SUFFICES ASSUME i + 1 <= n PROVE Shares(Loop[i + 1], Tied(own, pgs, i + 1))  OBVIOUS
  <2>1. i \in Nat /\ i >= 1 /\ Shares(Loop[i], Tied(own, pgs, i))  BY <1>8
  <2> HIDE DEF i
  <2>2. Loop[i + 1] = Step(Loop[i], i + 1)  BY <1>6, <2>1
  <2> QED  BY <1>5, <2>1, <2>2
<1> HIDE DEF T
<1>9. n - 1 \in T  BY <1>7, <1>8, SetInduction
<1> QED  BY <1>9 DEF T

\* The chains from the free list's first page and from those of the lists held are
\* all there are.
PagesInv ==
  /\ 0 \notin lists
  /\ \E own : /\ Shares(links, own) /\ DOMAIN own = lists \cup {0}
              /\ \A q \in PageSet : \E h \in lists \cup {0} : q \in own[h]

LEMMA PagesStart == PagesInit => PagesInv /\ On(0) = PageSet
<1> SUFFICES ASSUME PagesInit PROVE PagesInv /\ On(0) = PageSet  OBVIOUS
<1> DEFINE own == [h \in {0} |-> PageSet]
<1>1. Shares(init_pfa_list, own)  BY InitShares
<1>2. init_pfa_list \in Links  BY <1>1, SharesFacts
<1>3. init_pfa_list = [next |-> init_pfa_list.next, prev |-> init_pfa_list.prev]
  BY <1>2 DEF Links
<1>4. links = init_pfa_list  BY <1>3 DEF PagesInit, links
<1>5. DOMAIN own = {0} /\ own[0] = PageSet  OBVIOUS
<1> HIDE DEF own
<1>6. ToSet(Walk(links, 0)) = PageSet  BY <1>1, <1>4, <1>5, SharesFacts
<1>7. PagesInv  BY <1>1, <1>4, <1>5 DEF PagesInv, PagesInit
<1> QED  BY <1>6, <1>7 DEF On

\* What is on a list.
LEMMA OnIs ==
  ASSUME NEW own, Shares(links, own)
  PROVE  \A h \in DOMAIN own : On(h) = own[h]
BY SharesFacts DEF On

LEMMA OnIsPrimed ==
  ASSUME NEW own, Shares(links', own)
  PROVE  \A h \in DOMAIN own : On(h)' = own[h]
<1>1. \A h \in DOMAIN own : ToSet(Walk(links', h)) = own[h]  BY SharesFacts
<1> QED  BY <1>1 DEF On

LEMMA BecomesIs ==
  ASSUME NEW m, NEW own, Shares(m, own), Becomes(m)
  PROVE  links' = m
<1>1. m \in Links  BY SharesFacts
<1>2. m = [next |-> m.next, prev |-> m.prev]  BY <1>1 DEF Links
<1> QED  BY <1>2 DEF Becomes, links

LEMMA PagesStutter == ASSUME PagesInv, UNCHANGED <<next, prev, lists>> PROVE PagesInv'
<1>1. PICK own : /\ Shares(links, own) /\ DOMAIN own = lists \cup {0}
                 /\ \A q \in PageSet : \E h \in lists \cup {0} : q \in own[h]
  BY DEF PagesInv
<1>2. links' = links  BY DEF links
<1>3. Shares(links', own)  BY <1>1, <1>2
<1>4. 0 \notin lists'  BY DEF PagesInv
<1> QED  BY <1>1, <1>3, <1>4 DEF PagesInv, Shares

\* A list freed goes to the free list, as in the pool.
LEMMA FreeStep ==
  ASSUME PagesInv, NEW p \in lists, free_physical_pages(p)
  PROVE  PagesInv' /\ Pool!Free
<1>1. PICK own : /\ Shares(links, own) /\ DOMAIN own = lists \cup {0}
                 /\ \A q \in PageSet : \E h \in lists \cup {0} : q \in own[h]
  BY DEF PagesInv
<1> DEFINE m == ppageAdd(links, 0, p)
           new == Merge(own, 0, p)
<1>2. 0 \in DOMAIN own /\ p \in DOMAIN own /\ p # 0  BY <1>1 DEF PagesInv
<1>3. Shares(m, new)  BY <1>1, <1>2, AddShares
<1>4. Becomes(m) /\ lists' = lists \ {p}  BY DEF free_physical_pages, free_pages_list
<1> HIDE DEF m
<1>5. links' = m  BY <1>3, <1>4, BecomesIs
<1>6. /\ DOMAIN new = lists' \cup {0}
      /\ new[0] = own[0] \cup own[p]
      /\ \A g \in lists' : new[g] = own[g]
  BY <1>1, <1>2, <1>4 DEF PagesInv, Merge
<1> HIDE DEF new
<1>7. \A q \in PageSet : \E h \in lists' \cup {0} : q \in new[h]
  <2> SUFFICES ASSUME NEW q \in PageSet PROVE \E h \in lists' \cup {0} : q \in new[h]  OBVIOUS
  <2>1. PICK h \in lists \cup {0} : q \in own[h]  BY <1>1
  <2>2. CASE h \in {0, p}  BY <1>6, <2>1, <2>2
  <2>3. CASE h \notin {0, p}
    <3>1. h \in lists'  BY <1>4, <2>1, <2>3
    <3> QED  BY <1>6, <2>1, <3>1
  <2> QED  BY <2>2, <2>3
<1>8. PagesInv'
  <2>1. 0 \notin lists'  BY <1>4 DEF PagesInv
  <2>2. Shares(links', new)  BY <1>3, <1>5
  <2> QED  BY <1>6, <1>7, <2>1, <2>2 DEF PagesInv, Shares
<1>9. /\ \A h \in lists \cup {0} : On(h) = own[h]
      /\ \A h \in lists' \cup {0} : On(h)' = new[h]
  BY <1>1, <1>3, <1>5, <1>6, OnIs, OnIsPrimed
<1>10. {On(q) : q \in lists}' = {On(q) : q \in lists} \ {On(p)}
  <2>1. \A q \in lists : own[q] = own[p] => q = p
    <3>1. \A q \in lists : q \in own[q]  BY <1>1, SharesFacts
    <3>2. \A q \in lists : own[q] \cap own[p] # {} => q = p  BY <1>1, <1>2, SharesFacts
    <3> QED  BY <3>1, <3>2
  <2>2. {On(q) : q \in lists}' = {own[q] : q \in lists'}  BY <1>6, <1>9
  <2>3. {On(q) : q \in lists} = {own[q] : q \in lists} /\ On(p) = own[p]  BY <1>2, <1>9
  <2>4. {own[q] : q \in lists'} = {own[q] : q \in lists} \ {own[p]}  BY <1>4, <2>1
  <2> QED  BY <2>2, <2>3, <2>4
<1>11. On(0)' = On(0) \cup On(p)  BY <1>6, <1>9
<1>12. On(p) \in {On(q) : q \in lists}  OBVIOUS
<1>13. Pool!Free  BY <1>10, <1>11, <1>12 DEF Pool!Free, free_pages_list
<1> QED  BY <1>8, <1>13

\* An allocation takes pages off the free list, all but the first, as in the pool, or
\* it changes no list.
LEMMA AllocateStep ==
  ASSUME PagesInv, NEW n \in 1..NUMBERPAGES, allocate_physical_pages(n)
  PROVE  PagesInv' /\ (Pool!Allocate \/ UNCHANGED <<next, prev, lists>>)
<1>1. PICK own : /\ Shares(links, own) /\ DOMAIN own = lists \cup {0}
                 /\ \A q \in PageSet : \E h \in lists \cup {0} : q \in own[h]
  BY DEF PagesInv
<1>2. n \in Nat /\ n >= 1 /\ 0 \in DOMAIN own  BY <1>1, PagesAre
<1>3. PICK m, pgs, w : /\ Removed(n) = [m |-> m, pgs |-> pgs, wild |-> w] /\ w \in BOOLEAN
                       /\ ~w => Off(own, m, pgs, n)
  BY <1>1, <1>2, Removes
<1> DEFINE Linked[j \in 1..n] ==
             IF j = 1 THEN Removed(n).m
             ELSE ppageAdd(Linked[j - 1], Removed(n).pgs[1], Removed(n).pgs[j])
           last == Linked[n]
<1>4. \/ ~w /\ Becomes(last) /\ lists' = lists \cup {pgs[1]}
      \/ UNCHANGED <<next, prev, lists>>
  BY <1>3 DEF allocate_physical_pages
<1>5. CASE UNCHANGED <<next, prev, lists>>
  BY <1>5, PagesStutter
<1>6. CASE ~w /\ Becomes(last) /\ lists' = lists \cup {pgs[1]}
  <2> DEFINE new == Tied(own, pgs, n)
             t == ToSet(pgs)
  <2>1. Off(own, m, pgs, n)  BY <1>3, <1>6
  <2>2. Shares(last, new)
    <3>1. Removed(n).m = m /\ Removed(n).pgs = pgs  BY <1>3
    <3> QED  BY <1>2, <2>1, <3>1, Ties
  <2> HIDE DEF last
  <2>3. links' = last  BY <1>6, <2>2, BecomesIs
  <2>4. /\ DOMAIN pgs = 1..n /\ Len(pgs) = n /\ pgs \in Seq(own[0] \ {0})
        /\ t \cap DOMAIN own = {}
    BY <1>2, <2>1 DEF Off
  <2>5. pgs[1] \in t /\ t \subseteq own[0] \ {0}  BY <1>2, <2>4 DEF ToSet
  <2>6. new = [h \in DOMAIN own \cup {pgs[1]} |->
                 IF h = pgs[1] THEN t
                 ELSE IF h \in t THEN {h} ELSE IF h = 0 THEN own[0] \ t ELSE own[h]]
    BY <1>2, <2>4, TiedAll
  <2> HIDE DEF new, t
  <2>7. /\ DOMAIN new = lists' \cup {0}
        /\ new[0] = own[0] \ t /\ new[pgs[1]] = t
        /\ \A g \in lists : g \notin t /\ new[g] = own[g]
    <3>1. \A g \in lists : g \notin t /\ g # 0 /\ g # pgs[1]
      BY <1>1, <2>4, <2>5 DEF PagesInv
    <3>2. 0 \notin t /\ pgs[1] # 0  BY <2>5
    <3> QED  BY <1>1, <1>6, <2>6, <3>1, <3>2
  <2>8. \A q \in PageSet : \E h \in lists' \cup {0} : q \in new[h]
    <3> SUFFICES ASSUME NEW q \in PageSet PROVE \E h \in lists' \cup {0} : q \in new[h]
      OBVIOUS
    <3>1. PICK h \in lists \cup {0} : q \in own[h]  BY <1>1
    <3>2. CASE h = 0  BY <1>6, <2>7, <3>1, <3>2
    <3>3. CASE h \in lists  BY <1>6, <2>7, <3>1, <3>3
    <3> QED  BY <3>1, <3>2, <3>3
  <2>9. PagesInv'
    <3>1. 0 \notin lists'  BY <1>6, <2>5 DEF PagesInv
    <3>2. Shares(links', new)  BY <2>2, <2>3
    <3> QED  BY <2>7, <2>8, <3>1, <3>2 DEF PagesInv, Shares
  <2>10. /\ \A h \in lists \cup {0} : On(h) = own[h]
         /\ \A h \in lists' \cup {0} : On(h)' = new[h]
    BY <1>1, <2>2, <2>3, <2>7, OnIs, OnIsPrimed
  <2>11. {On(q) : q \in lists}' = {On(q) : q \in lists} \cup {t}
    <3>1. {On(q) : q \in lists}' = {new[q] : q \in lists'}  BY <2>7, <2>10
    <3>2. {On(q) : q \in lists} = {own[q] : q \in lists}  BY <1>1, <2>10
    <3>3. {new[q] : q \in lists'} = {own[q] : q \in lists} \cup {t}  BY <1>6, <2>7
    <3> QED  BY <3>1, <3>2, <3>3
  <2>12. On(0)' = On(0) \ t /\ t \subseteq On(0) \ {0} /\ t # {}  BY <2>5, <2>7, <2>10
  <2>13. Pool!Allocate  BY <2>11, <2>12 DEF Pool!Allocate, free_pages_list
  <2> QED  BY <2>9, <2>13
<1> QED  BY <1>4, <1>5, <1>6

LEMMA PagesStep ==
  ASSUME PagesInv, [PagesNext]_pageVars
  PROVE  /\ PagesInv'
         /\ \/ Pool!Allocate \/ Pool!Free
            \/ UNCHANGED <<next, prev, lists>>
<1>1. CASE \E n \in 1..NUMBERPAGES : allocate_physical_pages(n)  BY <1>1, AllocateStep
<1>2. CASE \E p \in lists : free_physical_pages(p)  BY <1>2, FreeStep
<1>3. CASE UNCHANGED pageVars  BY <1>3, PagesStutter DEF pageVars
<1> QED  BY <1>1, <1>2, <1>3 DEF PagesNext

LEMMA PagesAlways == MemorySpec => []PagesInv
<1>1. MemoryInit => PagesInv  BY PagesStart DEF MemoryInit
<1>2. PagesInv /\ [MemoryNext]_memoryVars => PagesInv'
  BY PagesStep DEF MemoryNext, memoryVars
<1> QED  BY <1>1, <1>2, PTL DEF MemorySpec

\* Whatever is allocated and freed, prev leads back where next came from, and the first
\* page of a list has none before it, so ppageRemove always finds the last but one.
THEOREM PagesLinkBack == MemorySpec => []BackwardsToo
<1>1. PagesInv => BackwardsToo
  <2> SUFFICES ASSUME PagesInv PROVE BackwardsToo  OBVIOUS
  <2>1. PICK own : /\ Shares(links, own) /\ DOMAIN own = lists \cup {0}
                   /\ \A q \in PageSet : \E h \in lists \cup {0} : q \in own[h]
    BY DEF PagesInv
  <2>2. links.next = next /\ links.prev = prev  BY DEF links
  <2>3. \A p \in lists \cup {0} : prev[p] = NULL  BY <2>1, <2>2, SharesFacts
  <2>4. ASSUME NEW p \in PageSet, next[p] # NULL PROVE prev[next[p]] = p
    <3>1. PICK h \in DOMAIN own : p \in own[h]  BY <2>1
    <3>2. links.next[p] # NULL => links.prev[links.next[p]] = p  BY <2>1, <3>1, SharesFacts
    <3> QED  BY <2>2, <2>4, <3>2
  <2> QED  BY <2>3, <2>4 DEF BackwardsToo, free_pages_list
<1> QED  BY <1>1, PagesAlways, PTL

\* The page allocator is a pool: no call loses a page or gives one to two callers.
THEOREM PagesArePool == MemorySpec => ImplementsPagePool
<1>1. MemoryInit => On(0) = PageSet /\ {On(p) : p \in lists} = {}
  BY PagesStart DEF MemoryInit, PagesInit
<1> DEFINE pool == <<On(0), {On(p) : p \in lists}>>
<1>2. PagesInv /\ [MemoryNext]_memoryVars => [Pool!Allocate \/ Pool!Free]_pool
  <2> SUFFICES ASSUME PagesInv, [MemoryNext]_memoryVars
               PROVE  \/ Pool!Allocate \/ Pool!Free
                      \/ UNCHANGED pool
    OBVIOUS
  <2>1. [PagesNext]_pageVars  BY DEF MemoryNext, memoryVars
  <2>2. UNCHANGED <<next, prev, lists>> => UNCHANGED pool  BY DEF On, links
  <2> QED  BY <2>1, <2>2, PagesStep
<1> QED  BY <1>1, <1>2, PagesAlways, PTL
    DEF MemorySpec, ImplementsPagePool, Pool!Spec, free_pages_list

-----------------------------------------------------------------------------
(* The linked list *)

\* The elements of s are linked in its order, and the others are not linked.
InOrder(e, s) ==
  /\ s \in Seq(Elements)
  /\ \A i, j \in 1..Len(s) : s[i] = s[j] => i = j
  /\ e \in [Cells -> [next: Elements \cup {NoElement}, prev: Cells \cup {NoElement}]]
  /\ e[ListHead].next = IF s = <<>> THEN NoElement ELSE s[1]
  /\ \A i \in 1..Len(s) :
       e[s[i]] = [next |-> IF i = Len(s) THEN NoElement ELSE s[i + 1],
                  prev |-> IF i = 1 THEN ListHead ELSE s[i - 1]]
  /\ \A c \in Elements \ ToSet(s) : e[c] = [next |-> NoElement, prev |-> NoElement]

ListInv == \E s : InOrder(element, s)

LEMMA OnListIs == ASSUME NEW e, NEW s, InOrder(e, s) PROVE OnList(e) = s
<1> DEFINE succ == [c \in Cells |-> e[c].next]
<1>1. s \in Seq(Elements) /\ NoElement \notin Elements  BY ListAssumption DEF InOrder
<1>2. Len(s) <= Cardinality(Elements) + 1
  <2>1. IsFiniteSet(Elements)  BY ListAssumption
  <2>2. Cardinality(Elements) \in Nat  BY <2>1, FS_CardinalityType
  <2>3. Len(s) \in Nat /\ Len(s) <= Cardinality(Elements)  BY <2>1, SeqBounded DEF InOrder
  <2> QED  BY <2>2, <2>3
<1>3. Cardinality(Elements) \in Nat  BY ListAssumption, FS_CardinalityType
<1>4. \A i \in 1..Len(s) : succ[s[i]] = IF i = Len(s) THEN NoElement ELSE s[i + 1]
  <2> SUFFICES ASSUME NEW i \in 1..Len(s)
               PROVE  succ[s[i]] = IF i = Len(s) THEN NoElement ELSE s[i + 1]
    OBVIOUS
  <2>1. s[i] \in Cells  BY <1>1 DEF Cells
  <2>2. succ[s[i]] = e[s[i]].next  BY <2>1
  <2>3. e[s[i]] = [next |-> IF i = Len(s) THEN NoElement ELSE s[i + 1],
                   prev |-> IF i = 1 THEN ListHead ELSE s[i - 1]]
    BY DEF InOrder
  <2> HIDE DEF succ
  <2> QED  BY <2>2, <2>3
<1>5. e[ListHead].next = IF s = <<>> THEN NoElement ELSE s[1]  BY DEF InOrder
<1> HIDE DEF succ
<1>6. Chain(succ, e[ListHead].next, Cardinality(Elements), NoElement) = s
  BY <1>1, <1>2, <1>3, <1>4, <1>5, ChainIs
<1> QED  BY <1>6 DEF OnList, succ

LEMMA ListStart == ListInit => ListInv
<1> SUFFICES ASSUME ListInit PROVE InOrder(element, <<>>)  BY DEF ListInv
<1> QED  BY DEF ListInit, InOrder, Cells, ToSet


\* One element, then those of s.
LEMMA OneMore ==
  ASSUME NEW S, NEW s \in Seq(S), NEW new \in S, new \notin ToSet(s),
         \A i, j \in 1..Len(s) : s[i] = s[j] => i = j
  PROVE  LET t == <<new>> \o s IN
         /\ t \in Seq(S) /\ t # <<>> /\ Len(t) = Len(s) + 1 /\ t[1] = new
         /\ \A i \in 2..Len(t) : t[i] = s[i - 1]
         /\ ToSet(t) = ToSet(s) \cup {new}
         /\ \A i, j \in 1..Len(t) : t[i] = t[j] => i = j
<1> DEFINE t == <<new>> \o s
<1>1. t \in Seq(S) /\ Len(t) = Len(s) + 1 /\ t[1] = new /\ Len(s) \in Nat  OBVIOUS
<1>2. \A i \in 2..Len(t) : t[i] = s[i - 1]  OBVIOUS
<1> HIDE DEF t
<1>3. DOMAIN s = 1..Len(s) /\ DOMAIN t = 1..Len(t)  BY <1>1
<1>4. \A i \in 1..Len(t) : i = 1 \/ (i \in 2..Len(t) /\ i - 1 \in 1..Len(s))  BY <1>1
<1>5. \A i \in 1..Len(s) : i + 1 \in 2..Len(t) /\ s[i] = t[i + 1]  BY <1>1, <1>2
<1>6. ToSet(t) = ToSet(s) \cup {new}
  <2>1. ToSet(t) \subseteq ToSet(s) \cup {new}  BY <1>1, <1>2, <1>3, <1>4 DEF ToSet
  <2>2. \A i \in 1..Len(s) : s[i] \in ToSet(t)  BY <1>1, <1>3, <1>5 DEF ToSet
  <2>3. new \in ToSet(t)  BY <1>1, <1>3 DEF ToSet
  <2> QED  BY <2>1, <2>2, <2>3, <1>3 DEF ToSet
<1>7. ASSUME NEW i \in 1..Len(t), NEW j \in 1..Len(t), t[i] = t[j] PROVE i = j
  <2>1. \A n \in 1..Len(s) : s[n] # new  BY <1>3 DEF ToSet
  <2>2. CASE i = 1  BY <1>1, <1>2, <1>4, <1>7, <2>1, <2>2
  <2>3. CASE j = 1  BY <1>1, <1>2, <1>4, <1>7, <2>1, <2>3
  <2>4. CASE i # 1 /\ j # 1
    <3>1. i - 1 \in 1..Len(s) /\ j - 1 \in 1..Len(s) /\ s[i - 1] = s[j - 1]
      BY <1>2, <1>4, <1>7, <2>4
    <3> QED  BY <3>1
  <2> QED  BY <2>2, <2>3, <2>4
<1> QED  BY <1>1, <1>2, <1>6, <1>7 DEF t

LEMMA Added ==
  ASSUME NEW s, InOrder(element, s), NEW new \in Elements, new \notin ToSet(s), listAdd(new)
  PROVE  InOrder(element', <<new>> \o s)
<1> DEFINE t == <<new>> \o s
           after == element[ListHead].next
<1>1. s \in Seq(Elements) /\ Len(s) \in Nat /\ (s = <<>> <=> Len(s) = 0)  BY DEF InOrder
<1>2. \A i, j \in 1..Len(s) : s[i] = s[j] => i = j  BY DEF InOrder
<1>3. /\ t \in Seq(Elements) /\ t # <<>> /\ Len(t) = Len(s) + 1 /\ t[1] = new
      /\ \A i \in 2..Len(t) : t[i] = s[i - 1]
      /\ ToSet(t) = ToSet(s) \cup {new}
      /\ \A i, j \in 1..Len(t) : t[i] = t[j] => i = j
  BY <1>1, <1>2, OneMore
<1>4. after = IF s = <<>> THEN NoElement ELSE s[1]  BY DEF InOrder
<1>5. ListHead \notin Elements /\ NoElement \notin Cells /\ ListHead # NoElement
  BY ListAssumption DEF Cells
<1>6. s # <<>> => s[1] \in Elements /\ s[1] # new
  BY <1>1 DEF ToSet
<1>7. element \in [Cells -> [next: Elements \cup {NoElement}, prev: Cells \cup {NoElement}]]
  BY DEF InOrder
<1> HIDE DEF t, after
<1>8. /\ element' \in [Cells -> [next: Elements \cup {NoElement}, prev: Cells \cup {NoElement}]]
      /\ element'[ListHead].next = new
      /\ element'[new] = [next |-> after, prev |-> ListHead]
      /\ s # <<>> => element'[s[1]] = [element[s[1]] EXCEPT !.prev = new]
      /\ \A c \in Elements \ {new, after} : element'[c] = element[c]
  <2> DEFINE linked == [element EXCEPT ![new] = [next |-> after, prev |-> ListHead],
                                       ![ListHead].next = new]
  <2>1. /\ linked \in [Cells -> [next: Elements \cup {NoElement}, prev: Cells \cup {NoElement}]]
        /\ linked[ListHead].next = new
        /\ linked[new] = [next |-> after, prev |-> ListHead]
        /\ \A c \in Elements \ {new} : linked[c] = element[c]
    BY <1>4, <1>5, <1>6, <1>7 DEF Cells
  <2>2. element' = IF after = NoElement THEN linked ELSE [linked EXCEPT ![after].prev = new]
    BY DEF listAdd, after
  <2> HIDE DEF linked
  <2>3. CASE s = <<>>  BY <1>4, <2>1, <2>2, <2>3
  <2>4. CASE s # <<>>
    <3>1. after = s[1] /\ after # NoElement /\ after \in Elements /\ after # new
      BY <1>4, <1>5, <1>6, <2>4 DEF Cells
    <3>2. element' = [linked EXCEPT ![after].prev = new]  BY <2>2, <3>1
    <3> QED  BY <1>5, <2>1, <3>1, <3>2 DEF Cells
  <2> QED  BY <2>3, <2>4
<1>9. ASSUME NEW i \in 1..Len(t)
      PROVE  element'[t[i]] = [next |-> IF i = Len(t) THEN NoElement ELSE t[i + 1],
                               prev |-> IF i = 1 THEN ListHead ELSE t[i - 1]]
  <2>1. CASE i = 1
    <3>1. i = Len(t) <=> s = <<>>  BY <1>1, <1>3, <2>1
    <3>2. s # <<>> => t[2] = s[1]  BY <1>1, <1>3
    <3> QED  BY <1>3, <1>4, <1>8, <2>1, <3>1, <3>2
  <2>2. CASE i # 1
    <3> DEFINE n == i - 1
    <3>1. n \in 1..Len(s) /\ i \in 2..Len(t) /\ t[i] = s[n] /\ s # <<>>  BY <1>1, <1>3, <2>2
    <3>2. element[s[n]] = [next |-> IF n = Len(s) THEN NoElement ELSE s[n + 1],
                           prev |-> IF n = 1 THEN ListHead ELSE s[n - 1]]
      BY <3>1 DEF InOrder
    <3>3. (i = Len(t) <=> n = Len(s)) /\ (n # Len(s) => t[i + 1] = s[n + 1])
      BY <1>1, <1>3, <3>1
    <3>4. CASE n = 1
      <4>1. element'[s[1]] = [element[s[1]] EXCEPT !.prev = new]  BY <1>8, <3>1
      <4>2. t[i - 1] = new  BY <1>3, <3>4
      <4> QED  BY <2>2, <3>1, <3>2, <3>3, <3>4, <4>1, <4>2
    <3>5. CASE n # 1
      <4>1. s[n] # s[1]  BY <1>2, <3>1, <3>5
      <4>2. s[n] \in Elements /\ s[n] # new  BY <1>1, <3>1 DEF ToSet
      <4>3. element'[s[n]] = element[s[n]]  BY <1>4, <1>8, <3>1, <4>1, <4>2
      <4>4. t[i - 1] = s[n - 1]  BY <1>3, <3>1, <3>5
      <4> QED  BY <2>2, <3>1, <3>2, <3>3, <3>5, <4>3, <4>4
    <3> QED  BY <3>4, <3>5
  <2> QED  BY <2>1, <2>2
<1>10. ASSUME NEW c \in Elements \ ToSet(t)
       PROVE  element'[c] = [next |-> NoElement, prev |-> NoElement]
  <2>1. c # new /\ c \notin ToSet(s)  BY <1>3
  <2>2. c # after  BY <1>1, <1>4, <1>5, <2>1 DEF ToSet, Cells
  <2> QED  BY <1>8, <2>1, <2>2 DEF InOrder
<1> QED  BY <1>3, <1>8, <1>9, <1>10 DEF InOrder, t

\* s without its n-th.
LEMMA OneLess ==
  ASSUME NEW S, NEW s \in Seq(S), NEW n \in 1..Len(s),
         \A i, j \in 1..Len(s) : s[i] = s[j] => i = j
  PROVE  LET t == RemoveAt(s, n) IN
         /\ t \in Seq(S) /\ Len(t) = Len(s) - 1
         /\ \A i \in 1..Len(t) : t[i] = IF i < n THEN s[i] ELSE s[i + 1]
         /\ ToSet(t) = ToSet(s) \ {s[n]}
         /\ \A i, j \in 1..Len(t) : t[i] = t[j] => i = j
<1> DEFINE t == RemoveAt(s, n)
           a == SubSeq(s, 1, n - 1)
           b == SubSeq(s, n + 1, Len(s))
<1>1. Len(s) \in Nat /\ n \in Nat /\ n >= 1 /\ n <= Len(s)  OBVIOUS
<1>2. a \in Seq(S) /\ Len(a) = n - 1 /\ \A i \in 1..(n - 1) : a[i] = s[i]  BY <1>1
<1>3. b \in Seq(S) /\ Len(b) = Len(s) - n /\ \A i \in 1..(Len(s) - n) : b[i] = s[i + n]  BY <1>1
<1>4. t = a \o b  BY DEF RemoveAt
<1> HIDE DEF t, a, b
<1>5. t \in Seq(S) /\ Len(t) = Len(s) - 1  BY <1>1, <1>2, <1>3, <1>4
<1>6. \A i \in 1..Len(t) : t[i] = IF i < n THEN s[i] ELSE s[i + 1]
  <2> SUFFICES ASSUME NEW i \in 1..Len(t) PROVE t[i] = IF i < n THEN s[i] ELSE s[i + 1]
    OBVIOUS
  <2>1. CASE i < n
    <3>1. t[i] = a[i]  BY <1>1, <1>2, <1>3, <1>4, <2>1
    <3> QED  BY <1>1, <1>2, <2>1, <3>1
  <2>2. CASE ~(i < n)
    <3>1. t[i] = b[i - (n - 1)]  BY <1>1, <1>2, <1>3, <1>4, <1>5, <2>2
    <3>2. i - (n - 1) \in 1..(Len(s) - n) /\ i - (n - 1) + n = i + 1  BY <1>1, <1>5, <2>2
    <3> QED  BY <1>3, <2>2, <3>1, <3>2
  <2> QED  BY <2>1, <2>2
<1>7. DOMAIN s = 1..Len(s) /\ DOMAIN t = 1..Len(t)  BY <1>5
<1>8. ToSet(t) = ToSet(s) \ {s[n]}
  <2>1. ASSUME NEW i \in 1..Len(t) PROVE t[i] \in ToSet(s) \ {s[n]}
    <3> DEFINE k == IF i < n THEN i ELSE i + 1
    <3>1. k \in 1..Len(s) /\ k # n /\ t[i] = s[k]  BY <1>1, <1>5, <1>6
    <3> HIDE DEF k
    <3> QED  BY <1>7, <3>1 DEF ToSet
  <2>2. ASSUME NEW k \in 1..Len(s), s[k] # s[n] PROVE s[k] \in ToSet(t)
    <3> DEFINE i == IF k < n THEN k ELSE k - 1
    <3>1. i \in 1..Len(t) /\ t[i] = s[k]
      <4>1. k # n /\ k \in Nat  BY <2>2
      <4>2. CASE k < n  BY <1>1, <1>5, <1>6, <4>1, <4>2
      <4>3. CASE k > n
        <5>1. i = k - 1 /\ ~(k - 1 < n) /\ k - 1 \in 1..Len(t)  BY <1>1, <1>5, <4>1, <4>3
        <5> HIDE DEF i
        <5>2. t[k - 1] = s[k - 1 + 1]  BY <1>6, <5>1
        <5> QED  BY <4>1, <5>1, <5>2
      <4> QED  BY <1>1, <4>1, <4>2, <4>3
    <3> HIDE DEF i
    <3> QED  BY <1>7, <3>1 DEF ToSet
  <2> QED  BY <1>7, <2>1, <2>2 DEF ToSet
<1>9. ASSUME NEW i \in 1..Len(t), NEW j \in 1..Len(t), t[i] = t[j] PROVE i = j
  <2> DEFINE Up(k) == IF k < n THEN k ELSE k + 1
  <2>1. Up(i) \in 1..Len(s) /\ Up(j) \in 1..Len(s) /\ t[i] = s[Up(i)] /\ t[j] = s[Up(j)]
    BY <1>1, <1>5, <1>6
  <2>2. Up(i) = Up(j) => i = j  BY <1>1, <1>5
  <2> HIDE DEF Up
  <2> QED  BY <1>9, <2>1, <2>2
<1> QED  BY <1>5, <1>6, <1>8, <1>9 DEF t

LEMMA Taken ==
  ASSUME NEW s, InOrder(element, s), NEW n \in 1..Len(s), listRemove(s[n])
  PROVE  InOrder(element', RemoveAt(s, n))
<1> DEFINE t == RemoveAt(s, n)
           b == s[n]
           after == IF n = Len(s) THEN NoElement ELSE s[n + 1]
           before == IF n = 1 THEN ListHead ELSE s[n - 1]
           Typed(e) == e \in [Cells -> [next: Elements \cup {NoElement},
                                        prev: Cells \cup {NoElement}]]
<1>1. s \in Seq(Elements) /\ Len(s) \in Nat /\ n \in 1..Len(s)  BY DEF InOrder
<1>2. \A i, j \in 1..Len(s) : s[i] = s[j] => i = j  BY DEF InOrder
<1>3. /\ t \in Seq(Elements) /\ Len(t) = Len(s) - 1
      /\ \A i \in 1..Len(t) : t[i] = IF i < n THEN s[i] ELSE s[i + 1]
      /\ ToSet(t) = ToSet(s) \ {s[n]}
      /\ \A i, j \in 1..Len(t) : t[i] = t[j] => i = j
  BY <1>1, <1>2, OneLess
<1>4. ListHead \notin Elements /\ NoElement \notin Cells /\ ListHead # NoElement
  BY ListAssumption DEF Cells
<1>5. Typed(element) /\ element[b] = [next |-> after, prev |-> before]
  BY DEF InOrder
<1>6. /\ b \in Elements /\ after # b /\ before # b /\ before \in Cells
      /\ n # Len(s) => after \in Elements /\ after # before
      /\ \A i \in 1..Len(s) : /\ s[i] \in Elements
                              /\ s[i] = b => i = n
                              /\ s[i] = after => n # Len(s) /\ i = n + 1
                              /\ s[i] = before => n # 1 /\ i = n - 1
  BY <1>1, <1>2, <1>4 DEF Cells
<1> HIDE DEF t, b, after, before
<1>7. /\ Typed(element')
      /\ element'[b] = [next |-> NoElement, prev |-> NoElement]
      /\ element'[before] = [element[before] EXCEPT !.next = after]
      /\ n # Len(s) => element'[after] = [element[after] EXCEPT !.prev = before]
      /\ \A c \in Cells \ {b, after, before} : element'[c] = element[c]
  <2> DEFINE kept == IF after = NoElement THEN element
                     ELSE [element EXCEPT ![after].prev = before]
  <2>1. element' = [kept EXCEPT ![before].next = after,
                                ![b] = [next |-> NoElement, prev |-> NoElement]]
    BY <1>5 DEF listRemove, b
  <2>2. /\ Typed(kept) /\ kept[before] = element[before]
        /\ n # Len(s) => kept[after] = [element[after] EXCEPT !.prev = before]
        /\ \A c \in Cells \ {after} : kept[c] = element[c]
    <3>1. CASE n = Len(s)
      <4>1. kept = element  BY <3>1 DEF after
      <4> HIDE DEF kept
      <4> QED  BY <1>5, <3>1, <4>1
    <3>2. CASE n # Len(s)
      <4>1. after \in Cells /\ after # NoElement /\ after # before  BY <1>4, <1>6, <3>2 DEF Cells
      <4>2. kept = [element EXCEPT ![after].prev = before]  BY <4>1
      <4> HIDE DEF kept
      <4> QED  BY <1>5, <1>6, <4>1, <4>2
    <3> QED  BY <3>1, <3>2
  <2>3. after \in Elements \cup {NoElement}  BY <1>6 DEF after
  <2> HIDE DEF kept
  <2> QED  BY <1>6, <2>1, <2>2, <2>3 DEF Cells
<1>8. Typed(element')  BY <1>7
<1> HIDE DEF Typed
<1>9. element'[ListHead].next = IF t = <<>> THEN NoElement ELSE t[1]
  <2>1. Typed(element) /\ ListHead \in Cells  BY <1>5 DEF Cells
  <2>2. element[ListHead].next = s[1]  BY <1>1 DEF InOrder
  <2>3. CASE n = 1
    <3>1. before = ListHead  BY <2>3 DEF before
    <3>2. element'[ListHead].next = after  BY <1>7, <2>1, <3>1 DEF Typed
    <3>3. CASE Len(s) = 1
      <4>1. t = <<>>  BY <1>3, <3>3
      <4> QED  BY <2>3, <3>2, <3>3, <4>1 DEF after
    <3>4. CASE Len(s) # 1
      <4>1. t # <<>> /\ t[1] = s[2]  BY <1>1, <1>3, <2>3, <3>4
      <4> QED  BY <2>3, <3>2, <3>4, <4>1 DEF after
    <3> QED  BY <3>3, <3>4
  <2>4. CASE n # 1
    <3>1. before # ListHead /\ ListHead # b /\ ListHead # after
      BY <1>1, <1>4, <1>6, <2>4 DEF before, after, Cells
    <3>2. element'[ListHead] = element[ListHead]  BY <1>7, <2>1, <3>1
    <3>3. t # <<>> /\ t[1] = s[1]  BY <1>1, <1>3, <2>4
    <3> QED  BY <2>2, <3>2, <3>3
  <2> QED  BY <2>3, <2>4
<1>10. ASSUME NEW i \in 1..Len(t)
       PROVE  element'[t[i]] = [next |-> IF i = Len(t) THEN NoElement ELSE t[i + 1],
                                prev |-> IF i = 1 THEN ListHead ELSE t[i - 1]]
  <2> DEFINE k == IF i < n THEN i ELSE i + 1
             New == [next |-> IF i = Len(t) THEN NoElement ELSE t[i + 1],
                     prev |-> IF i = 1 THEN ListHead ELSE t[i - 1]]
             Old == [next |-> IF k = Len(s) THEN NoElement ELSE s[k + 1],
                     prev |-> IF k = 1 THEN ListHead ELSE s[k - 1]]
  <2>1. k \in 1..Len(s) /\ k # n /\ t[i] = s[k] /\ k \in Nat  BY <1>1, <1>3
  <2>2. element[s[k]] = Old  BY <2>1 DEF InOrder
  <2>3. s[k] \in Cells /\ s[k] # b  BY <1>6, <2>1 DEF Cells
  <2>4. CASE k = n - 1
    <3>1. i = k /\ n # 1 /\ s[k] = before  BY <1>1, <2>1, <2>4 DEF before
    <3>2. New.next = after
      <4>1. CASE n = Len(s)  BY <1>1, <1>3, <2>4, <3>1, <4>1 DEF after
      <4>2. CASE n # Len(s)
        <5>1. i # Len(t) /\ i + 1 = n /\ i + 1 \in 1..Len(t)  BY <1>1, <1>3, <2>4, <3>1, <4>2
        <5>2. t[i + 1] = s[n + 1]  BY <1>1, <1>3, <5>1
        <5> QED  BY <4>2, <5>1, <5>2 DEF after
      <4> QED  BY <4>1, <4>2
    <3>3. New.prev = Old.prev
      <4>1. i # 1 => i - 1 \in 1..Len(t) /\ i - 1 < n  BY <1>1, <2>4, <3>1
      <4> QED  BY <1>3, <3>1, <4>1
    <3>4. element'[s[k]] = [Old EXCEPT !.next = after]  BY <1>7, <2>2, <3>1
    <3> HIDE DEF k
    <3> QED  BY <2>1, <3>2, <3>3, <3>4
  <2>5. CASE k = n + 1
    <3>1. i = n /\ n # Len(s) /\ s[k] = after /\ k # 1  BY <1>1, <2>1, <2>5 DEF after
    <3>2. New.prev = before
      <4>1. i # 1 => i - 1 \in 1..Len(t) /\ i - 1 < n  BY <1>1, <3>1
      <4> QED  BY <1>3, <3>1, <4>1 DEF before
    <3>3. New.next = Old.next
      <4>1. i = Len(t) <=> k = Len(s)  BY <1>1, <1>3, <2>5, <3>1
      <4>2. i # Len(t) => i + 1 \in 1..Len(t) /\ t[i + 1] = s[k + 1]
        BY <1>1, <1>3, <2>5, <3>1
      <4> QED  BY <4>1, <4>2
    <3>4. element'[s[k]] = [Old EXCEPT !.prev = before]  BY <1>7, <2>2, <3>1
    <3> HIDE DEF k
    <3> QED  BY <2>1, <3>2, <3>3, <3>4
  <2>6. CASE k # n - 1 /\ k # n + 1
    <3>1. s[k] # before /\ s[k] # after  BY <1>6, <2>1, <2>6
    <3>2. element'[s[k]] = Old  BY <1>7, <2>2, <2>3, <3>1
    <3>3. i # n /\ i # n - 1 /\ (i < n => i + 1 < n) /\ (i > n => i - 1 >= n)
      BY <1>1, <2>1, <2>6
    <3>4. New.next = Old.next
      <4>1. i = Len(t) <=> k = Len(s)  BY <1>1, <1>3, <3>3
      <4>2. i # Len(t) => i + 1 \in 1..Len(t) /\ t[i + 1] = s[k + 1]
        BY <1>1, <1>3, <3>3
      <4> QED  BY <4>1, <4>2
    <3>5. New.prev = Old.prev
      <4>1. i = 1 <=> k = 1  BY <1>1, <1>3, <3>3
      <4>2. i # 1 => i - 1 \in 1..Len(t) /\ t[i - 1] = s[k - 1]
        BY <1>1, <1>3, <3>3
      <4> QED  BY <4>1, <4>2
    <3> HIDE DEF k
    <3> QED  BY <2>1, <3>2, <3>4, <3>5
  <2> QED  BY <2>4, <2>5, <2>6
<1>11. ASSUME NEW c \in Elements \ ToSet(t)
       PROVE  element'[c] = [next |-> NoElement, prev |-> NoElement]
  <2>1. CASE c = b  BY <1>7, <2>1
  <2>2. CASE c # b
    <3>1. c \notin ToSet(s)  BY <1>3, <2>2 DEF b
    <3>2. \A i \in 1..Len(s) : s[i] # c  BY <1>1, <3>1 DEF ToSet
    <3>3. c # before /\ c # after
      BY <1>1, <1>4, <3>2 DEF before, after, Cells
    <3>4. element'[c] = element[c]  BY <1>7, <2>2, <3>3 DEF Cells
    <3> QED  BY <3>1, <3>4 DEF InOrder
  <2> QED  BY <2>1, <2>2
<1>12. \A i, j \in 1..Len(t) : t[i] = t[j] => i = j  BY <1>3
<1> QED  BY <1>3, <1>8, <1>9, <1>10, <1>11, <1>12 DEF InOrder, t, Typed

LEMMA ListStep ==
  ASSUME ListInv, ListNext
  PROVE  /\ ListInv'
         /\ \/ \E e \in Elements : OnList(element') = <<e>> \o OnList(element)
            \/ \E n \in DOMAIN OnList(element) :
                 OnList(element') = RemoveAt(OnList(element), n)
         /\ \A e \in Elements \ ToSet(OnList(element')) :
              element'[e] = [next |-> NoElement, prev |-> NoElement]
<1>1. PICK s : InOrder(element, s)  BY DEF ListInv
<1>2. OnList(element) = s /\ DOMAIN s = 1..Len(s) /\ s \in Seq(Elements)
  BY <1>1, OnListIs DEF InOrder
<1> SUFFICES \E t : /\ InOrder(element', t)
                    /\ \/ \E e \in Elements : t = <<e>> \o s
                       \/ \E n \in DOMAIN s : t = RemoveAt(s, n)
  <2>1. PICK t : /\ InOrder(element', t)
                 /\ \/ \E e \in Elements : t = <<e>> \o s
                    \/ \E n \in DOMAIN s : t = RemoveAt(s, n)
    OBVIOUS
  <2>2. OnList(element') = t  BY <2>1, OnListIs
  <2>3. \A e \in Elements \ ToSet(t) : element'[e] = [next |-> NoElement, prev |-> NoElement]
    BY <2>1 DEF InOrder
  <2>4. ListInv'  BY <2>1 DEF ListInv, InOrder, Cells
  <2> QED  BY <1>2, <2>1, <2>2, <2>3, <2>4
<1>3. CASE \E new \in {c \in Elements : ~Contains(OnList(element), c)} : listAdd(new)
  <2>1. PICK new \in Elements : ~Contains(s, new) /\ listAdd(new)  BY <1>2, <1>3
  <2>2. new \notin ToSet(s)  BY <1>2, <2>1 DEF Contains, ToSet
  <2> QED  BY <1>1, <2>1, <2>2, Added
<1>4. CASE \E b \in {c \in Elements : Contains(OnList(element), c)} : listRemove(b)
  <2>1. PICK n \in 1..Len(s) : listRemove(s[n])  BY <1>2, <1>4 DEF Contains
  <2> QED  BY <1>1, <1>2, <2>1, Taken
<1> QED  BY <1>3, <1>4 DEF ListNext

\* A call of listAdd or listRemove changes the list where it says and nowhere else.
THEOREM ListOrdered == MemorySpec => ListKeepsOrder
<1>1. MemoryInit => ListInv  BY ListStart DEF MemoryInit
<1> DEFINE Moves ==
      LET old == OnList(element)  new == OnList(element')
      IN  /\ \/ \E e \in Elements : new = <<e>> \o old
             \/ \E n \in DOMAIN old : new = RemoveAt(old, n)
          /\ \A e \in Elements \ ToSet(new) :
               element'[e] = [next |-> NoElement, prev |-> NoElement]
<1>2. ListInv /\ [MemoryNext]_memoryVars => ListInv' /\ [Moves]_element
  <2>1. CASE ListInv /\ ListNext  BY <2>1, ListStep
  <2>2. CASE ListInv /\ element' = element  BY <2>2 DEF ListInv, InOrder
  <2> QED  BY <2>1, <2>2 DEF MemoryNext, memoryVars
<1> QED  BY <1>1, <1>2, PTL DEF MemorySpec, ListKeepsOrder
=============================================================================
