----------------------------- MODULE TimerProofs -----------------------------
(* Why the waits of module Timer last long enough, for words of any size. *)
EXTENDS Timer, TLAPS

(***************************************************************************)
(* The two words of a count                                                *)
(***************************************************************************)

\* A count is its two words.
LEMMA Words ==
  ASSUME NEW x \in Nat
  PROVE  /\ High(x) \in Nat /\ Low(x) \in Nat /\ Low(x) < WORD
         /\ x = High(x) * WORD + Low(x)
BY TimerAssumption DEF High, Low

\* Two different high words are a whole word of ticks apart.
LEMMA NextWord ==
  ASSUME NEW a \in Nat, NEW b \in Nat, a < b
  PROVE  a * WORD + WORD <= b * WORD
BY TimerAssumption

\* The high word does not go back, and moves on by one at most in less than a word.
LEMMA HighMonotone ==
  ASSUME NEW x \in Nat, NEW y \in Nat, x <= y
  PROVE  /\ High(x) <= High(y)
         /\ y - x < WORD => High(y) <= High(x) + 1
<1> DEFINE a == High(x)
           b == High(y)
           p == Low(x)
           q == Low(y)
<1>1. a \in Nat /\ p \in Nat /\ p < WORD /\ x = a * WORD + p  BY Words
<1>2. b \in Nat /\ q \in Nat /\ q < WORD /\ y = b * WORD + q  BY Words
<1> HIDE DEF a, b, p, q
<1>3. WORD \in Nat  BY TimerAssumption
<1>4. b < a => b * WORD + WORD <= a * WORD  BY <1>1, <1>2, NextWord
<1>5. a + 1 < b => (a + 1) * WORD + WORD <= b * WORD  BY <1>1, <1>2, NextWord
<1>6. (a + 1) * WORD = a * WORD + WORD  BY <1>1, <1>3
<1>7. a * WORD \in Int /\ b * WORD \in Int  BY <1>1, <1>2, <1>3
<1>8. a <= b
  <2> SUFFICES ASSUME b < a PROVE FALSE  BY <1>1, <1>2
  <2> QED  BY <1>1, <1>2, <1>3, <1>4, <1>7
<1>9. ASSUME y - x < WORD PROVE b <= a + 1
  <2> SUFFICES ASSUME a + 1 < b PROVE FALSE  BY <1>1, <1>2
  <2> QED  BY <1>1, <1>2, <1>3, <1>5, <1>6, <1>7, <1>9
<1> QED  BY <1>8, <1>9 DEF a, b

\* A low word that is d above that of an earlier count was read d ticks later at least.
LEMMA LowWordGrown ==
  ASSUME NEW x \in Nat, NEW y \in Nat, x <= y, NEW d \in Nat,
         Low(y) >= Low(x) + d
  PROVE  y - x >= d
<1> DEFINE a == High(x)
           b == High(y)
           p == Low(x)
           q == Low(y)
<1>1. a \in Nat /\ p \in Nat /\ p < WORD /\ x = a * WORD + p  BY Words
<1>2. b \in Nat /\ q \in Nat /\ q < WORD /\ y = b * WORD + q  BY Words
<1>3. a <= b  BY HighMonotone
<1>4. q >= p + d  OBVIOUS
<1> HIDE DEF a, b, p, q
<1>5. WORD \in Nat  BY TimerAssumption
<1>6. a < b => a * WORD + WORD <= b * WORD  BY <1>1, <1>2, NextWord
<1>7. a * WORD \in Int /\ b * WORD \in Int  BY <1>1, <1>2, <1>5
<1>8. a * WORD <= b * WORD
  <2>1. CASE a = b  BY <2>1, <1>7
  <2>2. CASE a < b  BY <2>2, <1>5, <1>6, <1>7
  <2> QED  BY <2>1, <2>2, <1>1, <1>2, <1>3
<1> QED  BY <1>1, <1>2, <1>4, <1>5, <1>7, <1>8

(***************************************************************************)
(* The inductive invariant                                                 *)
(***************************************************************************)

Kinds ==
  /\ count \in Nat /\ start \in Nat /\ began \in Nat /\ n \in Nat
  /\ h \in Nat /\ l \in Nat /\ t \in Nat \cup {-1} /\ finish \in Nat
  /\ op \in {"none", "wait_msec_st", "delay"}
  /\ op = "none" => at = "none"
  /\ op = "wait_msec_st" =>
       at \in {"high", "low", "check", "high2", "low2", "value", "end"}
  /\ op = "delay" => at \in {"loop", "end"}

\* What get_system_timer has in hand at each of its steps: the low word is that of a
\* moment of the call, whose high word is not less than the one read; once the high
\* word has changed it does not change again; the value is the count of a moment of
\* the call.
Reading ==
  /\ at = "low" => High(start) <= h /\ h <= High(count)
  /\ at = "check" =>
       /\ High(start) <= h
       /\ \E x \in start..count : l = Low(x) /\ h <= High(x)
  /\ at = "high2" => High(count) = High(start) + 1
  /\ at = "low2" => High(count) = High(start) + 1 /\ h = High(count)
  /\ at = "value" => value \in start..count

\* wait_msec_st: a call of get_system_timer lasts less than a word, and the first one's
\* value, unless it is zero, is a moment of the wait.
Waiting ==
  op = "wait_msec_st" =>
    /\ began <= start /\ start <= count /\ count - start < WORD
    /\ t = 0 => at = "end"
    /\ t > 0 => began <= t /\ finish = t + n
    /\ at = "end" => t >= 0 /\ (t > 0 => finish <= count)
    /\ Reading

\* delay: what the loop holds is the low word of a moment of the wait.
Delaying ==
  op = "delay" =>
    /\ t = Low(began) /\ finish = Low(t + n * Second)
    /\ \E x \in began..count : l = Low(x)
    /\ at = "end" => l >= finish

TimerInv == Kinds /\ Waiting /\ Delaying

LEMMA TimerInvInit == TimerInit => TimerInv
BY TimerAssumption DEF TimerInit, TimerInv, Kinds, Waiting, Delaying

LEMMA TickKeeps == TimerInv /\ Tick => TimerInv'
<1> SUFFICES ASSUME TimerInv, Tick PROVE TimerInv'  OBVIOUS
<1> USE DEF Tick
<1>1. Kinds'  BY DEF TimerInv, Kinds
<1>2. Delaying'
  <2> SUFFICES ASSUME op = "delay" PROVE Delaying'  BY DEF Delaying
  <2>1. PICK x \in began..count : l = Low(x)  BY DEF TimerInv, Delaying
  <2>2. x \in began'..count'  BY <2>1 DEF TimerInv, Kinds
  <2> QED  BY <2>1, <2>2 DEF TimerInv, Delaying
<1>3. Waiting'
  <2> SUFFICES ASSUME op = "wait_msec_st" PROVE Waiting'  BY DEF Waiting
  <2>0. /\ count \in Nat /\ start \in Nat /\ began \in Nat /\ finish \in Nat
        /\ start <= count /\ count' - start < WORD /\ count' \in Nat /\ WORD \in Nat
        /\ start <= count' /\ count <= count' /\ count' = count + 1
    BY TimerAssumption DEF TimerInv, Kinds, Waiting
  <2>1. /\ High(start) \in Nat /\ High(count) \in Nat /\ High(count') \in Nat
        /\ High(count) <= High(count')
        /\ High(count') <= High(start) + 1
    BY <2>0, Words, HighMonotone
  <2>2. Reading'
    <3>1. (at = "check" => \E x \in start..count : l = Low(x) /\ h <= High(x))'
      <4> SUFFICES ASSUME at = "check"
                   PROVE \E x \in start..count' : l = Low(x) /\ h <= High(x)
        OBVIOUS
      <4>1. PICK x \in start..count : l = Low(x) /\ h <= High(x)
        BY DEF TimerInv, Waiting, Reading
      <4>2. x \in start..count'  BY <2>0
      <4> QED  BY <4>1, <4>2
    <3>2. (at = "value" => value \in start..count)'
      BY <2>0 DEF TimerInv, Waiting, Reading, value
    <3>3. (at = "low" => High(start) <= h /\ h <= High(count))'
      BY <2>1 DEF TimerInv, Kinds, Waiting, Reading
    <3>4. (at = "check" => High(start) <= h)'
      BY DEF TimerInv, Waiting, Reading
    <3>5. (at = "high2" => High(count) = High(start) + 1)'
      BY <2>1 DEF TimerInv, Waiting, Reading
    <3>6. (at = "low2" => High(count) = High(start) + 1 /\ h = High(count))'
      BY <2>1 DEF TimerInv, Waiting, Reading
    <3> QED  BY <3>1, <3>2, <3>3, <3>4, <3>5, <3>6 DEF Reading
  <2> QED  BY <2>0, <2>2 DEF TimerInv, Waiting
<1> QED  BY <1>1, <1>2, <1>3 DEF TimerInv

LEMMA CallKeeps ==
  TimerInv /\ (\E a \in Amounts : wait_msec_st(a) \/ delay(a)) => TimerInv'
<1> SUFFICES ASSUME TimerInv, NEW a \in Amounts, wait_msec_st(a) \/ delay(a)
             PROVE  TimerInv'
  OBVIOUS
<1>0. /\ a \in Nat /\ count \in Nat /\ WORD \in Nat \ {0} /\ Second \in Nat
  BY TimerAssumption DEF TimerInv, Kinds
<1>1. CASE wait_msec_st(a)
  BY <1>0, <1>1 DEF wait_msec_st, TimerInv, Kinds, Waiting, Delaying, Reading
<1>2. CASE delay(a)
  <2> USE <1>2 DEF delay, SYSTMR_LO
  <2>1. /\ Low(count) \in Nat
        /\ Low(Low(count) + a * Second) \in Nat
    <3>1. Low(count) \in Nat  BY <1>0, Words
    <3>2. a * Second \in Nat  BY <1>0
    <3>3. Low(count) + a * Second \in Nat  BY <1>0, <3>1, <3>2
    <3> QED  BY <3>1, <3>3, Words
  <2>2. Kinds'  BY <1>0, <2>1 DEF TimerInv, Kinds
  <2>3. count \in began'..count'  BY <1>0
  <2>4. Waiting' /\ Delaying'  BY <2>3 DEF Waiting, Delaying
  <2> QED  BY <2>2, <2>4 DEF TimerInv
<1> QED  BY <1>1, <1>2

LEMMA ReadHighKeeps == TimerInv /\ ReadHigh => TimerInv'
<1> SUFFICES ASSUME TimerInv, ReadHigh PROVE TimerInv'  OBVIOUS
<1> USE DEF ReadHigh, SYSTMR_HI
<1>0. /\ op = "wait_msec_st" /\ count \in Nat /\ start \in Nat /\ start <= count
  BY DEF TimerInv, Kinds, Waiting
<1>1. /\ High(start) \in Nat /\ High(count) \in Nat
      /\ High(start) <= High(count)
  BY <1>0, Words, HighMonotone
<1>2. Kinds'  BY <1>1 DEF TimerInv, Kinds
<1>3. Reading'  BY <1>0, <1>1 DEF TimerInv, Waiting, Reading
<1> QED  BY <1>0, <1>2, <1>3 DEF TimerInv, Waiting, Delaying

LEMMA ReadLowKeeps == TimerInv /\ ReadLow => TimerInv'
<1> SUFFICES ASSUME TimerInv, ReadLow PROVE TimerInv'  OBVIOUS
<1> USE DEF ReadLow, SYSTMR_LO
<1>0. /\ op = "wait_msec_st" /\ count \in Nat /\ start \in Nat /\ start <= count
  BY DEF TimerInv, Kinds, Waiting
<1>1. /\ Low(count) \in Nat /\ count = High(count) * WORD + Low(count)
  BY <1>0, Words
<1>2. Kinds'  BY <1>1 DEF TimerInv, Kinds
<1>3. count \in start'..count'  BY <1>0
<1>4. CASE at = "low"
  <2>1. /\ High(start) <= h /\ h <= High(count)
    BY <1>0, <1>4 DEF TimerInv, Waiting, Reading
  <2> QED  BY <1>0, <1>2, <1>3, <1>4, <2>1 DEF TimerInv, Waiting, Delaying, Reading
<1>5. CASE at = "low2"
  <2>1. value' = count
    BY <1>0, <1>1, <1>5 DEF TimerInv, Waiting, Reading, value
  <2>2. Reading'  BY <1>3, <1>5, <2>1 DEF Reading
  <2> QED  BY <1>0, <1>2, <1>5, <2>2 DEF TimerInv, Waiting, Delaying
<1> QED  BY <1>4, <1>5

LEMMA CheckHighKeeps == TimerInv /\ CheckHigh => TimerInv'
<1> SUFFICES ASSUME TimerInv, CheckHigh PROVE TimerInv'  OBVIOUS
<1> USE DEF CheckHigh, Checked, SYSTMR_HI
<1>0. /\ op = "wait_msec_st" /\ count \in Nat /\ start \in Nat /\ h \in Nat
      /\ start <= count /\ count - start < WORD /\ High(start) <= h
  BY DEF TimerInv, Kinds, Waiting, Reading
<1>1. PICK x \in start..count : l = Low(x) /\ h <= High(x)
  BY DEF TimerInv, Kinds, Waiting, Reading
<1>2. /\ x \in Nat /\ High(x) \in Nat /\ x = High(x) * WORD + Low(x)
      /\ High(x) <= High(count)
  BY <1>0, Words, HighMonotone
<1>3. /\ High(start) \in Nat /\ High(count) \in Nat
      /\ High(count) <= High(start) + 1
  BY <1>0, Words, HighMonotone
<1>4. Kinds'  BY DEF TimerInv, Kinds
<1>5. CASE h # High(count)
  <2>1. High(count) = High(start) + 1  BY <1>0, <1>1, <1>2, <1>3, <1>5
  <2>2. Reading'  BY <1>5, <2>1 DEF Reading
  <2> QED  BY <1>0, <1>4, <1>5, <2>2 DEF TimerInv, Waiting, Delaying
<1>6. CASE h = High(count)
  <2>1. h = High(x)  BY <1>0, <1>1, <1>2, <1>3, <1>6
  <2>2. value' = x  BY <1>1, <1>2, <2>1 DEF value
  <2>3. Reading'  BY <1>6, <2>2 DEF Reading
  <2> QED  BY <1>0, <1>4, <1>6, <2>3 DEF TimerInv, Waiting, Delaying
<1> QED  BY <1>5, <1>6

LEMMA GotKeeps == TimerInv /\ Got => TimerInv'
<1> SUFFICES ASSUME TimerInv, Got PROVE TimerInv'  OBVIOUS
<1>0. /\ op = "wait_msec_st" /\ at = "value" /\ value \in start..count
      /\ count \in Nat /\ start \in Nat /\ began \in Nat /\ n \in Nat /\ finish \in Nat
      /\ began <= start /\ start <= count /\ count - start < WORD
      /\ t \in Nat \cup {-1} /\ t # 0 /\ (t > 0 => began <= t /\ finish = t + n)
  BY DEF Got, TimerInv, Kinds, Waiting, Reading
<1>1. WORD \in Nat \ {0}  BY TimerAssumption
<1> HIDE DEF value
<1>2. Kinds'  BY <1>0 DEF Got, TimerInv, Kinds
<1>3. Delaying'  BY <1>0 DEF Got, Delaying
<1>4. Waiting'
  <2>1. CASE t = -1 /\ value = 0 /\ at' = "end" /\ t' = 0 /\ UNCHANGED <<finish, start>>
    BY <1>0, <2>1 DEF Got, Waiting, Reading
  <2>2. CASE /\ t = -1 /\ value # 0
             /\ t' = value /\ finish' = value + n /\ at' = "high" /\ start' = count
    BY <1>0, <1>1, <2>2 DEF Got, Waiting, Reading
  <2>3. CASE t # -1 /\ value < finish /\ at' = "high" /\ start' = count /\ UNCHANGED <<t, finish>>
    BY <1>0, <1>1, <2>3 DEF Got, Waiting, Reading
  <2>4. CASE t # -1 /\ value >= finish /\ at' = "end" /\ UNCHANGED <<t, finish, start>>
    BY <1>0, <2>4 DEF Got, Waiting, Reading
  <2> QED  BY <2>1, <2>2, <2>3, <2>4 DEF Got
<1> QED  BY <1>2, <1>3, <1>4 DEF TimerInv

LEMMA LoopKeeps == TimerInv /\ Loop => TimerInv'
<1> SUFFICES ASSUME TimerInv, Loop PROVE TimerInv'  OBVIOUS
<1> USE DEF Loop, SYSTMR_LO
<1>0. /\ op = "delay" /\ count \in Nat /\ began \in Nat /\ l \in Nat /\ WORD \in Nat
      /\ \E x \in began..count : l = Low(x)
  BY TimerAssumption DEF TimerInv, Kinds, Delaying
<1>1. Low(count) \in Nat  BY <1>0, Words
<1>2. Kinds'  BY <1>0, <1>1 DEF TimerInv, Kinds
<1>3. Waiting'  BY <1>0 DEF Waiting
<1>4. (\E x \in began..count : l = Low(x))'
  <2>1. CASE UNCHANGED l  BY <1>0, <2>1
  <2>2. CASE l' = Low(count)
    <3>1. count \in began'..count'  BY <1>0
    <3> QED  BY <2>2, <3>1
  <2> QED  BY <2>1, <2>2
<1>5. Delaying'  BY <1>0, <1>4 DEF TimerInv, Delaying
<1> QED  BY <1>2, <1>3, <1>5 DEF TimerInv

LEMMA EndKeeps == TimerInv /\ End => TimerInv'
BY DEF End, TimerInv, Kinds, Waiting, Delaying

LEMMA TimerInvNext == TimerInv /\ [TimerNext]_timerVars => TimerInv'
<1> SUFFICES ASSUME TimerInv, [TimerNext]_timerVars PROVE TimerInv'  OBVIOUS
<1>1. CASE UNCHANGED timerVars
  BY <1>1 DEF timerVars, TimerInv, Kinds, Waiting, Delaying, Reading, value
<1> QED
  BY <1>1, TickKeeps, CallKeeps, ReadHighKeeps, ReadLowKeeps, CheckHighKeeps, GotKeeps,
     LoopKeeps, EndKeeps
  DEF TimerNext

\* What the invariant says of a wait that ends.
LEMMA TimerInvLongEnough == TimerInv => LongEnough
<1> SUFFICES ASSUME TimerInv, at = "end" PROVE LongEnough  BY DEF LongEnough
<1>0. op = "wait_msec_st" \/ op = "delay"  BY DEF TimerInv, Kinds
<1>1. CASE op = "wait_msec_st"
  BY <1>1 DEF TimerInv, Kinds, Waiting, LongEnough
<1>2. CASE op = "delay"
  <2>1. /\ count \in Nat /\ began \in Nat /\ n \in Nat /\ Second \in Nat /\ WORD \in Nat
        /\ n * Second \in Nat
    BY TimerAssumption DEF TimerInv, Kinds
  <2>2. /\ t = Low(began) /\ finish = Low(t + n * Second) /\ l >= finish
    BY <1>2 DEF TimerInv, Delaying
  <2>3. PICK x \in began..count : l = Low(x)  BY <1>2 DEF TimerInv, Delaying
  <2>4. t \in Nat  BY <2>1, <2>2, Words
  <2>5. CASE t + n * Second < WORD
    <3> DEFINE d == n * Second
    <3>1. d \in Nat /\ t + d < WORD /\ t + d \in Nat  BY <2>1, <2>4, <2>5
    <3>2. finish = Low(t + d)  BY <2>2
    <3> HIDE DEF d
    <3>3. Low(t + d) = t + d  BY <2>1, <3>1 DEF Low
    <3>4. x \in Nat /\ began <= x /\ Low(x) >= Low(began) + d
      BY <2>1, <2>2, <2>3, <3>2, <3>3
    <3>5. x - began >= d  BY <2>1, <3>1, <3>4, LowWordGrown
    <3>6. count - began >= n * Second  BY <2>1, <2>3, <3>1, <3>5 DEF d
    <3> QED  BY <1>2, <3>6 DEF LongEnough
  <2>6. CASE t + n * Second >= WORD  BY <1>2, <2>6 DEF LongEnough
  <2> QED  BY <2>1, <2>4, <2>5, <2>6
<1> QED  BY <1>0, <1>1, <1>2

\* A wait of any length lasts as long as it was asked to, whatever the size of a word
\* and wherever the timer stood, with the two exceptions LongEnough names.
THEOREM WaitsLastLongEnough == TimerSpec => []LongEnough
<1>1. TimerInit => TimerInv  BY TimerInvInit
<1>2. TimerInv /\ [TimerNext]_timerVars => TimerInv'  BY TimerInvNext
<1>3. TimerInv => LongEnough  BY TimerInvLongEnough
<1> QED  BY <1>1, <1>2, <1>3, PTL DEF TimerSpec
=============================================================================
