------------------------------- MODULE Timer -------------------------------
(***************************************************************************)
(* The waits of src/delays.c and src/delay.c.  The system timer counts in  *)
(* 64 bits and is read as two words while it counts.                       *)
(***************************************************************************)
EXTENDS Integers

CONSTANTS
  WORD,      \* 2^32
  Second,    \* ticks of a second in delay (1000000)
  Amounts,   \* arguments of the waits
  Starts,    \* what the timer may stand at when the kernel first waits
  MaxCount   \* bound of the instance on the count

ASSUME TimerAssumption ==
  /\ WORD \in Nat \ {0} /\ Second \in Nat /\ MaxCount \in Nat
  /\ Amounts \subseteq Nat /\ Starts \subseteq Nat

VARIABLES
  count,     \* the timer
  op, n,     \* the wait that runs, its argument
  at,        \* the next register read of get_system_timer, or of the loop
  h, l,      \* its halves, as read; l is also what delay's loop reads
  start,     \* the count when the current get_system_timer began
  t,         \* what the wait began with, as read; -1 before
  finish,    \* where it ends
  began      \* the count when it began

timerVars == <<count, op, n, at, h, l, start, t, finish, began>>

High(x) == x \div WORD
Low(x) == x % WORD
SYSTMR_HI == High(count)
SYSTMR_LO == Low(count)

\* A call of get_system_timer lasts less than it takes to count a word through.
Tick ==
  /\ count < MaxCount
  /\ op = "wait_msec_st" => count + 1 - start < WORD
  /\ count' = count + 1
  /\ UNCHANGED <<op, n, at, h, l, start, t, finish, began>>

wait_msec_st(amount) ==
  /\ op = "none"
  /\ op' = "wait_msec_st" /\ n' = amount /\ began' = count
  /\ at' = "high" /\ start' = count /\ t' = -1 /\ finish' = 0
  /\ UNCHANGED <<count, h, l>>

\* get_system_timer: the high word, the low one, and both again if the high one
\* has changed.
ReadHigh ==
  /\ at \in {"high", "high2"}
  /\ h' = SYSTMR_HI /\ at' = IF at = "high" THEN "low" ELSE "low2"
  /\ UNCHANGED <<count, op, n, l, start, t, finish, began>>
ReadLow ==
  /\ at \in {"low", "low2"}
  /\ l' = SYSTMR_LO /\ at' = IF at = "low" THEN "check" ELSE "value"
  /\ UNCHANGED <<count, op, n, h, start, t, finish, began>>
CheckedMutant == "value"
Checked == IF h # SYSTMR_HI THEN "high2" ELSE "value"
CheckHigh ==
  /\ at = "check" /\ at' = Checked
  /\ UNCHANGED <<count, op, n, h, l, start, t, finish, began>>

value == h * WORD + l

\* A timer that stands at zero is taken for one that does not count.
Got ==
  /\ at = "value"
  /\ \/ t = -1 /\ value = 0 /\ at' = "end" /\ t' = 0 /\ UNCHANGED <<finish, start>>
     \/ /\ t = -1 /\ value # 0
        /\ t' = value /\ finish' = value + n /\ at' = "high" /\ start' = count
     \/ t # -1 /\ value < finish /\ at' = "high" /\ start' = count /\ UNCHANGED <<t, finish>>
     \/ t # -1 /\ value >= finish /\ at' = "end" /\ UNCHANGED <<t, finish, start>>
  /\ UNCHANGED <<count, op, n, h, l, began>>

\* delay reads the low word alone and reckons in 32 bits; l is its currentTime.
delay(seconds) ==
  /\ op = "none"
  /\ op' = "delay" /\ n' = seconds /\ began' = count
  /\ at' = "loop" /\ t' = SYSTMR_LO /\ l' = SYSTMR_LO
  /\ finish' = Low(SYSTMR_LO + seconds * Second)
  /\ UNCHANGED <<count, h, start>>
Loop ==
  /\ at = "loop"
  /\ \/ l >= finish /\ at' = "end" /\ UNCHANGED l
     \/ l < finish /\ l' = SYSTMR_LO /\ UNCHANGED at
  /\ UNCHANGED <<count, op, n, h, start, t, finish, began>>

End ==
  /\ at = "end" /\ at' = "none" /\ op' = "none"
  /\ UNCHANGED <<count, n, h, l, start, t, finish, began>>

TimerInit ==
  /\ count \in Starts /\ start = count
  /\ op = "none" /\ at = "none" /\ n = 0 /\ h = 0 /\ l = 0 /\ t = -1 /\ finish = 0 /\ began = count
TimerNext ==
  \/ Tick \/ ReadHigh \/ ReadLow \/ CheckHigh \/ Got \/ Loop \/ End
  \/ \E a \in Amounts : wait_msec_st(a) \/ delay(a)
TimerSpec == TimerInit /\ [][TimerNext]_timerVars

\* A wait lasts as long as it was asked to, although the timer moves on between the
\* reads of its two words; but wait_msec_st does not wait on a timer that stands at
\* zero, and delay may end at once when the count of its end does not fit 32 bits.
LongEnough ==
  at = "end" =>
    \/ op = "wait_msec_st" /\ (count - began >= n \/ t = 0)
    \/ op = "delay" /\ (count - began >= n * Second \/ t + n * Second >= WORD)
=============================================================================
