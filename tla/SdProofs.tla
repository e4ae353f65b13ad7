------------------------------ MODULE SdProofs ------------------------------
(* Why sd_cmd takes no answer for its own but its own, why sd_init leaves the   *)
(* card ready and why a read brings its blocks, for any number of rounds of the *)
(* driver's loops, any card of the model and any reads.                         *)
EXTENDS SdProperties, TLAPS

Here == <<call, at, tries, c>>
Own(k) == k.code = code /\ k.from = Here

\* One command at most is in flight, as none goes out while CMD_INHIBIT is set; and
\* while sd_int waits, the one in flight is the one it waits for, and so is the one
\* that was answered last, since what was pending has been cleared.
SdInv ==
  /\ inflight = <<>> \/ inflight = <<inflight[1]>>
  /\ phase = "int" =>
       /\ inflight # <<>> => Own(inflight[1])
       /\ "done" \in interrupt => Own(resp)

LEMMA SdInvInit == SdInit => SdInv
BY DEF SdInit, SdInv

\* A step that leaves the driver elsewhere than in sd_int, and sends nothing.
Elsewhere == phase' # "int" /\ (inflight' = inflight \/ inflight' = <<>>)

LEMMA ElsewhereKeeps == SdInv /\ Elsewhere => SdInv'
BY DEF SdInv, Elsewhere

\* A round of the loop of sd_status or of sd_int.
LEMMA AgainElsewhere ==
  ASSUME phase # "int", Again
  PROVE  Elsewhere
BY DEF Again, Wait, Go, controller, Elsewhere

LEMMA SendElsewhere ==
  ASSUME NEW a, Send(a), inflight' = inflight
  PROVE  Elsewhere
BY DEF Send, Go, Elsewhere

LEMMA EndedElsewhere ==
  ASSUME NEW err, NEW flags, Ended(err, flags), inflight' = inflight
  PROVE  Elsewhere
BY DEF Ended, Elsewhere

LEMMA ReturnElsewhere ==
  ASSUME NEW v, Return(v), inflight' = inflight
  PROVE  Elsewhere
BY DEF Return, Elsewhere

LEMMA SdInitElsewhere ==
  Reset \/ sd_clk \/ OcrAnswered \/ InitAnswered \/ ScrInhibited \/ ScrReady \/ ReadScr \/ WidthSet
    => Elsewhere
<1> USE DEF controller
<1>1. Reset => Elsewhere  BY ReturnElsewhere DEF Reset, Wait, Go, Elsewhere
<1>2. sd_clk => Elsewhere
  BY AgainElsewhere, ReturnElsewhere, SendElsewhere DEF sd_clk
<1>3. OcrAnswered => Elsewhere
  BY ReturnElsewhere, SendElsewhere DEF OcrAnswered
<1>4. InitAnswered => Elsewhere
  <2> SUFFICES ASSUME InitAnswered PROVE Elsewhere  OBVIOUS
  <2>1. inflight' = inflight  BY DEF InitAnswered
  <2>2. CASE Return(sd_err)  BY <2>1, <2>2, ReturnElsewhere
  <2>3. CASE Continue
    BY <2>1, <2>3, SendElsewhere DEF Continue, Wait, Go, Elsewhere
  <2> QED  BY <2>2, <2>3 DEF InitAnswered
<1>5. ScrInhibited => Elsewhere
  BY AgainElsewhere, ReturnElsewhere, SendElsewhere DEF ScrInhibited, StatusAgain
<1>6. ScrReady => Elsewhere
  BY AgainElsewhere, ReturnElsewhere DEF ScrReady, IntAgain, Wait, Go, Elsewhere
<1>7. ReadScr => Elsewhere
  BY ReturnElsewhere, SendElsewhere DEF ReadScr, flow, Elsewhere
<1>8. WidthSet => Elsewhere  BY ReturnElsewhere DEF WidthSet
<1> QED  BY <1>1, <1>2, <1>3, <1>4, <1>5, <1>6, <1>7, <1>8

LEMMA ReadElsewhere == ReadInhibited \/ ReadAnswered \/ Block \/ initFat => Elsewhere
<1> USE DEF controller
<1>1. ReadInhibited => Elsewhere
  BY AgainElsewhere, ReturnElsewhere, SendElsewhere DEF ReadInhibited, StatusAgain, SendRead
<1>2. ReadAnswered => Elsewhere
  BY ReturnElsewhere, SendElsewhere DEF ReadAnswered, SendRead, Wait, Go, Elsewhere
<1>3. Block => Elsewhere
  BY AgainElsewhere, ReturnElsewhere, SendElsewhere DEF Block, IntAgain, SendRead, Wait, Go, Elsewhere
<1>4. initFat => Elsewhere  BY DEF initFat, Read, Elsewhere
<1> QED  BY <1>1, <1>2, <1>3, <1>4

LEMMA InhibitedKeeps == SdInv /\ Inhibited => SdInv'
<1> SUFFICES ASSUME SdInv, Inhibited PROVE SdInv'  OBVIOUS
<1>1. CASE StatusAgain({"CMD_INHIBIT"})
  BY <1>1, AgainElsewhere, ElsewhereKeeps DEF Inhibited, StatusAgain
<1>2. CASE Ended(SD_TIMEOUT, {}) /\ UNCHANGED controller
  BY <1>2, EndedElsewhere, ElsewhereKeeps DEF controller
<1>3. CASE /\ StatusGood({"CMD_INHIBIT"})
           /\ Issue /\ Wait("int", IntTries)
           /\ UNCHANGED <<app, r, sd_err, resp, data, fifo, width>>
  <2>1. inflight = <<>>  BY <1>3 DEF StatusGood, Status
  <2>2. inflight' = <<Command>> /\ interrupt' = {}  BY <1>3, <2>1 DEF Issue
  <2>3. UNCHANGED <<call, at, app, tries, c>>  BY <1>3 DEF Inhibited, Wait, Go
  <2>4. Command.code = code' /\ Command.from = Here'
    BY <2>3 DEF Here, Command, code
  <2> QED  BY <2>2, <2>4 DEF SdInv, Own
<1> QED  BY <1>1, <1>2, <1>3 DEF Inhibited

LEMMA CommandDoneKeeps == SdInv /\ CommandDone => SdInv'
<1> SUFFICES ASSUME SdInv, CommandDone PROVE SdInv'  OBVIOUS
<1>1. CASE IntAgain("done")
  <2>1. UNCHANGED <<call, at, app, phase, tries, c, interrupt, inflight, resp>>
    BY <1>1 DEF CommandDone, IntAgain, Again, Wait, Go, controller, locals
  <2> QED  BY <2>1 DEF SdInv, Own, Here, code
<1>2. CASE \E err, flags : Ended(err, flags) /\ inflight' = inflight
  BY <1>2, EndedElsewhere, ElsewhereKeeps
<1> QED  BY <1>1, <1>2 DEF CommandDone

LEMMA CardAnswersKeeps == SdInv /\ CardAnswers => SdInv'
<1> SUFFICES ASSUME SdInv, CardAnswers PROVE SdInv'  OBVIOUS
<1> DEFINE k == inflight[1]
<1>1. inflight = <<k>>  BY DEF CardAnswers, SdInv
<1> HIDE DEF k
<1>2. inflight' = <<>> /\ Head(inflight) = k  BY <1>1 DEF CardAnswers
<1>3. UNCHANGED <<call, at, app, phase, tries, c>>
  BY DEF CardAnswers, flow, locals
<1>4. \/ interrupt' \subseteq interrupt \cup {"error", "timeout"} /\ UNCHANGED resp
      \/ \E f : resp' = [from |-> k.from, code |-> k.code, flags |-> f]
  BY <1>2 DEF CardAnswers, Replied
<1>5. phase = "int" /\ "done" \in interrupt' => Own(resp)'
  <2> SUFFICES ASSUME phase = "int", "done" \in interrupt' PROVE Own(resp)'  OBVIOUS
  <2>1. Own(k)  BY <1>1 DEF SdInv, k
  <2>2. CASE interrupt' \subseteq interrupt \cup {"error", "timeout"} /\ UNCHANGED resp
    BY <1>3, <2>2 DEF SdInv, Own, Here, code
  <2>3. CASE \E f : resp' = [from |-> k.from, code |-> k.code, flags |-> f]
    BY <1>3, <2>1, <2>3 DEF Own, Here, code
  <2> QED  BY <1>4, <2>2, <2>3
<1> QED  BY <1>2, <1>3, <1>5 DEF SdInv

LEMMA DataComesKeeps == SdInv /\ DataComes => SdInv'
<1> SUFFICES ASSUME SdInv, DataComes PROVE SdInv'  OBVIOUS
<1>1. UNCHANGED <<call, at, app, phase, tries, c, inflight, resp>>
  BY DEF DataComes, flow, locals
<1>2. "done" \in interrupt' => "done" \in interrupt  BY DEF DataComes, Errors
<1> QED  BY <1>1, <1>2 DEF SdInv, Own, Here, code

LEMMA SdInvNext == SdInv /\ [SdNext]_sdVars => SdInv'
<1> SUFFICES ASSUME SdInv, [SdNext]_sdVars PROVE SdInv'  OBVIOUS
<1>1. CASE UNCHANGED sdVars
  BY <1>1 DEF sdVars, flow, locals, controller, SdInv, Own, Here, code
<1> QED
  BY <1>1, SdInitElsewhere, ReadElsewhere, ElsewhereKeeps, InhibitedKeeps, CommandDoneKeeps,
     CardAnswersKeeps, DataComesKeeps
  DEF SdNext, Driver

\* sd_cmd never takes a late answer to a command given up for its own command's,
\* however many rounds its loops have and whatever is read from the card.
THEOREM AnswersNeverMixed == SdSpec => []AnswersAreOwn
<1>1. SdInit => SdInv  BY SdInvInit
<1>2. SdInv /\ [SdNext]_sdVars => SdInv'  BY SdInvNext
<1>3. SdInv => AnswersAreOwn  BY DEF SdInv, Own, Here, AnswersAreOwn
<1> QED  BY <1>1, <1>2, <1>3, PTL DEF SdSpec

(***************************************************************************)
(* Errors that come late                                                   *)
(***************************************************************************)

\* A read begins with nothing returned.
Fresh == phase = "dat" /\ reading => ret = 0

\* An error is pending, and the reads go by without sd_int.
Stuck ==
  /\ reading /\ phase \in {"dat", "return", "done"} /\ ret = 0
  /\ interrupt \cap Errors # {}

LEMMA InitFatSteps ==
  ASSUME initFat
  PROVE  /\ ret = 0 /\ reading =>
              /\ reading' /\ phase' \in {"dat", "done"} /\ ret' = 0
         /\ Fresh'
BY SdAssumption DEF initFat, Read, reading, Fresh

\* No step of sd_init, and no step of a read after its first wait, comes to the wait
\* for DAT_INHIBIT of a read.
LEMMA SdInitNotReading ==
  Reset \/ sd_clk \/ OcrAnswered \/ InitAnswered \/ ScrInhibited \/ ScrReady \/ ReadScr \/ WidthSet
    => phase \notin {"return", "done"} /\ (phase = "dat" => ~reading) /\ (phase' = "dat" => ~reading')
<1> USE DEF Again, Wait, Go, Send, Return, reading, flow
<1>1. Reset \/ sd_clk => phase \in {"reset", "clock"} /\ phase' # "dat"
  BY DEF Reset, sd_clk
<1>2. OcrAnswered \/ WidthSet => phase = "back" /\ phase' # "dat"
  BY DEF OcrAnswered, WidthSet
<1>3. InitAnswered => phase = "back" /\ ~reading /\ ~reading'
  BY DEF InitAnswered, Continue
<1>4. ScrInhibited => phase = "dat" /\ ~reading /\ ~reading'
  BY DEF ScrInhibited, StatusAgain
<1>5. ScrReady \/ ReadScr => phase \in {"ready", "scr"} /\ phase' # "dat"
  BY DEF ScrReady, IntAgain, ReadScr
<1> QED  BY <1>1, <1>2, <1>3, <1>4, <1>5

LEMMA CommandNotReading ==
  Inhibited \/ CommandDone \/ ReadAnswered \/ Block
    => phase \notin {"dat", "return", "done"} /\ phase' # "dat"
<1> USE DEF Again, Wait, Go, Send, SendRead, Return, Ended
<1>1. Inhibited => phase = "inhibit" /\ phase' # "dat"  BY DEF Inhibited, StatusAgain
<1>2. CommandDone => phase = "int" /\ phase' # "dat"  BY DEF CommandDone, IntAgain
<1>3. ReadAnswered => phase = "back" /\ phase' # "dat"  BY DEF ReadAnswered
<1>4. Block => phase = "ready" /\ phase' # "dat"  BY DEF Block, IntAgain
<1> QED  BY <1>1, <1>2, <1>3, <1>4

\* The controller and the card clear nothing.
LEMMA OthersClearNothing ==
  CardAnswers \/ DataComes =>
    /\ interrupt \cap Errors \subseteq interrupt' /\ UNCHANGED <<call, phase, ret>>
<1>1. CardAnswers => interrupt \subseteq interrupt' /\ UNCHANGED <<call, phase, ret>>
  BY DEF CardAnswers, Replied, flow, locals
<1>2. DataComes => interrupt \subseteq interrupt' /\ UNCHANGED <<call, phase, ret>>
  BY DEF DataComes, flow, locals
<1> QED  BY <1>1, <1>2

LEMMA FreshNext == Fresh /\ [SdNext]_sdVars => Fresh'
<1> SUFFICES ASSUME Fresh, [SdNext]_sdVars PROVE Fresh'  OBVIOUS
<1>1. CASE ReadInhibited
  BY <1>1 DEF ReadInhibited, StatusAgain, Again, Wait, Go, Send, SendRead, Return, Fresh, reading,
              locals
<1>2. CASE UNCHANGED sdVars \/ CardAnswers \/ DataComes
  BY <1>2, OthersClearNothing DEF sdVars, flow, locals, Fresh, reading
<1> QED
  BY <1>1, <1>2, InitFatSteps, SdInitNotReading, CommandNotReading DEF SdNext, Driver, Fresh

LEMMA StuckNext == Stuck /\ [SdNext]_sdVars => Stuck'
<1> SUFFICES ASSUME Stuck, [SdNext]_sdVars PROVE Stuck'  OBVIOUS
<1>1. CASE ReadInhibited
  <2>1. ~StatusGood({"DAT_INHIBIT"}) /\ ~StatusAgain({"DAT_INHIBIT"})
    BY DEF Stuck, StatusGood, StatusAgain
  <2>2. Return(0) /\ UNCHANGED interrupt  BY <1>1, <2>1 DEF ReadInhibited, controller
  <2> QED  BY <2>2 DEF Stuck, Return, reading
<1>2. CASE initFat
  <2>1. UNCHANGED interrupt  BY <1>2 DEF initFat, controller
  <2> QED  BY <1>2, <2>1, InitFatSteps DEF Stuck
<1>3. CASE CardAnswers \/ DataComes
  BY <1>3, OthersClearNothing DEF Stuck, reading
<1>4. CASE UNCHANGED sdVars
  BY <1>4 DEF sdVars, flow, locals, controller, Stuck, reading
<1> QED
  BY <1>1, <1>2, <1>3, <1>4, SdInitNotReading, CommandNotReading DEF SdNext, Driver, Stuck

\* Once a read begins with an error interrupt pending, it stays pending for ever and
\* no read succeeds, whatever the card and however long the driver waits.
THEOREM LateErrorsStay == SdSpec => LateErrorIsFinal
<1>1. SdInit => Fresh  BY DEF SdInit, Fresh
<1>2. Fresh /\ [SdNext]_sdVars => Fresh'  BY FreshNext
<1>3. Fresh /\ phase = "dat" /\ reading /\ interrupt \cap Errors # {} => Stuck  BY DEF Fresh, Stuck
<1>4. Stuck /\ [SdNext]_sdVars => Stuck'  BY StuckNext
<1>5. Stuck => interrupt \cap Errors # {} /\ ret = 0  BY DEF Stuck
<1> QED  BY <1>1, <1>2, <1>3, <1>4, <1>5, PTL DEF SdSpec, LateErrorIsFinal

(***************************************************************************)
(* Where the driver is, and what it has settled                            *)
(***************************************************************************)

\* A command answered with SD_OK.
Answered == phase = "back" /\ sd_err = SD_OK

ReadCodes == {"READ_SINGLE", "READ_MULTI"}
ReadCommands == {"none", "SET_BLOCKCNT", "STOP_TRANS"} \cup ReadCodes
InitCommands ==
  {"GO_IDLE", "SEND_IF_COND", "SEND_OP_COND", "ALL_SEND_CID", "SEND_REL_ADDR",
   "CARD_SELECT", "SEND_SCR", "SET_BUS_WIDTH"}
ReadPhases == {"dat", "inhibit", "int", "back", "ready", "return", "done"}

\* The places in the driver: what a call sends, and where it waits for what.  An
\* APP_CMD goes out only within sd_init, whose reads of the SCR wait nowhere else.
Where ==
  /\ \/ call = "sd_init" /\ at \in InitCommands /\ (app => at \in AppCommands)
     \/ reading /\ at \in ReadCommands /\ ~app /\ phase \in ReadPhases
  /\ app => phase \in {"inhibit", "int"}
  /\ reading /\ phase = "ready" => at \in ReadCodes
  /\ reading /\ at = "none" => phase \in {"dat", "return", "done"}
  /\ reading /\ phase = "dat" => at = "none"
  /\ call = "sd_init" /\ phase = "reset" => at = "GO_IDLE"
  /\ call = "sd_init" /\ phase = "scr" => at = "SEND_SCR"
  /\ call = "sd_init" /\ phase = "dat" => at = "CARD_SELECT"
  /\ call = "sd_init" /\ phase = "ready" => at = "SEND_SCR"
  /\ call = "sd_init" /\ phase = "clock" => at \in {"GO_IDLE", "SEND_REL_ADDR"}

LEMMA CallsApart == DOMAIN Reads = {"boot", "root", "disk"} /\ ~("sd_init" \in DOMAIN Reads)
<1>1. DOMAIN Reads = {"boot", "root", "disk"}  BY SdAssumption
<1>2. "sd_init" \notin {"boot", "root", "disk"}  OBVIOUS
<1> QED  BY <1>1, <1>2

LEMMA WhereInit == SdInit => Where
<1> SUFFICES ASSUME SdInit PROVE Where  OBVIOUS
<1>1. call = "sd_init" /\ at = "GO_IDLE" /\ app = FALSE /\ phase = "reset"  BY DEF SdInit
<1> QED  BY <1>1, CallsApart DEF Where, reading, InitCommands

LEMMA SendReadSends ==
  SendRead => \/ Several /\ Send("READ_MULTI")
              \/ ~Several /\ Send("READ_SINGLE")
BY DEF SendRead

LEMMA OnlyInitFatCalls == Driver /\ ~initFat => UNCHANGED call
BY DEF Driver, Reset, sd_clk, OcrAnswered, InitAnswered, Continue, ScrInhibited,
   StatusAgain, ScrReady, IntAgain, ReadScr, WidthSet, ReadInhibited, ReadAnswered, Block,
   Inhibited, CommandDone, Ended, Send, SendRead, Return, Wait, Go, Again, flow

LEMMA Apart ==
  /\ ~(call = "sd_init" /\ reading)
  /\ UNCHANGED call => (reading' <=> reading)
  /\ ~(call' = "sd_init" /\ reading')
BY CallsApart DEF reading

\* The ends of the driver's steps.
LEMMA InitSends ==
  ASSUME Where, call = "sd_init", NEW a \in InitCommands, Send(a)
  PROVE  Where'
BY Apart DEF Where, Send, Go, AppCommands, InitCommands

LEMMA ReadSends ==
  ASSUME Where, reading, NEW a \in ReadCommands \ {"none"}, Send(a)
  PROVE  Where'
BY Apart DEF Where, Send, Go, AppCommands, ReadCommands, ReadCodes, ReadPhases

LEMMA Returns ==
  ASSUME Where, NEW v, Return(v), ~app
  PROVE  Where'
BY Apart DEF Where, Return, ReadPhases

LEMMA GoesRound ==
  ASSUME Where, UNCHANGED <<call, at, app, phase>>
  PROVE  Where'
BY Apart DEF Where

\* From where to where a step that waits may go.
LEMMA Waits ==
  ASSUME Where, NEW p, NEW n, Wait(p, n), UNCHANGED app,
         app => p = "int",
         \/ p \in {"clock", "int"} /\ at \in {"GO_IDLE", "SEND_REL_ADDR"} /\ call = "sd_init"
         \/ p \in {"dat", "int"} /\ at = "CARD_SELECT" /\ call = "sd_init"
         \/ p \in {"ready", "scr", "int"} /\ at = "SEND_SCR" /\ call = "sd_init"
         \/ p = "ready" /\ at \in ReadCodes /\ reading
         \/ p = "int" /\ phase = "inhibit"
  PROVE  Where'
BY Apart DEF Where, Wait, Go, ReadPhases, ReadCodes

LEMMA WhereNext == Where /\ [SdNext]_sdVars => Where'
<1> SUFFICES ASSUME Where, [SdNext]_sdVars PROVE Where'  OBVIOUS
<1> DEFINE Round == UNCHANGED <<call, at, app, phase>>
<1>0. phase \notin {"inhibit", "int"} => \A v : Return(v) => Where'  BY Returns DEF Where
<1>a. Round => Where'  BY GoesRound
<1>b. Again => Round  BY DEF Again, Wait, Go
<1>c. Where => (call = "sd_init" <=> ~reading)  BY Apart DEF Where
<1>d. call = "sd_init" => \A a \in InitCommands : Send(a) => Where'  BY InitSends
<1>e. reading => \A a \in ReadCommands \ {"none"} : Send(a) => Where'  BY ReadSends
<1>f. phase \notin {"inhibit", "int"} => ~app  BY DEF Where
<1> HIDE DEF Round
<1>1. CASE Reset
  <2>1. call = "sd_init" /\ at = "GO_IDLE"  BY <1>1 DEF Reset, Where, ReadPhases
  <2> QED  BY <1>0, <1>1, <2>1, <1>f, Waits DEF Reset
<1>2. CASE sd_clk
  <2>1. call = "sd_init"  BY <1>2 DEF sd_clk, Where, ReadPhases
  <2> QED  BY <1>0, <1>a, <1>b, <1>2, <2>1, <1>d DEF sd_clk, InitCommands
<1>3. CASE OcrAnswered
  <2>1. call = "sd_init"  BY <1>3 DEF OcrAnswered, Where, ReadCommands, ReadCodes
  <2> QED  BY <1>0, <1>3, <2>1, <1>d DEF OcrAnswered, InitCommands
<1>4. CASE InitAnswered
  <2>1. CASE Return(sd_err)  BY <2>1, <1>0, <1>4 DEF InitAnswered
  <2>2. CASE Continue
    <3>1. call = "sd_init"  BY <1>4, <1>c DEF InitAnswered
    <3>2. ~app  BY <1>4, <1>f DEF InitAnswered
    <3> QED  BY <3>1, <3>2, <2>2, <1>d, Waits DEF Continue, InitCommands
  <2> QED  BY <1>4, <2>1, <2>2 DEF InitAnswered
<1>5. CASE ScrInhibited
  BY <1>0, <1>a, <1>b, <1>c, <1>d, <1>5 DEF ScrInhibited, StatusAgain, InitCommands
<1>6. CASE ScrReady
  <2>1. call = "sd_init" /\ at = "SEND_SCR"  BY <1>c, <1>6 DEF ScrReady, Where
  <2> QED  BY <1>0, <1>a, <1>b, <1>6, <2>1, <1>f, Waits DEF ScrReady, IntAgain
<1>7. CASE ReadScr
  <2>1. call = "sd_init"  BY <1>7 DEF ReadScr, Where, ReadPhases
  <2> QED  BY <1>0, <1>a, <1>d, <1>7, <2>1 DEF ReadScr, flow, Round, InitCommands
<1>8. CASE WidthSet  BY <1>0, <1>8 DEF WidthSet
<1>9. CASE ReadInhibited
  <2>1. {"SET_BLOCKCNT", "READ_MULTI", "READ_SINGLE"} \subseteq ReadCommands \ {"none"}
    BY DEF ReadCommands, ReadCodes
  <2> QED
    BY <1>0, <1>a, <1>b, <1>e, <1>9, <2>1, SendReadSends DEF ReadInhibited, StatusAgain
<1>10. CASE ReadAnswered
  <2>1. {"SET_BLOCKCNT", "READ_MULTI", "READ_SINGLE"} \subseteq ReadCommands \ {"none"}
    BY DEF ReadCommands, ReadCodes
  <2> QED
    BY <1>0, <1>a, <1>b, <1>e, <1>10, <2>1, SendReadSends, <1>f, Waits
    DEF ReadAnswered, ReadCodes, Where
<1>11. CASE Block
  <2>1. {"STOP_TRANS", "READ_MULTI", "READ_SINGLE"} \subseteq ReadCommands \ {"none"}
    BY DEF ReadCommands, ReadCodes
  <2>2. at \in ReadCodes  BY <1>11 DEF Block, Where
  <2> QED
    BY <1>0, <1>a, <1>b, <1>e, <1>11, <2>1, <2>2, SendReadSends, <1>f, Waits
    DEF Block, IntAgain
<1>12. CASE Inhibited
  <2>1. CASE StatusAgain({"CMD_INHIBIT"})  BY <1>a, <1>b, <2>1 DEF StatusAgain
  <2>2. CASE Ended(SD_TIMEOUT, {})
    BY <1>12, <2>2, Apart DEF Inhibited, Ended, Where, ReadPhases
  <2>3. CASE Wait("int", IntTries) /\ UNCHANGED app  BY <1>12, <2>3, Waits DEF Inhibited
  <2> QED  BY <1>12, <2>1, <2>2, <2>3 DEF Inhibited
<1>13. CASE CommandDone
  <2>1. CASE IntAgain("done")  BY <1>a, <1>b, <2>1 DEF IntAgain
  <2>2. CASE \E err, flags : Ended(err, flags)
    BY <1>13, <2>2, Apart DEF CommandDone, Ended, Where, ReadPhases
  <2> QED  BY <1>13, <2>1, <2>2 DEF CommandDone
<1>14. CASE initFat
  <2>1. UNCHANGED <<call, at, app>> /\ phase' = "done" /\ ~app => Where'
    BY Apart DEF Where, ReadPhases
  <2>2. ASSUME NEW x \in {"boot", "root", "disk"}, Read(x), ~app PROVE Where'
    <3>1. reading'  BY <2>2, CallsApart DEF Read, reading
    <3> QED  BY <2>2, <3>1, Apart DEF Read, Where, ReadPhases, ReadCommands
  <2>3. ~app  BY <1>14 DEF initFat, Where
  <2> QED  BY <1>14, <2>1, <2>2, <2>3 DEF initFat
<1>15. CASE CardAnswers \/ DataComes \/ UNCHANGED sdVars
  BY <1>a, <1>15 DEF CardAnswers, DataComes, sdVars, flow, Round
<1> QED
  BY <1>1, <1>2, <1>3, <1>4, <1>5, <1>6, <1>7, <1>8, <1>9, <1>10, <1>11, <1>12, <1>13,
     <1>14, <1>15
  DEF SdNext, Driver

\* The driver has its answer, and goes by it.
Settled == Answered \/ phase \in {"ready", "scr"} \/ (phase = "dat" /\ ~reading)

\* While sd_int waits, what is in flight is the command it waits for, and nothing is
\* any more once that is done; nor is there anything when the driver goes by its answer.
WireInv ==
  /\ Where /\ SdInv
  /\ phase = "int" =>
       /\ inflight # <<>> => inflight[1] = Command
       /\ "done" \in interrupt => inflight = <<>>
  /\ Settled => inflight = <<>>

\* A step after which nothing of the answer counts.
Unsettled == phase' # "int" /\ ~Settled'

LEMMA UnsettledKeeps == Where' /\ SdInv' /\ Unsettled => WireInv'
BY DEF WireInv, Unsettled

LEMMA SendUnsettled == \A a : Send(a) => Unsettled
BY DEF Send, Go, Unsettled, Settled, Answered

LEMMA ReturnUnsettled == \A v : Return(v) => Unsettled
BY DEF Return, Unsettled, Settled, Answered

\* A command that failed leaves no SD_OK behind.
LEMMA EndedUnsettled ==
  ASSUME NEW err \in {SD_TIMEOUT, SD_ERROR}, NEW flags, Ended(err, flags)
  PROVE  Unsettled
BY DEF Ended, Unsettled, Settled, Answered, SD_OK, SD_TIMEOUT, SD_ERROR

LEMMA SameWires ==
  ASSUME WireInv, Where', SdInv',
         UNCHANGED <<call, at, app, phase, tries, c, inflight, interrupt, sd_err, sd_scr, sd_rca>>
  PROVE  WireInv'
<1>1. Command' = Command  BY DEF Command, code, Argument, lba, num
<1>2. Settled' <=> Settled  BY DEF Settled, Answered, reading
<1> QED  BY <1>1, <1>2 DEF WireInv

\* A settled driver goes on where nothing is in flight.
LEMMA SettledKeeps ==
  ASSUME WireInv, Where', SdInv', Settled, phase' # "int", UNCHANGED inflight
  PROVE  WireInv'
BY DEF WireInv

LEMMA WireInit == SdInit => WireInv
<1> SUFFICES ASSUME SdInit PROVE WireInv  OBVIOUS
<1>1. phase = "reset" /\ inflight = <<>>  BY DEF SdInit
<1> QED  BY <1>1, WhereInit, SdInvInit DEF WireInv

LEMMA OneAnswered ==
  ASSUME SdInv, CardAnswers
  PROVE  inflight = <<inflight[1]>> /\ Head(inflight) = inflight[1] /\ inflight' = <<>>
<1> DEFINE k == inflight[1]
<1>1. inflight = <<k>>  BY DEF CardAnswers, SdInv
<1> HIDE DEF k
<1>2. inflight' = <<>> /\ Head(inflight) = k  BY <1>1 DEF CardAnswers
<1> QED  BY <1>1, <1>2 DEF k

LEMMA WireNext == WireInv /\ [SdNext]_sdVars => WireInv'
<1> SUFFICES ASSUME WireInv, [SdNext]_sdVars PROVE WireInv'  OBVIOUS
<1>0. Where' /\ SdInv'  BY WhereNext, SdInvNext DEF WireInv
<1> DEFINE Round == UNCHANGED <<call, at, app, phase, tries, c, inflight, interrupt,
                                sd_err, sd_scr, sd_rca>>
<1>a. Unsettled \/ Round => WireInv'  BY <1>0, UnsettledKeeps, SameWires
<1>b. Settled /\ phase' # "int" /\ UNCHANGED inflight => WireInv'  BY <1>0, SettledKeeps
<1>c. Again => Round  BY DEF Again, Wait, Go, locals, globals, controller
<1>d. \A a : Send(a) => WireInv'  BY <1>a, SendUnsettled
<1>e. \A v : Return(v) => WireInv'  BY <1>a, ReturnUnsettled
<1>f. SendRead => WireInv'  BY <1>a, SendUnsettled DEF SendRead
<1> HIDE DEF Round
<1> USE <1>a, <1>c, <1>d, <1>e, <1>f
<1>1. CASE Reset  BY <1>1 DEF Reset, Wait, Go, Unsettled, Settled, Answered
<1>2. CASE sd_clk  BY <1>2 DEF sd_clk
<1>3. CASE OcrAnswered  BY <1>3 DEF OcrAnswered
<1>4. CASE InitAnswered
  <2>1. CASE Return(sd_err)  BY <2>1
  <2>2. CASE sd_err = SD_OK /\ Continue
    <3>1. Settled /\ UNCHANGED inflight
      BY <1>4, <2>2 DEF InitAnswered, Settled, Answered, controller
    <3> QED  BY <2>2, <1>b, <3>1 DEF Continue, Wait, Go
  <2>3. CASE at = "ALL_SEND_CID" /\ Continue  BY <2>3 DEF Continue
  <2> QED  BY <1>4, <2>1, <2>2, <2>3 DEF InitAnswered
<1>5. CASE ScrInhibited  BY <1>5 DEF ScrInhibited, StatusAgain
<1>6. CASE ScrReady
  <2>1. Settled /\ UNCHANGED inflight
    BY <1>6 DEF ScrReady, Settled, IntAgain, Again, controller
  <2> QED  BY <1>6, <1>b, <2>1 DEF ScrReady, IntAgain, Wait, Go
<1>7. CASE ReadScr
  <2>1. Settled /\ UNCHANGED inflight  BY <1>7 DEF ReadScr, Settled
  <2> QED  BY <1>7, <1>b, <2>1 DEF ReadScr, flow
<1>8. CASE WidthSet  BY <1>8 DEF WidthSet
<1>9. CASE ReadInhibited  BY <1>9 DEF ReadInhibited, StatusAgain
<1>10. CASE ReadAnswered
  <2>1. sd_err = SD_OK => Settled /\ UNCHANGED inflight
    BY <1>10 DEF ReadAnswered, Settled, Answered, controller
  <2> QED  BY <1>10, <1>b, <2>1 DEF ReadAnswered, Wait, Go
<1>11. CASE Block
  <2>1. Settled /\ UNCHANGED inflight  BY <1>11 DEF Block, Settled
  <2> QED  BY <1>11, <1>b, <2>1 DEF Block, IntAgain, Wait, Go
<1>12. CASE Inhibited
  <2>1. CASE StatusAgain({"CMD_INHIBIT"})  BY <2>1 DEF StatusAgain
  <2>2. CASE Ended(SD_TIMEOUT, {})  BY <2>2, EndedUnsettled
  <2>3. CASE StatusGood({"CMD_INHIBIT"}) /\ Issue /\ Wait("int", IntTries) /\ UNCHANGED app
    <3>1. inflight = <<>>  BY <2>3 DEF StatusGood, Status
    <3>2. inflight' = <<Command>> /\ interrupt' = {}  BY <2>3, <3>1 DEF Issue
    <3>3. Command' = Command
      BY <1>12, <2>3 DEF Inhibited, Wait, Go, Command, code, Argument, lba, num
    <3>4. phase' = "int"  BY <2>3 DEF Wait, Go
    <3> QED  BY <1>0, <3>2, <3>3, <3>4 DEF WireInv, Settled, Answered
  <2> QED  BY <1>12, <2>1, <2>2, <2>3 DEF Inhibited
<1>13. CASE CommandDone
  <2>1. CASE IntAgain("done")  BY <1>13, <2>1 DEF IntAgain
  <2>2. CASE IntBad /\ Ended(IntResult, {})  BY <2>2, EndedUnsettled DEF IntResult
  <2>3. CASE IntGood("done") /\ phase' # "int" /\ UNCHANGED inflight
    <3>1. inflight = <<>>  BY <1>13, <2>3 DEF CommandDone, IntGood, WireInv
    <3> QED  BY <1>0, <2>3, <3>1 DEF WireInv
  <2>4. \A err, flags : Ended(err, flags) => phase' # "int"  BY DEF Ended
  <2> QED  BY <1>13, <2>1, <2>2, <2>3, <2>4 DEF CommandDone
<1>14. CASE initFat
  BY <1>14, SdAssumption DEF initFat, Read, Unsettled, Settled, Answered, reading
<1>15. CASE CardAnswers
  <2>1. inflight' = <<>>  BY <1>15, OneAnswered DEF WireInv
  <2> QED  BY <1>0, <2>1 DEF WireInv
<1>16. CASE DataComes
  <2>1. /\ UNCHANGED <<flow, locals, globals, inflight>>
        /\ "done" \in interrupt' => "done" \in interrupt
    BY <1>16 DEF DataComes, Errors
  <2>2. Command' = Command
    BY <2>1 DEF flow, locals, globals, Command, code, Argument, lba, num
  <2>3. (Settled' <=> Settled) /\ UNCHANGED phase
    BY <2>1 DEF Settled, Answered, reading, flow, globals
  <2> QED  BY <1>0, <2>1, <2>2, <2>3 DEF WireInv
<1>17. CASE UNCHANGED sdVars
  BY <1>17 DEF sdVars, flow, locals, globals, controller, Round
<1> QED
  BY <1>1, <1>2, <1>3, <1>4, <1>5, <1>6, <1>7, <1>8, <1>9, <1>10, <1>11, <1>12, <1>13,
     <1>14, <1>15, <1>16, <1>17
  DEF SdNext, Driver

(***************************************************************************)
(* What sd_init leaves                                                     *)
(***************************************************************************)

Addressed == {"CARD_SELECT", "SEND_SCR", "SET_BUS_WIDTH"}
Selected == card.state = "tran" /\ card.rca /\ sd_rca
CardScr == [ccs |-> kind.odd, wide |-> kind.wide, counts |-> kind.counts]

\* What an answer says of the card.
Told(k, flags) ==
  /\ k = "SEND_OP_COND" /\ "complete" \in flags => ("ccs" \in flags <=> kind.ccs)
  /\ k = "SEND_REL_ADDR" => "rca" \in flags
  /\ k = "CARD_SELECT" => card.state = "tran" /\ (card.rca <=> sd_rca)
  /\ k = "SET_BUS_WIDTH" => card.wide

\* What sd_init knows at each of its commands.  The card is selected, and the address
\* it gave is the driver's, once CARD_SELECT is answered, and no command still in
\* flight can unselect it; the bus is wide at neither end before SET_BUS_WIDTH; and
\* the flag for the card's unit is the one its OCR gave.
InitFacts ==
  /\ at \in {"ALL_SEND_CID", "SEND_REL_ADDR"} \cup Addressed => (ccs <=> kind.ccs)
  /\ at \in Addressed \/ (at = "SEND_REL_ADDR" /\ phase = "clock") => sd_rca
  /\ at \in {"SEND_SCR", "SET_BUS_WIDTH"} \/ (at = "CARD_SELECT" /\ (phase = "dat" \/ Answered)) =>
       /\ Selected
       /\ inflight # <<>> => inflight[1].code \in {"APP_CMD", "SEND_SCR", "SET_BUS_WIDTH"}
  /\ at # "SET_BUS_WIDTH" =>
       /\ ~card.wide /\ width = 1
       /\ inflight # <<>> => inflight[1].code # "SET_BUS_WIDTH"
  /\ at = "SET_BUS_WIDTH" /\ phase # "return" => sd_scr = CardScr
  /\ phase = "back" /\ (sd_err = SD_OK \/ at = "SEND_OP_COND") => Told(at, r)
  /\ phase = "int" /\ "done" \in interrupt => Told(code, resp.flags)
  /\ phase = "return" /\ ret = SD_OK => inflight = <<>>
  /\ InitLeavesCardReady

CardInv ==
  /\ WireInv
  /\ call = "sd_init" => InitFacts

LEMMA CardInit == SdInit => CardInv
<1> SUFFICES ASSUME SdInit PROVE CardInv  OBVIOUS
<1>1. at = "GO_IDLE" /\ phase = "reset" /\ inflight = <<>> /\ width = 1 /\ ~card.wide
  BY DEF SdInit, Idle
<1> QED  BY <1>1, WireInit DEF CardInv, InitFacts, Addressed, InitLeavesCardReady

LEMMA DriverFacts ==
  ASSUME CardInv, call = "sd_init", Driver, call' = "sd_init"
  PROVE  InitFacts'
<1> USE CallsApart
<1>0. ~reading  BY DEF reading
<1>u. kind' = kind /\ card' = card  BY DEF Driver
<1>w. InitFacts /\ WireInv  BY DEF CardInv
<1> DEFINE Round == UNCHANGED <<at, app, phase, sd_err, r, ccs, sd_rca, sd_scr, width,
                                inflight, interrupt, resp, ret>>
<1>a. Round => InitFacts'
  BY <1>u, <1>w
  DEF InitFacts, InitLeavesCardReady, Told, Selected, Answered, Addressed, CardScr, code
<1>c. Again => Round  BY DEF Again, Wait, Go, locals, globals, controller
\* A command after another.
<1>d. ASSUME NEW a, Send(a), UNCHANGED <<width, inflight, ret>>,
             a \in {"ALL_SEND_CID", "SEND_REL_ADDR"} \cup Addressed => (ccs' <=> kind.ccs),
             a \in Addressed => sd_rca,
             sd_rca' = sd_rca \/ a \notin Addressed ,
             a \in {"SEND_SCR", "SET_BUS_WIDTH"} => Selected /\ inflight = <<>>,
             a = "SET_BUS_WIDTH" => sd_scr' = CardScr,
             at # "SET_BUS_WIDTH"
      PROVE InitFacts'
  BY <1>u, <1>w, <1>d
  DEF Send, Go, InitFacts, InitLeavesCardReady, Selected, Answered, Addressed, CardScr
<1>f. phase \notin {"inhibit", "int"} => ~app  BY DEF CardInv, WireInv, Where
<1>e. ASSUME NEW v, Return(v), UNCHANGED <<width, inflight, ccs, sd_rca>>, v # SD_OK
      PROVE InitFacts'
  BY <1>u, <1>w, <1>e
  DEF Return, InitFacts, InitLeavesCardReady, Selected, Answered, Addressed, CardScr
<1> HIDE DEF Round
<1> USE <1>a, <1>c, <1>d, <1>e
<1>n. SD_ERROR # SD_OK /\ SD_TIMEOUT # SD_OK  BY DEF SD_ERROR, SD_TIMEOUT, SD_OK
<1>1. CASE Reset
  <2>1. CASE Return(SD_ERROR) /\ UNCHANGED controller
    BY <1>1, <2>1, <1>n DEF Reset, controller, globals
  <2>2. CASE inflight' = <<>> /\ width' = 1 /\ Wait("clock", StatusTries)
    <3>1. at = "GO_IDLE"  BY <1>1, <1>w DEF Reset, WireInv, Where
    <3>2. at' = "GO_IDLE" /\ phase' = "clock"  BY <2>2, <3>1 DEF Wait, Go
    <3>3. ~card'.wide  BY <1>u, <1>w, <3>1 DEF InitFacts
    <3> QED  BY <2>2, <3>2, <3>3 DEF InitFacts, Addressed, InitLeavesCardReady
  <2> QED  BY <1>1, <2>1, <2>2 DEF Reset
<1>2. CASE sd_clk
  <2>1. at \in {"GO_IDLE", "SEND_REL_ADDR"}  BY <1>2, <1>w DEF sd_clk, WireInv, Where
  <2>2. CASE at = "GO_IDLE" /\ Send("GO_IDLE") /\ UNCHANGED <<locals, controller>>
    BY <1>2, <2>2 DEF sd_clk, controller, locals, Addressed
  <2>3. CASE at = "SEND_REL_ADDR" /\ Send("CARD_SELECT") /\ UNCHANGED <<locals, controller, sd_rca>>
    <3>1. sd_rca /\ (ccs <=> kind.ccs)  BY <1>w, <1>2, <2>3 DEF InitFacts, sd_clk
    <3>2. UNCHANGED <<width, inflight, ret, ccs>>  BY <2>3 DEF controller, locals
    <3> QED  BY <2>3, <3>1, <3>2
  <2> QED  BY <1>2, <1>n, <2>1, <2>2, <2>3 DEF sd_clk, controller, locals, globals
<1>3. CASE OcrAnswered
  <2>1. UNCHANGED <<width, inflight, sd_rca>>  BY <1>3 DEF OcrAnswered, controller
  <2>2. CASE Return(sd_err) /\ OcrError /\ UNCHANGED ccs  BY <2>1, <2>2 DEF OcrError
  <2>3. CASE at = "SEND_OP_COND" /\ Send(at) /\ UNCHANGED <<ccs, ret>>
    BY <2>1, <2>3 DEF Addressed
  <2>4. CASE (Return(SD_TIMEOUT) \/ Return(SD_ERROR)) /\ UNCHANGED ccs  BY <2>1, <2>4, <1>n
  <2>5. CASE "complete" \in r /\ ccs' = ("ccs" \in r) /\ Send("ALL_SEND_CID") /\ UNCHANGED ret
    <3>1. at = "SEND_OP_COND"  BY <1>3 DEF OcrAnswered
    <3>2. "ccs" \in r <=> kind.ccs  BY <1>w, <1>3, <2>5 DEF InitFacts, Told, OcrAnswered
    <3>3. ccs' <=> kind.ccs  BY <2>5, <3>2
    <3> QED  BY <2>1, <2>5, <3>1, <3>3 DEF Addressed
  <2> QED  BY <1>3, <2>2, <2>3, <2>4, <2>5 DEF OcrAnswered
<1>4. CASE InitAnswered
  <2>1. UNCHANGED <<r, ccs, width, inflight, interrupt, resp, sd_scr>>
    BY <1>4 DEF InitAnswered, controller
  <2>2. phase = "back" /\ at \notin {"SEND_OP_COND", "SET_BUS_WIDTH"}
    BY <1>4 DEF InitAnswered
  <2>3. at # "SEND_REL_ADDR" => sd_rca' = sd_rca  BY <1>4 DEF InitAnswered
  <2>4. at = "SEND_REL_ADDR" /\ sd_err = SD_OK => sd_rca'
    BY <1>4, <2>2, <1>w DEF InitAnswered, InitFacts, Told
  <2>5. CASE sd_err # SD_OK /\ at # "ALL_SEND_CID" /\ Return(sd_err)
    <3>1. phase' = "return" /\ at' = at /\ ret' # SD_OK  BY <2>5 DEF Return
    <3>2. at # "SEND_REL_ADDR" => InitFacts'  BY <2>1, <2>3, <2>5, <1>e
    <3>3. at = "SEND_REL_ADDR" => InitFacts'
      BY <1>u, <1>w, <2>1, <2>2, <3>1 DEF InitFacts, InitLeavesCardReady, Addressed
    <3> QED  BY <3>2, <3>3
  <2>6. CASE Continue /\ UNCHANGED ret /\ (sd_err = SD_OK \/ at = "ALL_SEND_CID")
    <3>1. CASE at \in {"GO_IDLE", "SEND_IF_COND"}
      BY <2>1, <2>6, <3>1 DEF Continue, Addressed
    <3>2. CASE at = "ALL_SEND_CID"
      <4>1. ccs <=> kind.ccs  BY <1>w, <3>2 DEF InitFacts
      <4> QED  BY <2>1, <2>6, <3>2, <4>1 DEF Continue, Addressed
    <3>3. CASE at = "SEND_REL_ADDR"
      <4>1. phase' = "clock" /\ at' = at  BY <2>6, <3>3 DEF Continue, Wait, Go
      <4> QED
        BY <1>u, <1>w, <2>1, <2>4, <2>6, <3>3, <4>1
        DEF InitFacts, InitLeavesCardReady, Addressed
    <3>4. CASE at = "CARD_SELECT"
      <4>1. phase' = "dat" /\ at' = at  BY <2>6, <3>4 DEF Continue, Wait, Go
      <4>2. Selected /\ inflight = <<>>
        BY <1>w, <2>2, <2>6, <3>4 DEF InitFacts, WireInv, Settled, Answered
      <4>3. Selected'  BY <1>u, <2>3, <3>4, <4>2 DEF Selected
      <4> QED
        BY <1>u, <1>w, <2>1, <2>3, <3>4, <4>1, <4>2, <4>3
        DEF InitFacts, InitLeavesCardReady, Addressed
    <3>5. CASE at = "SEND_SCR"
      <4>1. phase' = "ready" /\ at' = at  BY <2>6, <3>5 DEF Continue, Wait, Go
      <4> QED
        BY <1>u, <1>w, <2>1, <2>3, <3>5, <4>1
        DEF InitFacts, InitLeavesCardReady, Addressed, Selected
    <3> QED  BY <2>6, <3>1, <3>2, <3>3, <3>4, <3>5 DEF Continue
  <2> QED  BY <1>4, <2>5, <2>6 DEF InitAnswered
<1>5. CASE ScrInhibited
  <2>1. UNCHANGED <<ccs, sd_rca, controller, sd_scr>>  BY <1>5 DEF ScrInhibited
  <2>2. at = "CARD_SELECT" /\ Selected /\ inflight = <<>> /\ (ccs <=> kind.ccs)
    BY <1>5, <1>w, <1>0 DEF ScrInhibited, WireInv, Where, InitFacts, Settled, Addressed
  <2>3. UNCHANGED <<width, inflight>>  BY <2>1 DEF controller
  <2>4. CASE Send("SEND_SCR") /\ UNCHANGED ret  BY <2>1, <2>2, <2>3, <2>4 DEF Selected
  <2> QED  BY <1>5, <2>1, <2>3, <2>4, <1>n DEF ScrInhibited, StatusAgain
<1>6. CASE ScrReady
  <2>1. at = "SEND_SCR"  BY <1>6, <1>w, <1>0 DEF ScrReady, WireInv, Where
  <2>2. UNCHANGED <<ccs, sd_rca, width, inflight, r, sd_scr, sd_err>>
    BY <1>6 DEF ScrReady, globals
  <2>3. CASE Return(SD_TIMEOUT)  BY <2>2, <2>3, <1>n
  <2>4. CASE Wait("scr", 0) /\ UNCHANGED ret
    <3>1. phase' = "scr" /\ at' = "SEND_SCR"  BY <2>1, <2>4 DEF Wait, Go
    <3> QED
      BY <1>u, <1>w, <2>1, <2>2, <3>1 DEF InitFacts, InitLeavesCardReady, Selected, Addressed
  <2> QED  BY <1>6, <2>3, <2>4 DEF ScrReady, IntAgain
<1>7. CASE ReadScr
  <2>1. /\ at = "SEND_SCR" /\ Selected /\ inflight = <<>>
        /\ ccs <=> kind.ccs
        /\ ~card.wide /\ width = 1
    BY <1>7, <1>w, <1>0 DEF ReadScr, WireInv, Where, InitFacts, Addressed, Settled
  <2>2. UNCHANGED <<ccs, sd_rca, width, inflight, r, interrupt, resp>>  BY <1>7 DEF ReadScr
  <2>3. CASE UNCHANGED <<flow, ret, sd_scr, sd_err>>  BY <2>2, <2>3 DEF flow, Round
  <2>4. CASE sd_scr' = CardScr /\ Send("SET_BUS_WIDTH") /\ UNCHANGED ret
    BY <2>1, <2>2, <2>4 DEF Selected
  <2>5. CASE ~kind.wide /\ sd_scr' = Flagged(CardScr) /\ Return(SD_OK)
    <3>1. sd_scr'.ccs = (kind.odd \/ ccs)  BY <2>5 DEF Flagged, CardScr
    <3>2. at' = "SEND_SCR" /\ phase' = "return"  BY <2>1, <2>5 DEF Return
    <3>3. ~kind'.odd => (sd_scr'.ccs <=> kind'.ccs)  BY <3>1, <1>u, <2>1
    <3>4. Selected'  BY <1>u, <2>1, <2>2 DEF Selected
    <3> QED
      BY <1>u, <2>1, <2>2, <3>2, <3>3, <3>4
      DEF InitFacts, InitLeavesCardReady, Selected, Addressed
  <2> QED  BY <1>7, <2>3, <2>4, <2>5 DEF ReadScr, CardScr
<1>8. CASE WidthSet
  <2>1. at = "SET_BUS_WIDTH" /\ phase = "back"  BY <1>8 DEF WidthSet
  <2>2. UNCHANGED <<ccs, sd_rca, inflight>>  BY <1>8 DEF WidthSet
  <2>3. CASE sd_err # SD_OK /\ Return(sd_err) /\ UNCHANGED width  BY <2>2, <2>3
  <2>4. CASE sd_err = SD_OK /\ width' = 4 /\ sd_scr' = Flagged(sd_scr) /\ Return(SD_OK)
    <3>1. Selected /\ (ccs <=> kind.ccs) /\ sd_scr = CardScr /\ card.wide /\ inflight = <<>>
      BY <1>w, <2>1, <2>4 DEF WireInv, InitFacts, Addressed, Settled, Answered, Told
    <3>2. sd_scr'.ccs = (kind.odd \/ ccs)  BY <2>4, <3>1 DEF Flagged, CardScr
    <3>3. at' = "SET_BUS_WIDTH" /\ phase' = "return"  BY <2>1, <2>4 DEF Return
    <3>4. ~kind'.odd => (sd_scr'.ccs <=> kind'.ccs)  BY <3>1, <3>2, <1>u
    <3>5. Selected'  BY <1>u, <2>2, <3>1 DEF Selected
    <3> QED
      BY <1>u, <2>4, <2>2, <3>1, <3>3, <3>4, <3>5
      DEF InitFacts, InitLeavesCardReady, Selected, Addressed
  <2> QED  BY <1>8, <2>3, <2>4 DEF WidthSet
<1>i. ASSUME NEW err \in {SD_TIMEOUT, SD_ERROR}, Ended(err, {}), phase \in {"inhibit", "int"},
             UNCHANGED <<ccs, sd_rca, sd_scr, width, inflight, ret>>
      PROVE InitFacts'
  <2>1. phase' \in {"inhibit", "back"} /\ at' = at  BY <1>i DEF Ended
  <2>2. phase' = "back" => sd_err' # SD_OK /\ r' = {}  BY <1>i, <1>n DEF Ended
  <2> QED
    BY <1>i, <1>u, <1>w, <2>1, <2>2
    DEF InitFacts, InitLeavesCardReady, Addressed, Selected, Answered, Told, CardScr
<1>9. CASE Inhibited
  <2>1. UNCHANGED <<ccs, sd_rca, sd_scr, ret>> /\ phase = "inhibit"  BY <1>9 DEF Inhibited
  <2>2. CASE Ended(SD_TIMEOUT, {}) /\ UNCHANGED controller
    BY <1>i, <2>1, <2>2 DEF controller
  <2>3. CASE /\ StatusGood({"CMD_INHIBIT"}) /\ Issue /\ Wait("int", IntTries)
             /\ UNCHANGED <<app, width>>
    <3>0. inflight = <<>>  BY <2>3 DEF StatusGood, Status
    <3>1. inflight' = <<Command>> /\ interrupt' = {}  BY <2>3, <3>0 DEF Issue
    <3>2. phase' = "int" /\ at' = at  BY <2>3 DEF Wait, Go
    <3>3. inflight'[1].code = code  BY <3>1 DEF Command
    <3>4. at \in {"SEND_SCR", "SET_BUS_WIDTH"} => code \in {"APP_CMD", "SEND_SCR", "SET_BUS_WIDTH"}
      BY DEF code
    <3>5. at # "SET_BUS_WIDTH" => code # "SET_BUS_WIDTH"  BY DEF code
    <3> QED
      BY <1>u, <1>w, <2>1, <2>3, <3>1, <3>2, <3>3, <3>4, <3>5
      DEF InitFacts, InitLeavesCardReady, Addressed, Selected, Answered, CardScr
  <2> QED  BY <1>9, <2>2, <2>3 DEF Inhibited, StatusAgain
<1>10. CASE CommandDone
  <2>1. UNCHANGED <<ccs, sd_rca, sd_scr, ret>> /\ phase = "int"  BY <1>10 DEF CommandDone
  <2>2. CASE IntBad /\ Ended(IntResult, {}) /\ UNCHANGED <<inflight, width>>
    BY <1>i, <2>1, <2>2 DEF IntResult
  <2>3. CASE /\ IntGood("done") /\ UNCHANGED <<inflight, width>>
             /\ Ended(IF at = "SEND_REL_ADDR" /\ "error" \in resp.flags THEN CardError ELSE SD_OK,
                      resp.flags)
    <3>1. Told(code, resp.flags)  BY <1>w, <2>1, <2>3 DEF InitFacts, IntGood
    <3>2. at' = at /\ phase' \in {"inhibit", "back"}  BY <2>3 DEF Ended
    <3>3. phase' = "back" /\ app => sd_err' # SD_OK /\ r' = {}  BY <2>3, <1>n DEF Ended
    <3>4. phase' = "back" /\ ~app => at' = code /\ r' = resp.flags  BY <2>3 DEF Ended, code
    <3>5. phase' = "back" /\ (sd_err' = SD_OK \/ at' = "SEND_OP_COND") => Told(at, r)'
      BY <1>u, <2>1, <3>1, <3>3, <3>4 DEF Told
    <3>6. inflight' = <<>>  BY <1>w, <2>1, <2>3 DEF IntGood, WireInv
    <3>7. at \in Addressed /\ phase' = "back" /\ sd_err' = SD_OK => Selected
      <4>1. at \in Addressed => sd_rca  BY <1>w DEF InitFacts
      <4>2. at = "CARD_SELECT" => ~app  BY <1>w DEF WireInv, Where, AppCommands
      <4>3. at = "CARD_SELECT" /\ phase' = "back" => Selected
        BY <3>1, <4>1, <4>2 DEF Told, code, Selected, Addressed
      <4> QED  BY <1>w, <4>3 DEF InitFacts, Addressed
    <3> QED
      BY <1>u, <1>w, <2>1, <2>3, <3>2, <3>5, <3>6, <3>7
      DEF InitFacts, InitLeavesCardReady, Addressed, Selected, Answered, CardScr
  <2> QED  BY <1>10, <2>2, <2>3 DEF CommandDone, IntAgain
<1> QED
  BY <1>0, <1>1, <1>2, <1>3, <1>4, <1>5, <1>6, <1>7, <1>8, <1>9, <1>10
  DEF Driver, ReadInhibited, ReadAnswered, Block, initFat, Read

\* What the flags of an answer say.
LEMMA FlagsSay ==
  ASSUME NEW k, NEW to, NEW f \in Flags(k, to)
  PROVE  /\ k.code = "SEND_OP_COND" /\ "complete" \in f => ("ccs" \in f <=> kind.ccs)
         /\ k.code = "SEND_REL_ADDR" => "rca" \in f
<1>1. CASE k.code = "SEND_OP_COND"
  <2>1. Flags(k, to) = IF to = "idle" THEN {{}}
                       ELSE {{"complete"} \cup (IF kind.ccs THEN {"ccs"} ELSE {}) \cup v :
                               v \in {{}, {"voltage"}}}
    BY <1>1 DEF Flags
  <2>2. to = "idle" => f = {}  BY <2>1
  <2>3. to # "idle" => \E v \in {{}, {"voltage"}} :
                          f = {"complete"} \cup (IF kind.ccs THEN {"ccs"} ELSE {}) \cup v
    BY <2>1
  <2>4. \A v \in {{}, {"voltage"}} : "ccs" \notin v  OBVIOUS
  <2>5. "ccs" \notin {"complete"}  OBVIOUS
  <2>6. to # "idle" => ("ccs" \in f <=> kind.ccs)  BY <2>3, <2>4, <2>5
  <2> QED  BY <1>1, <2>2, <2>6
<1>2. CASE k.code = "SEND_REL_ADDR"
  <2>1. Flags(k, to) = {{"rca"}, {"rca", "error"}}  BY <1>2 DEF Flags
  <2> QED  BY <1>2, <2>1
<1> QED  BY <1>1, <1>2

\* What becomes of a card that obeys.
LEMMA ObeyedIs ==
  ASSUME NEW k, NEW to, Obeys(k, to), card' = Obeyed(k, to)
  PROVE  /\ k.code = "APP_CMD" => card'.state = card.state
         /\ k.code \in {"CARD_SELECT", "SEND_SCR", "SET_BUS_WIDTH"} => card'.state = "tran"
         /\ k.code \notin {"GO_IDLE", "SEND_REL_ADDR"} => (card'.rca <=> card.rca)
         /\ k.code # "SET_BUS_WIDTH" => (card'.wide => card.wide)
         /\ k.code = "SET_BUS_WIDTH" => card'.wide
         /\ k.code = "CARD_SELECT" => k.rca = card.rca
<1>1. k.code # "READ_MULTI" => card'.state = to  BY DEF Obeyed
<1>2. k.code = "APP_CMD" => to = card.state  BY DEF Obeys, Moves
<1>3. k.code \in {"CARD_SELECT", "SEND_SCR", "SET_BUS_WIDTH"} => to = "tran"
  BY DEF Obeys, Moves
<1>4. card'.rca = ((card.rca /\ k.code # "GO_IDLE") \/ k.code = "SEND_REL_ADDR")
  BY DEF Obeyed
<1>5. card'.wide = ((card.wide /\ k.code # "GO_IDLE") \/ k.code = "SET_BUS_WIDTH")
  BY DEF Obeyed
<1> QED  BY <1>1, <1>2, <1>3, <1>4, <1>5 DEF Obeys

LEMMA CardFacts ==
  ASSUME CardInv, call = "sd_init", CardAnswers
  PROVE  InitFacts'
<1> DEFINE k == inflight[1]
<1>1. inflight' = <<>> /\ Head(inflight) = k /\ inflight # <<>>
  BY OneAnswered DEF CardInv, WireInv, CardAnswers
<1>2. InitFacts /\ WireInv  BY DEF CardInv
<1> HIDE DEF k
<1>3. UNCHANGED <<at, app, phase, sd_err, ccs, r, ret, sd_scr, sd_rca, width, kind>>
  BY DEF CardAnswers, flow, locals, globals
<1>4. ~Settled  BY <1>1, <1>2 DEF WireInv
<1>5. CASE UNCHANGED <<card, resp>> /\ interrupt' = interrupt \cup {"timeout"}
  <2>1. "done" \notin interrupt \/ phase # "int"  BY <1>1, <1>2 DEF WireInv
  <2> QED
    BY <1>1, <1>2, <1>3, <1>5, <2>1
    DEF InitFacts, InitLeavesCardReady, Addressed, Selected, Answered, CardScr, Told, code
<1>6. ASSUME NEW to \in States, Obeys(k, to), card' = Obeyed(k, to), Replied(k, to) PROVE InitFacts'
  <2>1. phase = "int" => k = Command  BY <1>1, <1>2 DEF WireInv, k
  <2>2. \/ /\ "done" \in interrupt'
           /\ \E f \in Flags(k, to) : resp' = [from |-> k.from, code |-> k.code, flags |-> f]
        \/ interrupt' = interrupt \cup {"error"} /\ UNCHANGED resp
    BY <1>6 DEF Replied
  <2>3. phase = "int" /\ "done" \in interrupt' => Told(code, resp.flags)'
    <3> SUFFICES ASSUME phase = "int", "done" \in interrupt' PROVE Told(code, resp.flags)'  OBVIOUS
    <3>1. k = Command /\ "done" \notin interrupt  BY <1>1, <1>2, <2>1 DEF WireInv
    <3>2. \E f \in Flags(k, to) : resp'.flags = f  BY <2>2, <3>1
    <3>3. k.code = code /\ k.rca = sd_rca /\ code' = code  BY <1>3, <3>1 DEF Command, code
    <3> QED  BY <1>3, <1>6, <3>2, <3>3, FlagsSay, ObeyedIs DEF Told
  <2>4. at \in {"SEND_SCR", "SET_BUS_WIDTH"} => Selected'
    BY <1>1, <1>2, <1>3, <1>6, ObeyedIs DEF InitFacts, Selected, k
  <2>5. at # "SET_BUS_WIDTH" => ~card'.wide
    BY <1>1, <1>2, <1>3, <1>6, ObeyedIs DEF InitFacts, k
  <2>6. ~Answered /\ phase # "dat"  BY <1>4, CallsApart DEF Settled, reading
  <2>7. phase = "back" /\ (sd_err = SD_OK \/ at = "SEND_OP_COND") => Told(at, r)'
    BY <1>2, <1>3, <2>6 DEF InitFacts, Told, Answered
  <2>8. phase = "return" => ret # SD_OK  BY <1>1, <1>2 DEF InitFacts
  <2> QED
    BY <1>1, <1>2, <1>3, <2>3, <2>4, <2>5, <2>6, <2>7, <2>8
    DEF InitFacts, InitLeavesCardReady, Addressed, Answered, CardScr
<1> QED  BY <1>1, <1>5, <1>6 DEF CardAnswers

LEMMA CardNext == CardInv /\ [SdNext]_sdVars => CardInv'
<1> SUFFICES ASSUME CardInv, [SdNext]_sdVars, call' = "sd_init" PROVE InitFacts'
  BY WireNext DEF CardInv
<1> DEFINE Still == UNCHANGED <<call, at, app, phase, ccs, sd_rca, sd_scr, sd_err, r, ret,
                                resp, width, inflight, card, kind>>
<1>1. CASE Driver
  <2>1. call = "sd_init"
    <3>1. \A x \in {"boot", "root", "disk"} : x # "sd_init"  OBVIOUS
    <3>2. initFat => UNCHANGED call \/ call' \in {"boot", "root", "disk"}
      BY DEF initFat, Read
    <3>3. ~initFat => UNCHANGED call  BY <1>1, OnlyInitFatCalls
    <3> QED  BY <3>1, <3>2, <3>3
  <2> QED  BY <1>1, <2>1, DriverFacts
<1>2. CASE CardAnswers  BY <1>2, CardFacts DEF CardAnswers, flow
<1>3. CASE DataComes \/ UNCHANGED sdVars
  <2>1. Still /\ ("done" \in interrupt' => "done" \in interrupt)
    BY <1>3 DEF DataComes, Errors, sdVars, flow, locals, globals, controller
  <2> QED
    BY <2>1
    DEF CardInv, InitFacts, InitLeavesCardReady, Addressed, Answered, Selected, CardScr, Told,
       code
<1> QED  BY <1>1, <1>2, <1>3 DEF SdNext

\* When sd_init returns SD_OK the card is selected, both ends of the bus are of one
\* width, and the driver counts in the card's unit, for any card of the model, any
\* number of rounds and of ACMD41s, and whatever was late, garbled or lost.
THEOREM CardIsReady == SdSpec => []InitLeavesCardReady
<1>1. CardInv => InitLeavesCardReady  BY DEF CardInv, InitFacts, InitLeavesCardReady
<1> QED  BY <1>1, CardInit, CardNext, PTL DEF SdSpec

(***************************************************************************)
(* What the reads bring                                                    *)
(***************************************************************************)

\* Blocks b, b + 1 ... as they come, and how many a command has still to bring.
Blocks(b, k) == [n \in 1..k |-> b + n - 1]
Left == IF at = "READ_MULTI" THEN num - c ELSE 1

\* The driver counts in the card's unit.
SameUnit == sd_scr.ccs <=> kind.ccs

\* What sd_readblock has read so far, and what is still to come of its command: no
\* data is on its way when a read is sent, so whatever comes after is that read's.
BlockFacts ==
  /\ c \in 0..num
  /\ at = "READ_MULTI" => sd_scr.ccs
  /\ at = "READ_SINGLE" /\ sd_scr.ccs => num = 1
  /\ at \in ReadCodes /\ phase \in {"inhibit", "int", "back", "ready"} => c < num
  /\ phase \in {"dat", "inhibit", "int", "back", "ready"} => buf = Blocks(lba, c)
  /\ at \in {"none", "SET_BLOCKCNT"} => c = 0
  /\ sd_scr.ccs /\ at \in ReadCodes /\ phase \in {"inhibit", "int", "back"} => c = 0
  /\ at = "STOP_TRANS" => c = num
  /\ at = "SET_BLOCKCNT" /\ phase \in {"inhibit", "int", "back"} => ~Transfer
  /\ at \in ReadCodes /\ phase = "inhibit" => ~Transfer
  /\ at \in ReadCodes /\ (phase \in {"int", "ready"} \/ Answered) =>
       /\ inflight # <<>> => data = <<>>
       /\ data = <<>> \/ data = Blocks(lba + c, Left)
       /\ "ready" \in interrupt => fifo /\ data # <<>>
  /\ phase = "return" /\ ret # 0 => buf = Blocks(lba, num)

BlockInv ==
  /\ WireInv
  /\ reading /\ SameUnit => BlockFacts

LEMMA BlocksSeq ==
  ASSUME NEW b \in Nat, NEW k \in Nat
  PROVE  /\ Blocks(b, k) \in Seq(Nat) /\ Len(Blocks(b, k)) = k
         /\ Blocks(b, k) = <<>> <=> k = 0
<1>1. \A n \in 1..k : b + n - 1 \in Nat  OBVIOUS
<1>2. Blocks(b, k) \in [1..k -> Nat]  BY <1>1 DEF Blocks
<1>3. Blocks(b, k) \in Seq(Nat)  BY <1>2
<1>4. Len(Blocks(b, k)) = k  BY <1>2, <1>3
<1> QED  BY <1>3, <1>4

LEMMA BlocksAppend ==
  ASSUME NEW b \in Nat, NEW k \in Nat
  PROVE  Append(Blocks(b, k), b + k) = Blocks(b, k + 1)
<1> DEFINE t == Blocks(b, k) s == Append(t, b + k)
<1>1. t \in Seq(Nat) /\ Len(t) = k  BY BlocksSeq
<1>2. \A n \in 1..k : t[n] = b + n - 1  BY DEF Blocks
<1> HIDE DEF t
<1>3. s \in Seq(Nat) /\ Len(s) = k + 1 /\ s[k + 1] = b + k /\ \A n \in 1..k : s[n] = t[n]
  BY <1>1
<1>4. \A n \in 1..(k + 1) : n = k + 1 \/ n \in 1..k  OBVIOUS
<1> HIDE DEF s
<1>5. \A n \in 1..(k + 1) : s[n] = b + n - 1  BY <1>2, <1>3, <1>4
<1>6. s = [n \in 1..(k+1) |-> s[n]]  BY <1>3
<1>7. s = [n \in 1..(k+1) |-> b + n - 1]  BY <1>5, <1>6
<1> QED  BY <1>7 DEF Blocks, s, t

LEMMA BlocksHeadTail ==
  ASSUME NEW b \in Nat, NEW k \in Nat, k > 0
  PROVE  Head(Blocks(b, k)) = b /\ Tail(Blocks(b, k)) = Blocks(b + 1, k - 1)
<1>1. Blocks(b, k) \in Seq(Nat) /\ Len(Blocks(b, k)) = k  BY BlocksSeq
<1>2. \A n \in 1..k : Blocks(b, k)[n] = b + n - 1  BY DEF Blocks
<1>3. Head(Blocks(b, k)) = b  BY <1>1, <1>2
<1> DEFINE s == Blocks(b, k) t == Tail(s)
<1>4. t \in Seq(Nat) /\ Len(t) = k - 1 /\ \A n \in 1..(k-1) : t[n] = s[n+1]
  <2> HIDE DEF s
  <2> QED  BY <1>1, <1>2 DEF s
<1>5. \A n \in 1..(k-1) : t[n] = (b + 1) + n - 1
  <2> HIDE DEF t
  <2> QED  BY <1>2, <1>4
<1> HIDE DEF t
<1>6. t = [n \in 1..(k-1) |-> t[n]]  BY <1>4
<1>7. t = [n \in 1..(k-1) |-> (b + 1) + n - 1]  BY <1>5, <1>6
<1> QED  BY <1>3, <1>7 DEF t, Blocks

LEMMA BlockInit == SdInit => BlockInv
<1> SUFFICES ASSUME SdInit PROVE BlockInv  OBVIOUS
<1>1. call = "sd_init"  BY DEF SdInit
<1> QED  BY <1>1, WireInit, CallsApart DEF BlockInv, reading

LEMMA ReadTypes ==
  ASSUME reading PROVE lba \in Nat /\ num \in Nat \ {0}
BY SdAssumption DEF lba, num, reading

LEMMA ReadSteps ==
  ASSUME Where, reading, Driver
  PROVE  /\ ReadInhibited \/ ReadAnswered \/ Block \/ Inhibited \/ CommandDone \/ initFat
         /\ UNCHANGED <<sd_scr, kind>>
<1>1. ~Reset /\ ~sd_clk /\ ~InitAnswered /\ ~ScrInhibited /\ ~ScrReady /\ ~ReadScr
  BY Apart
  DEF Where, ReadPhases, Reset, sd_clk, InitAnswered, ScrInhibited, ScrReady, ReadScr
<1>2. ~OcrAnswered /\ ~WidthSet
  BY Apart DEF Where, ReadCommands, ReadCodes, OcrAnswered, WidthSet
<1> QED
  BY <1>1, <1>2
  DEF Driver, ReadInhibited, ReadAnswered, Block, Inhibited, CommandDone, initFat, globals

LEMMA DriverBlocks ==
  ASSUME BlockInv, reading, SameUnit, Driver, UNCHANGED call
  PROVE  BlockFacts'
<1>w. BlockFacts /\ WireInv /\ Where  BY DEF BlockInv, WireInv
<1>u. UNCHANGED <<sd_scr, kind, lba, num>>  BY <1>w, ReadSteps DEF lba, num
<1>t. lba \in Nat /\ num \in Nat \ {0} /\ c \in Nat  BY <1>w, ReadTypes DEF BlockFacts
<1>f. ~app  BY <1>w, Apart DEF Where
<1>g. Status \cap {"DAT_INHIBIT"} = {} => ~Transfer  BY DEF Status
<1> DEFINE Round == UNCHANGED <<at, app, phase, sd_err, c, buf, inflight, interrupt, data,
                                fifo, ret>>
<1>a. Round => BlockFacts'  BY <1>u, <1>w DEF BlockFacts, Transfer, Answered, Left
<1>c. Again => Round  BY DEF Again, Wait, Go, locals, globals, controller
<1>e. ASSUME NEW v, Return(v), v = 0, UNCHANGED c PROVE BlockFacts'
  BY <1>e, <1>u, <1>w, <1>t DEF Return, BlockFacts, Answered
<1>s. ASSUME SendRead, ~Transfer', c' < num, c' \in Nat, buf' = Blocks(lba, c'),
             sd_scr.ccs => c' = 0
      PROVE  BlockFacts'
  <2>1. phase' = "inhibit"  BY <1>s, SendReadSends DEF Send, Go
  <2>2. CASE at' = "READ_MULTI" /\ Several
     BY <1>s, <1>u, <1>t, <2>1, <2>2 DEF BlockFacts, Answered, Several, ReadCodes
  <2>3. CASE at' = "READ_SINGLE" /\ ~Several
     BY <1>s, <1>u, <1>t, <2>1, <2>3 DEF BlockFacts, Answered, Several, ReadCodes
  <2> QED  BY <1>s, <2>2, <2>3, SendReadSends DEF Send, Go
<1> HIDE DEF Round
<1>1. CASE ReadInhibited
  <2>1. at = "none" /\ phase = "dat" /\ UNCHANGED <<c, buf>>
    BY <1>1, <1>w DEF ReadInhibited, Where
  <2>2. c = 0 /\ buf = Blocks(lba, c)  BY <2>1, <1>w DEF BlockFacts
  <2>3. UNCHANGED controller => (Transfer' <=> Transfer)  BY DEF controller, Transfer
  <2>4. CASE Send("SET_BLOCKCNT") /\ ~Transfer'
    <3>1. at' = "SET_BLOCKCNT" /\ phase' = "inhibit"  BY <2>4 DEF Send, Go
    <3> QED  BY <2>1, <2>2, <2>4, <3>1, <1>u, <1>t DEF BlockFacts, ReadCodes, Answered
  <2>5. CASE SendRead /\ ~Transfer'  BY <2>1, <2>2, <2>5, <1>s, <1>t
  <2> QED
    BY <1>1, <1>a, <1>c, <1>e, <1>g, <2>1, <2>3, <2>4, <2>5
    DEF ReadInhibited, StatusAgain, StatusGood
<1>2. CASE ReadAnswered
  <2>1. phase = "back" /\ UNCHANGED <<c, buf, controller>>  BY <1>2 DEF ReadAnswered
  <2>2. buf = Blocks(lba, c)  BY <2>1, <1>w DEF BlockFacts
  <2>3. Transfer' <=> Transfer  BY <2>1 DEF controller, Transfer
  <2>4. CASE at = "SET_BLOCKCNT" /\ SendRead
    <3>1. c = 0 /\ ~Transfer  BY <1>w, <2>1, <2>4 DEF BlockFacts
    <3> QED  BY <1>s, <1>t, <2>1, <2>2, <2>3, <2>4, <3>1
  <2>5. CASE at \in ReadCodes /\ sd_err = SD_OK /\ Wait("ready", IntTries)
    <3>1. Answered /\ at' = at /\ phase' = "ready"  BY <2>1, <2>5 DEF Answered, Wait, Go
    <3>2. UNCHANGED <<inflight, data, interrupt, fifo, c, buf>>  BY <2>1 DEF controller
    <3> QED
      BY <1>u, <1>t, <1>w, <2>1, <2>5, <3>1, <3>2 DEF BlockFacts, Left, ReadCodes, Answered
  <2>6. CASE at = "STOP_TRANS" /\ Return(num)
    <3>1. c = num /\ at' = "STOP_TRANS" /\ phase' = "return"
      BY <1>w, <2>6 DEF BlockFacts, Return
    <3> QED  BY <1>u, <1>t, <2>1, <2>2, <3>1 DEF BlockFacts, ReadCodes, Answered
  <2> QED  BY <1>2, <1>e, <2>1, <2>4, <2>5, <2>6 DEF ReadAnswered, ReadCodes
<1>3. CASE Block
  <2>1. phase = "ready" /\ at \in ReadCodes /\ UNCHANGED inflight
    BY <1>3, <1>w DEF Block, Where
  <2>2. inflight = <<>>  BY <1>w, <2>1 DEF WireInv, Settled
  <2>3. CASE IntBad /\ Return(0) /\ UNCHANGED c  BY <2>3, <1>e
  <2>4. CASE /\ IntGood("ready")
        /\ interrupt' = interrupt \ {"ready"}
        /\ c' = c + 1 /\ buf' = Append(buf, IF fifo THEN Head(data) ELSE NoBlock)
        /\ data' = (IF fifo THEN Tail(data) ELSE data)
        /\ \/ /\ c' < num /\ sd_scr.ccs
              /\ Wait("ready", IntTries)
           \/ c' < num /\ ~sd_scr.ccs /\ SendRead
           \/ c' = num /\ Send("STOP_TRANS")
           \/ c' = num /\ Return(num)
    <3>1. fifo /\ data = Blocks(lba + c, Left) /\ c < num /\ buf = Blocks(lba, c)
      BY <1>w, <2>1, <2>4 DEF BlockFacts, IntGood
    <3>2. Left \in Nat /\ Left > 0  BY <1>t, <3>1 DEF Left
    <3>3. Head(data) = lba + c /\ data' = Blocks(lba + c + 1, Left - 1)
      BY <1>t, <2>4, <3>1, <3>2, BlocksHeadTail
    <3>4. buf' = Blocks(lba, c')  BY <1>t, <2>4, <3>1, <3>3, BlocksAppend
    <3>5. CASE c' < num /\ sd_scr.ccs /\ Wait("ready", IntTries)
      <4>1. at = "READ_MULTI"  BY <1>w, <1>t, <2>1, <2>4, <3>5 DEF BlockFacts, ReadCodes
      <4>2. at' = "READ_MULTI" /\ phase' = "ready"  BY <3>5, <4>1 DEF Wait, Go
      <4>3. lba' + c' = lba + c + 1 /\ Left' = Left - 1
        BY <1>t, <1>u, <2>4, <4>1, <4>2 DEF Left
      <4>4. data' = Blocks(lba + c, Left)'  BY <3>3, <4>3
      <4>5. c' \in 0..num' /\ c' < num'  BY <1>t, <1>u, <2>4, <3>5
      <4>6. inflight' = <<>> /\ "ready" \notin interrupt'  BY <2>1, <2>2, <2>4
      <4>7. buf' = Blocks(lba, c)'  BY <1>u, <3>4
      <4> QED  BY <1>u, <3>5, <4>2, <4>4, <4>5, <4>6, <4>7 DEF BlockFacts
    <3>6. CASE c' < num /\ ~sd_scr.ccs /\ SendRead
      <4>1. at = "READ_SINGLE"  BY <1>w, <2>1, <3>6 DEF BlockFacts, ReadCodes
      <4>2. data' = <<>>  BY <1>t, <3>3, <4>1, BlocksSeq DEF Left
      <4>3. ~Transfer'  BY <2>1, <2>2, <4>2 DEF Transfer
      <4> QED  BY <1>s, <1>t, <2>4, <3>4, <3>6, <4>3
    <3>7. CASE c' = num /\ Send("STOP_TRANS")
      <4>1. at' = "STOP_TRANS" /\ phase' = "inhibit"  BY <3>7 DEF Send, Go
      <4> QED  BY <1>t, <1>u, <3>4, <3>7, <4>1 DEF BlockFacts, ReadCodes, Answered
    <3>8. CASE c' = num /\ Return(num)
      <4>1. at' = at /\ phase' = "return"  BY <3>8 DEF Return
      <4> QED
        BY <1>t, <1>u, <1>w, <2>1, <3>4, <3>8, <4>1 DEF BlockFacts, ReadCodes, Answered
    <3> QED  BY <2>4, <3>5, <3>6, <3>7, <3>8
  <2> QED  BY <1>3, <1>a, <1>c, <2>3, <2>4 DEF Block, IntAgain
<1>4. CASE Inhibited
  <2>1. phase = "inhibit" /\ UNCHANGED <<c, buf>>  BY <1>4 DEF Inhibited
  <2>2. CASE Ended(SD_TIMEOUT, {}) /\ UNCHANGED controller
    <3>1. at' = at /\ phase' = "back" /\ sd_err' # SD_OK
      BY <2>2, <1>f DEF Ended, SD_TIMEOUT, SD_OK
    <3>2. Transfer' <=> Transfer  BY <2>2 DEF controller, Transfer
    <3> QED  BY <1>t, <1>u, <1>w, <2>1, <3>1, <3>2 DEF BlockFacts, Answered
  <2>3. CASE /\ StatusGood({"CMD_INHIBIT"}) /\ Issue /\ Wait("int", IntTries)
             /\ UNCHANGED <<data, fifo>>
    <3>0. inflight = <<>>  BY <2>3 DEF StatusGood, Status
    <3>1. inflight' = <<Command>> /\ interrupt' = {}  BY <2>3, <3>0 DEF Issue
    <3>2. phase' = "int" /\ at' = at  BY <2>3 DEF Wait, Go
    <3>3. at \in ReadCodes \cup {"SET_BLOCKCNT"} => data = <<>>
      BY <1>w, <2>1 DEF BlockFacts, Transfer
    <3>4. at = "SET_BLOCKCNT" => Command.code \notin DataCommands
      BY <1>f DEF Command, code, DataCommands
    <3>5. at = "SET_BLOCKCNT" => ~Transfer'  BY <2>3, <3>1, <3>3, <3>4 DEF Transfer
    <3> QED
      BY <1>t, <1>u, <1>w, <2>1, <2>3, <3>1, <3>2, <3>3, <3>5 DEF BlockFacts, Answered
  <2> QED  BY <1>4, <1>a, <1>c, <2>2, <2>3 DEF Inhibited, StatusAgain
<1>5. CASE CommandDone
  <2>1. phase = "int" /\ UNCHANGED <<c, buf>>  BY <1>5 DEF CommandDone
  <2>2. CASE IntBad /\ Ended(IntResult, {}) /\ UNCHANGED <<inflight, data>>
    <3>1. at' = at /\ phase' = "back" /\ sd_err' # SD_OK
      BY <2>2, <1>f DEF Ended, IntResult, SD_ERROR, SD_TIMEOUT, SD_OK
    <3>2. Transfer' <=> Transfer  BY <2>2 DEF Transfer
    <3> QED  BY <1>t, <1>u, <1>w, <2>1, <3>1, <3>2 DEF BlockFacts, Answered
  <2>3. CASE /\ interrupt' = interrupt \ {"done"} /\ \E err, flags : Ended(err, flags)
             /\ UNCHANGED <<inflight, data, fifo>>
    <3>1. at' = at /\ phase' = "back"  BY <2>3, <1>f DEF Ended
    <3>2. Transfer' <=> Transfer  BY <2>3 DEF Transfer
    <3> QED  BY <1>t, <1>u, <1>w, <2>1, <2>3, <3>1, <3>2 DEF BlockFacts, Answered, Left
  <2> QED  BY <1>5, <1>a, <1>c, <2>2, <2>3 DEF CommandDone, IntAgain
<1>6. CASE initFat /\ phase' = "done" /\ UNCHANGED <<at, c>>
  BY <1>6, <1>t, <1>u, <1>w DEF BlockFacts, Answered
<1>7. initFat => phase' = "done" /\ UNCHANGED <<at, c>>
  <2>1. "sd_init" # "boot" /\ "boot" # "root" /\ "root" # "disk"  OBVIOUS
  <2> QED  BY <2>1 DEF initFat, Read
<1> QED  BY <1>w, <1>1, <1>2, <1>3, <1>4, <1>5, <1>6, <1>7, ReadSteps

LEMMA ReadBegins ==
  ASSUME NEW x, Read(x), reading'
  PROVE  BlockFacts'
<1>1. num' \in Nat \ {0} /\ lba' \in Nat  BY ReadTypes, SdAssumption DEF lba, num, reading
<1>2. Blocks(lba', 0) = <<>>  BY <1>1, BlocksSeq
<1> QED  BY <1>1, <1>2 DEF Read, BlockFacts, ReadCodes, Answered

LEMMA CardBlocks ==
  ASSUME BlockInv, reading, SameUnit, CardAnswers
  PROVE  BlockFacts'
<1>w. BlockFacts /\ WireInv /\ Where  BY DEF BlockInv, WireInv
<1>u. UNCHANGED <<at, app, phase, sd_err, c, buf, ret, sd_scr, kind, lba, num>>
  BY DEF CardAnswers, flow, locals, globals, lba, num
<1>t. lba \in Nat /\ num \in Nat \ {0} /\ c \in Nat  BY <1>w, ReadTypes DEF BlockFacts
<1> DEFINE k == inflight[1]
<1>1. inflight' = <<>> /\ Head(inflight) = k /\ inflight # <<>> /\ 1 \in DOMAIN inflight
  BY <1>w, OneAnswered DEF WireInv, CardAnswers
<1>2. ~Settled  BY <1>1, <1>w DEF WireInv
<1>3. Transfer' <=> data' # <<>>  BY <1>1 DEF Transfer
<1>4. ~Transfer => data = <<>> /\ k.code \notin DataCommands  BY <1>1 DEF Transfer
<1> HIDE DEF k
<1>5. \/ UNCHANGED data /\ UNCHANGED fifo /\ interrupt' = interrupt \cup {"timeout"}
      \/ \E to \in States : Obeys(k, to) /\ data' = Sent(k)
           /\ interrupt' \in {interrupt \cup {"done"}, interrupt \cup {"error"}}
  BY <1>1 DEF CardAnswers, Replied
<1>6. "ready" \in interrupt' => "ready" \in interrupt  BY <1>5
<1>7. ~Transfer => ~Transfer'
  <2>1. k.code \notin DataCommands => Sent(k) \in {<<>>, data}
    <3>1. CASE k.code \in {"STOP_TRANS", "GO_IDLE"}  BY <3>1 DEF Sent
    <3>2. CASE k.code \notin {"STOP_TRANS", "GO_IDLE"}  BY <3>2 DEF Sent, DataCommands
    <3> QED  BY <3>1, <3>2
  <2> QED  BY <1>3, <1>4, <1>5, <2>1
<1>8. ASSUME at \in ReadCodes, phase = "int" PROVE data' = <<>> \/ data' = Blocks(lba + c, Left)
  <2>1. k = Command /\ data = <<>>  BY <1>1, <1>8, <1>w DEF WireInv, BlockFacts, k
  <2>2. k.code = at  BY <1>8, <1>w, <2>1, Apart DEF Command, code, Where
  <2>3. k.blocks = Left  BY <1>8, <1>w, <1>t, <2>1 DEF Command, Left, BlockFacts
  <2>4. k.arg = IF sd_scr.ccs THEN lba ELSE (lba + c) * 512
    BY <1>8, <2>1 DEF Command, Argument, ReadCodes
  <2>5. sd_scr.ccs => c = 0  BY <1>8, <1>w DEF BlockFacts
  <2>6. Named(k.arg) \subseteq {lba + c}
    <3>1. CASE kind.ccs
      <4>1. Named(k.arg) = {k.arg}  BY <3>1 DEF Named
      <4>2. k.arg = lba + c  BY <1>t, <3>1, <2>4, <2>5 DEF SameUnit
      <4> QED  BY <4>1, <4>2
    <3>2. CASE ~kind.ccs
      <4>1. k.arg = (lba + c) * 512  BY <3>2, <2>4 DEF SameUnit
      <4>2. \A b \in 0..k.arg : b * 512 = k.arg => b = lba + c  BY <1>t, <4>1
      <4>3. Named(k.arg) = {b \in 0..k.arg : b * 512 = k.arg}  BY <3>2 DEF Named
      <4> QED  BY <4>2, <4>3
    <3> QED  BY <3>1, <3>2
  <2>7. Named(k.arg) # {} => (CHOOSE n \in Named(k.arg) : TRUE) = lba + c  BY <2>6
  <2>8. Sent(k) = LET b == CHOOSE n \in Named(k.arg) : TRUE IN [n \in 1..k.blocks |-> b + n - 1]
    BY <1>8, <2>2 DEF Sent, ReadCodes
  <2>9. Named(k.arg) # {} => Sent(k) = Blocks(lba + c, Left)  BY <2>3, <2>7, <2>8 DEF Blocks
  <2>10. \A to : Obeys(k, to) => Named(k.arg) # {}  BY <1>8, <2>2 DEF Obeys, ReadCodes
  <2> QED  BY <1>5, <2>1, <2>9, <2>10
<1>9. at \in ReadCodes /\ phase = "int" => "ready" \notin interrupt
  BY <1>1, <1>w DEF BlockFacts
<1>10. Left' = Left  BY <1>u DEF Left
<1> QED
  BY <1>u, <1>w, <1>1, <1>2, <1>6, <1>7, <1>8, <1>9, <1>10 DEF BlockFacts, Answered, Settled

LEMMA DataBlocks ==
  ASSUME BlockInv, reading, SameUnit, DataComes
  PROVE  BlockFacts'
<1>w. BlockFacts  BY DEF BlockInv
<1>u. UNCHANGED <<at, app, phase, sd_err, c, buf, ret, sd_scr, kind, lba, num, inflight>>
  BY DEF DataComes, flow, locals, globals, lba, num
<1>1. Transfer  BY DEF DataComes, Transfer
<1>3. \/ data' = data /\ fifo'
      \/ data' = <<>> /\ ("ready" \in interrupt' => "ready" \in interrupt)
  BY DEF DataComes, Errors
<1>4. ~fifo /\ data # <<>>  BY DEF DataComes
<1>5. Left' = Left  BY <1>u DEF Left
<1> QED  BY <1>u, <1>w, <1>1, <1>3, <1>4, <1>5 DEF BlockFacts, Answered

LEMMA BlockNext == BlockInv /\ [SdNext]_sdVars => BlockInv'
<1> SUFFICES ASSUME BlockInv, [SdNext]_sdVars, reading', SameUnit' PROVE BlockFacts'
  BY WireNext DEF BlockInv
<1>1. CASE \E x : Read(x)  BY <1>1, ReadBegins
<1>2. CASE Driver /\ ~ \E x : Read(x)
  <2>1. UNCHANGED call  BY <1>2, OnlyInitFatCalls DEF initFat
  <2>2. reading /\ Where  BY <2>1 DEF reading, BlockInv, WireInv
  <2>3. SameUnit  BY <1>2, <2>2, ReadSteps DEF SameUnit
  <2> QED  BY <1>2, <2>1, <2>2, <2>3, DriverBlocks
<1>3. CASE CardAnswers \/ DataComes
  <2>1. reading /\ SameUnit
    BY <1>3 DEF CardAnswers, DataComes, flow, globals, reading, SameUnit
  <2> QED  BY <1>3, <2>1, CardBlocks, DataBlocks
<1>4. CASE UNCHANGED sdVars
  BY <1>4
  DEF sdVars, flow, locals, globals, controller, BlockInv, BlockFacts, reading, SameUnit,
     Transfer, Left, Answered, lba, num
<1> QED  BY <1>1, <1>2, <1>3, <1>4 DEF SdNext

\* A read that does not return 0 has brought the blocks asked for, all of them and in
\* their order, wherever and however many they are, if the units agree.
THEOREM ReadsAreWhole == SdSpec => []ReadIsTheBlocks
<1>1. BlockInv => ReadIsTheBlocks
  BY DEF BlockInv, BlockFacts, ReadIsTheBlocks, Blocks, SameUnit
<1> QED  BY <1>1, BlockInit, BlockNext, PTL DEF SdSpec
=============================================================================
