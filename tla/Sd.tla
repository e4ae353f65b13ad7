--------------------------------- MODULE Sd ---------------------------------
(***************************************************************************)
(* The SD card driver (src/sd.c) and what initFat (src/fat.c) does with it,*)
(* beside an EMMC controller and a card that answer when they like, late,  *)
(* garbled or not at all.  The card is not under src/: it obeys a command  *)
(* in the states the SD protocol allows it in and no other.                *)
(***************************************************************************)
EXTENDS Integers, Sequences, FiniteSets

CONSTANTS
  Kinds,       \* cards that may be in the slot
  StatusTries, \* rounds of sd_status's loop and of sd_clk's (500000, 100000)
  IntTries,    \* rounds of sd_int's (1000000)
  OcrTries,    \* ACMD41s that sd_init sends (6)
  Reads,       \* where initFat reads from, and how many blocks
  WholeScr     \* both words of the SCR are there when READ_RDY is raised

ASSUME SdAssumption ==
  /\ StatusTries \in Nat \ {0} /\ IntTries \in Nat \ {0} /\ OcrTries \in Nat \ {0}
  /\ Kinds \subseteq [ccs: BOOLEAN, wide: BOOLEAN, counts: BOOLEAN, odd: BOOLEAN]
  /\ Reads \in [{"boot", "root", "disk"} -> [lba: Nat, num: Nat]]
  /\ WholeScr \in BOOLEAN

SD_OK == 0
SD_TIMEOUT == -1
SD_ERROR == -2
CardError == 4            \* error bits of an R6 answer

Idle == [state |-> "idle", app |-> FALSE, rca |-> FALSE, wide |-> FALSE, count |-> 0]

VARIABLES
  call,       \* what initFat has called: sd_init, a read, or nothing any more
  at, app,    \* the command sd_init or sd_readblock sends; its APP_CMD comes first
  phase,      \* what it does: send, wait, look at the result
  cnt,        \* of the wait
  r,          \* what the last sd_cmd returned, bit by bit
  tries, ccs, \* of sd_init
  c, buf,     \* of sd_readblock: blocks read, and what they were
  sd_scr, sd_rca, sd_err,
  ret,        \* what the last call of sd_init or sd_readblock returned
  interrupt, inflight, resp, data, fifo, width,  \* the controller
  kind, card  \* the card, and how far it is

flow == <<call, at, app, phase, cnt>>
locals == <<r, tries, ccs, c, buf, ret>>
globals == <<sd_scr, sd_rca, sd_err>>
controller == <<interrupt, inflight, resp, data, fifo, width>>
sdVars == <<flow, locals, globals, controller, kind, card>>

AppCommands == {"SEND_OP_COND", "SEND_SCR", "SET_BUS_WIDTH"}
code == IF app THEN "APP_CMD" ELSE at
Errors == {"timeout", "error"}

reading == call \in DOMAIN Reads
lba == Reads[call].lba
num == IF Reads[call].num < 1 THEN 1 ELSE Reads[call].num

\* The argument of a command that reads is a block or, for the cards that count
\* so, a byte.
ArgumentMutant ==
  CASE at = "SET_BLOCKCNT" -> num
    [] at \in {"READ_SINGLE", "READ_MULTI"} -> IF sd_scr.ccs THEN lba ELSE lba * 512
    [] OTHER -> 0
Argument ==
  CASE at = "SET_BLOCKCNT" -> num
    [] at \in {"READ_SINGLE", "READ_MULTI"} -> IF sd_scr.ccs THEN lba ELSE (lba + c) * 512
    [] OTHER -> 0

\* A command as it goes out, told from every other by where it comes from.
Command ==
  [code |-> code, from |-> <<call, at, tries, c>>, rca |-> sd_rca, arg |-> Argument,
   blocks |-> IF at = "READ_MULTI" THEN num ELSE 1]

(***************************************************************************)
(* sd_status, sd_int and sd_cmd                                            *)
(***************************************************************************)

\* A command that brings data takes the data lines as it goes out.
DataCommands == {"SEND_SCR", "READ_SINGLE", "READ_MULTI"}
Transfer == data # <<>> \/ \E n \in DOMAIN inflight : inflight[n].code \in DataCommands
Status == (IF inflight # <<>> THEN {"CMD_INHIBIT"} ELSE {})
          \cup (IF Transfer THEN {"DAT_INHIBIT"} ELSE {})

Go(a, p, n) == at' = a /\ phase' = p /\ cnt' = n /\ UNCHANGED call
Wait(p, n) == Go(at, p, n)
AgainMutant == cnt > 0 /\ Wait(phase, cnt) /\ UNCHANGED <<app, locals, globals, controller>>
Again == cnt > 0 /\ Wait(phase, cnt - 1) /\ UNCHANGED <<app, locals, globals, controller>>

\* The loops of sd_status and sd_int test the counter after it has run down: what
\* comes on the last round is late.
StatusGoodMutant(mask) == Status \cap mask = {} /\ cnt > 0
StatusGood(mask) == Status \cap mask = {} /\ interrupt \cap Errors = {} /\ cnt > 0
StatusBad(mask) == interrupt \cap Errors # {} \/ cnt = 0
StatusAgain(mask) == Status \cap mask # {} /\ interrupt \cap Errors = {} /\ Again

IntGood(mask) == mask \in interrupt /\ interrupt \cap Errors = {} /\ cnt > 0
IntBad == interrupt \cap Errors # {} \/ cnt = 0
IntAgain(mask) == interrupt \cap ({mask} \cup Errors) = {} /\ Again
IntResult == IF cnt = 0 \/ "timeout" \in interrupt THEN SD_TIMEOUT ELSE SD_ERROR

\* sd_cmd: its errors are reset, and what needs an APP_CMD first calls sd_cmd for it.
Send(a) ==
  /\ Go(a, "inhibit", StatusTries)
  /\ app' = (a \in AppCommands) /\ sd_err' = SD_OK

\* The end of sd_cmd, or of the sd_cmd within it: once there is an address, an
\* APP_CMD that failed ends both; without one the outer goes on with the inner's error.
Ended(err, flags) ==
  IF app
  THEN /\ app' = FALSE /\ UNCHANGED <<call, at>>
       /\ \/ /\ sd_rca /\ "app" \notin flags
             /\ sd_err' = SD_ERROR /\ r' = {} /\ phase' = "back" /\ UNCHANGED cnt
          \/ /\ ~sd_rca \/ "app" \in flags
             /\ sd_err' = err /\ phase' = "inhibit" /\ cnt' = StatusTries /\ UNCHANGED r
  ELSE /\ r' = flags /\ phase' = "back"
       /\ sd_err' = IF err = SD_OK THEN sd_err ELSE err
       /\ UNCHANGED <<call, at, app, cnt>>

\* What is pending is cleared before the command goes out.
IssueMutant ==
  /\ UNCHANGED interrupt
  /\ inflight' = Append(inflight, Command)
Issue ==
  /\ interrupt' = {}
  /\ inflight' = Append(inflight, Command)

Inhibited ==
  /\ phase = "inhibit"
  /\ \/ StatusAgain({"CMD_INHIBIT"})
     \/ /\ StatusBad({"CMD_INHIBIT"})
        /\ Ended(SD_TIMEOUT, {}) /\ UNCHANGED controller
     \/ /\ StatusGood({"CMD_INHIBIT"})
        /\ Issue /\ Wait("int", IntTries)
        /\ UNCHANGED <<app, r, sd_err, resp, data, fifo, width>>
  /\ UNCHANGED <<tries, ccs, c, buf, ret, sd_scr, sd_rca>>

\* Of the bits of an R1 answer only those of APP_CMD are looked at.
CommandDone ==
  /\ phase = "int"
  /\ \/ IntAgain("done")
     \/ /\ IntBad
        /\ interrupt' = {} /\ Ended(IntResult, {})
        /\ UNCHANGED <<inflight, resp, data, fifo, width>>
     \/ /\ IntGood("done")
        /\ interrupt' = interrupt \ {"done"}
        /\ Ended(IF at = "SEND_REL_ADDR" /\ "error" \in resp.flags THEN CardError ELSE SD_OK,
                 resp.flags)
        /\ UNCHANGED <<inflight, resp, data, fifo, width>>
  /\ UNCHANGED <<tries, ccs, c, buf, ret, sd_scr, sd_rca>>

(***************************************************************************)
(* sd_init                                                                 *)
(***************************************************************************)

Return(v) == ret' = v /\ phase' = "return" /\ UNCHANGED <<call, at, app, cnt>>

\* C1_SRST_HC; the controller may not come out of it in time.
Reset ==
  /\ phase = "reset"
  /\ \/ Return(SD_ERROR) /\ UNCHANGED controller
     \/ /\ interrupt' = {} /\ inflight' = <<>> /\ data' = <<>> /\ fifo' = FALSE
        /\ width' = 1 /\ UNCHANGED resp
        /\ Wait("clock", StatusTries) /\ UNCHANGED <<app, ret>>
  /\ UNCHANGED <<r, tries, ccs, c, buf, globals>>

\* sd_clk, called for 400 kHz and for 25 MHz; the new clock may not become stable.
sd_clk ==
  /\ phase = "clock"
  /\ \/ Status # {} /\ Again
     \/ /\ Status = {} \/ cnt = 0
        /\ Return(SD_ERROR) /\ UNCHANGED <<r, tries, ccs, c, buf, globals, controller>>
     \/ /\ Status = {} /\ cnt > 0
        /\ \/ /\ at = "GO_IDLE"
              /\ sd_scr' = [ccs |-> FALSE, wide |-> FALSE, counts |-> FALSE]
              /\ sd_rca' = FALSE /\ Send("GO_IDLE")
           \/ /\ at = "SEND_REL_ADDR"
              /\ Send("CARD_SELECT") /\ UNCHANGED <<sd_scr, sd_rca>>
        /\ UNCHANGED <<locals, controller>>

\* With the lines that print commented out, an error of ACMD41 is looked at only
\* if all three bits of its answer are set.
OcrError == {"complete", "voltage", "ccs"} \subseteq r /\ sd_err \notin {SD_OK, SD_TIMEOUT}
OcrAnswered ==
  /\ phase = "back" /\ at = "SEND_OP_COND"
  /\ \/ OcrError /\ Return(sd_err) /\ UNCHANGED <<tries, ccs, sd_err>>
     \/ /\ ~OcrError /\ "complete" \notin r /\ tries > 0
        /\ tries' = tries - 1 /\ Send(at) /\ UNCHANGED <<ccs, ret>>
     \/ ~OcrError /\ tries = 0 /\ Return(SD_TIMEOUT) /\ UNCHANGED <<tries, ccs, sd_err>>
     \/ /\ ~OcrError /\ "complete" \in r /\ tries > 0
        /\ \/ "voltage" \notin r /\ Return(SD_ERROR) /\ UNCHANGED <<ccs, sd_err>>
           \/ "voltage" \in r /\ ccs' = ("ccs" \in r) /\ Send("ALL_SEND_CID") /\ UNCHANGED ret
        /\ UNCHANGED tries
  /\ UNCHANGED <<r, c, buf, sd_scr, sd_rca, controller>>

\* CMD_ALL_SEND_CID is followed by the next command whatever came of it.
Continue ==
  \/ at = "GO_IDLE" /\ Send("SEND_IF_COND") /\ UNCHANGED tries
  \/ at = "SEND_IF_COND" /\ Send("SEND_OP_COND") /\ tries' = OcrTries - 1
  \/ at = "ALL_SEND_CID" /\ Send("SEND_REL_ADDR") /\ UNCHANGED tries
  \/ /\ \/ at = "SEND_REL_ADDR" /\ Wait("clock", StatusTries)
        \/ at = "CARD_SELECT" /\ Wait("dat", StatusTries)
        \/ at = "SEND_SCR" /\ Wait("ready", IntTries)
     /\ UNCHANGED <<app, sd_err, tries>>
InitAnswered ==
  /\ phase = "back" /\ ~reading /\ at \notin {"SEND_OP_COND", "SET_BUS_WIDTH"}
  /\ sd_rca' = IF at = "SEND_REL_ADDR" THEN "rca" \in r ELSE sd_rca
  /\ \/ sd_err # SD_OK /\ at # "ALL_SEND_CID" /\ Return(sd_err) /\ UNCHANGED <<sd_err, tries>>
     \/ /\ sd_err = SD_OK \/ at = "ALL_SEND_CID"
        /\ Continue /\ UNCHANGED ret
  /\ UNCHANGED <<r, ccs, c, buf, sd_scr, controller>>

ScrInhibited ==
  /\ phase = "dat" /\ ~reading
  /\ \/ StatusAgain({"DAT_INHIBIT"}) /\ UNCHANGED <<sd_err, ret>>
     \/ StatusBad({"DAT_INHIBIT"}) /\ Return(SD_TIMEOUT) /\ UNCHANGED <<sd_err>>
     \/ StatusGood({"DAT_INHIBIT"}) /\ Send("SEND_SCR") /\ UNCHANGED ret
  /\ UNCHANGED <<r, tries, ccs, c, buf, sd_scr, sd_rca, controller>>

ScrReady ==
  /\ phase = "ready" /\ ~reading
  /\ \/ IntAgain("ready")
     \/ /\ IntBad
        /\ interrupt' = {} /\ Return(SD_TIMEOUT)
     \/ /\ IntGood("ready")
        /\ interrupt' = interrupt \ {"ready"} /\ Wait("scr", 0) /\ UNCHANGED <<app, ret>>
  /\ UNCHANGED <<r, tries, ccs, c, buf, globals, inflight, resp, data, fifo, width>>

\* The flag of the driver's own is set, and cleared before only if it is set again.
FlaggedMutant(scr) == scr
Flagged(scr) == [scr EXCEPT !.ccs = @ \/ ccs]

\* Without a word to read the loop goes round for ever: its counter stands still.
ReadScr ==
  /\ phase = "scr" /\ fifo
  /\ data' = Tail(data) /\ fifo' = (WholeScr /\ Len(data) > 1)
  /\ \/ Len(data) > 1 /\ UNCHANGED <<flow, ret, sd_scr, sd_err>>
     \/ /\ Len(data) = 1
        /\ LET scr == [ccs |-> kind.odd, wide |-> kind.wide, counts |-> kind.counts]
           IN \/ kind.wide /\ sd_scr' = scr /\ Send("SET_BUS_WIDTH") /\ UNCHANGED ret
              \/ ~kind.wide /\ sd_scr' = Flagged(scr) /\ Return(SD_OK) /\ UNCHANGED sd_err
  /\ UNCHANGED <<r, tries, ccs, c, buf, sd_rca, interrupt, inflight, resp, width>>

WidthSet ==
  /\ phase = "back" /\ at = "SET_BUS_WIDTH"
  /\ \/ sd_err # SD_OK /\ Return(sd_err) /\ UNCHANGED <<width, sd_scr>>
     \/ sd_err = SD_OK /\ width' = 4 /\ sd_scr' = Flagged(sd_scr) /\ Return(SD_OK)
  /\ UNCHANGED <<r, tries, ccs, c, buf, sd_rca, sd_err, interrupt, inflight, resp, data, fifo>>

(***************************************************************************)
(* sd_readblock                                                            *)
(***************************************************************************)

Several == num > 1 /\ sd_scr.ccs
SendRead == Send(IF Several THEN "READ_MULTI" ELSE "READ_SINGLE")

ReadInhibited ==
  /\ phase = "dat" /\ reading
  /\ \/ StatusAgain({"DAT_INHIBIT"})
     \/ StatusBad({"DAT_INHIBIT"}) /\ sd_err' = SD_TIMEOUT /\ Return(0) /\ UNCHANGED controller
     \/ /\ StatusGood({"DAT_INHIBIT"})
        /\ \/ Several /\ sd_scr.counts /\ Send("SET_BLOCKCNT")
           \/ ~(Several /\ sd_scr.counts) /\ SendRead
        /\ UNCHANGED <<ret, controller>>
  /\ UNCHANGED <<r, tries, ccs, c, buf, sd_scr, sd_rca>>

ReadAnswered ==
  /\ phase = "back" /\ reading
  /\ \/ sd_err # SD_OK /\ Return(0) /\ UNCHANGED sd_err
     \/ /\ sd_err = SD_OK
        /\ \/ at = "SET_BLOCKCNT" /\ SendRead /\ UNCHANGED ret
           \/ /\ at \in {"READ_SINGLE", "READ_MULTI"}
              /\ Wait("ready", IntTries) /\ UNCHANGED <<app, ret, sd_err>>
           \/ at = "STOP_TRANS" /\ Return(num) /\ UNCHANGED sd_err
  /\ UNCHANGED <<r, tries, ccs, c, buf, sd_scr, sd_rca, controller>>

\* What the FIFO gives when it is empty is no block.
NoBlock == -1
Block ==
  /\ phase = "ready" /\ reading
  /\ \/ IntAgain("ready")
     \/ /\ IntBad
        /\ interrupt' = {} /\ sd_err' = IntResult /\ Return(0)
        /\ UNCHANGED <<c, buf, data, fifo>>
     \/ /\ IntGood("ready")
        /\ interrupt' = interrupt \ {"ready"}
        /\ c' = c + 1 /\ buf' = Append(buf, IF fifo THEN Head(data) ELSE NoBlock)
        /\ data' = (IF fifo THEN Tail(data) ELSE data) /\ fifo' = FALSE
        /\ \/ /\ c' < num /\ sd_scr.ccs
              /\ Wait("ready", IntTries) /\ UNCHANGED <<app, ret, sd_err>>
           \/ c' < num /\ ~sd_scr.ccs /\ SendRead /\ UNCHANGED ret
           \/ c' = num /\ Several /\ ~sd_scr.counts /\ Send("STOP_TRANS") /\ UNCHANGED ret
           \/ c' = num /\ ~(Several /\ ~sd_scr.counts) /\ Return(num) /\ UNCHANGED sd_err
  /\ UNCHANGED <<r, tries, ccs, sd_scr, sd_rca, inflight, resp, width>>

(***************************************************************************)
(* initFat                                                                 *)
(***************************************************************************)

Read(x) ==
  /\ call' = x /\ at' = "none" /\ phase' = "dat" /\ cnt' = StatusTries
  /\ c' = 0 /\ buf' = <<>> /\ ret' = 0
  /\ UNCHANGED app

\* Only the read of the boot sector is looked at; a boot sector that will not do
\* ends initFat as well.
initFat ==
  /\ phase = "return"
  /\ \/ call = "sd_init" /\ Read("boot")
     \/ call = "boot" /\ ret # 0 /\ Read("root")
     \/ call = "root" /\ Read("disk")
     \/ /\ call \in {"boot", "disk"}
        /\ phase' = "done" /\ UNCHANGED <<call, at, app, cnt, c, buf, ret>>
  /\ UNCHANGED <<r, tries, ccs, globals, controller>>

Driver ==
  /\ \/ Reset \/ sd_clk \/ OcrAnswered \/ InitAnswered
     \/ ScrInhibited \/ ScrReady \/ ReadScr \/ WidthSet
     \/ ReadInhibited \/ ReadAnswered \/ Block
     \/ Inhibited \/ CommandDone \/ initFat
  /\ UNCHANGED <<kind, card>>

(***************************************************************************)
(* The controller and the card                                             *)
(***************************************************************************)

States == {"idle", "ready", "ident", "stby", "tran", "data"}

\* What a command makes of the state of a card that obeys it.
Moves ==
  [GO_IDLE |-> States \X {"idle"}, APP_CMD |-> {<<s, s>> : s \in States},
   SEND_IF_COND |-> {<<"idle", "idle">>},
   SEND_OP_COND |-> {<<"idle", "idle">>, <<"idle", "ready">>},
   ALL_SEND_CID |-> {<<"ready", "ident">>}, SEND_REL_ADDR |-> {<<"ident", "stby">>},
   CARD_SELECT |-> {<<"stby", "tran">>}, SEND_SCR |-> {<<"tran", "tran">>},
   SET_BUS_WIDTH |-> {<<"tran", "tran">>}, SET_BLOCKCNT |-> {<<"tran", "tran">>},
   READ_SINGLE |-> {<<"tran", "tran">>}, READ_MULTI |-> {<<"tran", "data">>},
   STOP_TRANS |-> {<<"data", "tran">>}]

\* The first block a read names, if its address is one.
Named(arg) == IF kind.ccs THEN {arg} ELSE {b \in 0..arg : b * 512 = arg}

Obeys(k, to) ==
  /\ <<card.state, to>> \in Moves[k.code]
  /\ (k.code \in AppCommands) = card.app \/ k.code = "APP_CMD"
  /\ k.code \in {"APP_CMD", "CARD_SELECT"} => k.rca = card.rca
  /\ k.code = "SET_BLOCKCNT" => kind.counts
  /\ k.code \in {"READ_SINGLE", "READ_MULTI"} => Named(k.arg) # {}

\* A read of a counted number of blocks ends by itself.
Obeyed(k, to) ==
  [state |-> IF k.code = "READ_MULTI" /\ card.count = k.blocks THEN "tran" ELSE to,
   app |-> k.code = "APP_CMD",
   rca |-> (card.rca /\ k.code # "GO_IDLE") \/ k.code = "SEND_REL_ADDR",
   wide |-> (card.wide /\ k.code # "GO_IDLE") \/ k.code = "SET_BUS_WIDTH",
   count |-> IF k.code = "SET_BLOCKCNT" THEN k.arg ELSE 0]

Sent(k) ==
  CASE k.code = "SEND_SCR" -> <<0, 1>>
    [] k.code \in {"READ_SINGLE", "READ_MULTI"} ->
         LET b == CHOOSE n \in Named(k.arg) : TRUE IN [n \in 1..k.blocks |-> b + n - 1]
    [] k.code \in {"STOP_TRANS", "GO_IDLE"} -> <<>>
    [] OTHER -> data

Flags(k, to) ==
  CASE k.code = "APP_CMD" -> {{"app"}}
    [] k.code = "SEND_REL_ADDR" -> {{"rca"}, {"rca", "error"}}
    [] k.code = "SEND_OP_COND" ->
         IF to = "idle" THEN {{}} ELSE {{"complete"} \cup (IF kind.ccs THEN {"ccs"} ELSE {}) \cup v :
                                         v \in {{}, {"voltage"}}}
    [] OTHER -> {{}}

\* The card obeys, and its answer may be spoilt; or nothing comes of the command.
Replied(k, to) ==
  \/ /\ interrupt' = interrupt \cup {"done"}
     /\ \E f \in Flags(k, to) : resp' = [from |-> k.from, code |-> k.code, flags |-> f]
  \/ interrupt' = interrupt \cup {"error"} /\ UNCHANGED resp
CardAnswers ==
  /\ inflight # <<>>
  /\ inflight' = Tail(inflight)
  /\ \/ \E to \in States : LET k == Head(inflight) IN
          /\ Obeys(k, to)
          /\ card' = Obeyed(k, to)
          /\ data' = Sent(k) /\ fifo' = (fifo /\ data' = data)
          /\ Replied(k, to)
     \/ interrupt' = interrupt \cup {"timeout"} /\ UNCHANGED <<card, resp, data, fifo>>
  /\ UNCHANGED <<flow, locals, globals, width, kind>>

\* A block reaches the FIFO, or is lost with all that was to follow it.
DataComes ==
  /\ data # <<>> /\ ~fifo
  /\ \/ interrupt' = interrupt \cup {"ready"} /\ fifo' = TRUE /\ UNCHANGED data
     \/ \E e \in Errors : interrupt' = interrupt \cup {e} /\ data' = <<>> /\ UNCHANGED fifo
  /\ UNCHANGED <<flow, locals, globals, inflight, resp, width, kind, card>>

SdInit ==
  /\ call = "sd_init" /\ at = "GO_IDLE" /\ app = FALSE /\ phase = "reset" /\ cnt = 0
  /\ r = {} /\ tries = 0 /\ ccs = FALSE /\ c = 0 /\ buf = <<>> /\ ret = 0
  /\ sd_scr = [ccs |-> FALSE, wide |-> FALSE, counts |-> FALSE]
  /\ sd_rca = FALSE /\ sd_err = SD_OK
  /\ interrupt = {} /\ inflight = <<>> /\ data = <<>> /\ fifo = FALSE /\ width = 1
  /\ resp = [from |-> <<>>, code |-> "none", flags |-> {}]
  /\ kind \in Kinds /\ card = Idle

SdNext == Driver \/ CardAnswers \/ DataComes

\* The driver runs on; the card owes nothing.
SdSpec == SdInit /\ [][SdNext]_sdVars /\ WF_sdVars(Driver)
=============================================================================
