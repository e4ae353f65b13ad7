---------------------------- MODULE SdProperties ----------------------------
(* What initFat may rely on, stated over module Sd. *)
EXTENDS Sd

\* sd_cmd never takes the answer to another command for its own, although it gives
\* commands up whose answers come late.
AnswersAreOwn ==
  phase = "int" /\ "done" \in interrupt =>
    resp.code = code /\ resp.from = <<call, at, tries, c>>

\* When sd_init returns SD_OK the card is selected, on a bus of the same width at
\* both ends, and the driver counts in its unit, although errors of CMD_ALL_SEND_CID
\* and of all but the last ACMD41 are passed over.  A card whose SCR has the bit the
\* driver took for a flag of its own is left out.
InitLeavesCardReady ==
  phase = "return" /\ call = "sd_init" /\ ret = SD_OK =>
    /\ card.state = "tran" /\ card.rca /\ sd_rca
    /\ card.wide <=> width = 4
    /\ ~kind.odd => (sd_scr.ccs <=> kind.ccs)

\* A read that does not return 0 has read the blocks asked for, whole and in their
\* order, whatever was given up before it; but after a failed sd_init, which initFat
\* does not look at, the driver may count in bytes on a card that counts in blocks.
ReadIsTheBlocks ==
  phase = "return" /\ reading /\ ret # 0 /\ (sd_scr.ccs <=> kind.ccs) =>
    buf = [n \in 1..num |-> lba + n - 1]

\* An error interrupt that comes when no sd_int waits for it is never cleared, and
\* every later read fails.
LateErrorIsFinal ==
  [](phase = "dat" /\ reading /\ interrupt \cap Errors # {}
       => [](interrupt \cap Errors # {} /\ ret = 0))

\* Every call of the driver returns, whatever the card does not do; but the loop that
\* waits for the SCR needs both of its words.
InitFatReturns == <>(phase = "done")

\* The wait for the SCR gives up, as its counter and the SD_TIMEOUT returned after it
\* mean it to.
ScrTimesOut == phase = "scr" ~> phase # "scr"
=============================================================================
