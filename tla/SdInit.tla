------------------------------- MODULE SdInit -------------------------------
(***************************************************************************)
(* SDCardInit of src/src/sd.c.  The processor is alone with the card and   *)
(* no interrupt is on, so a command and its answer are one step, which     *)
(* ends in one of three ways: the card did not get the command (or it is   *)
(* illegal in its state), it carried it out and the answer was lost, or    *)
(* all went well.  The data phases of ACMD51 and CMD6 are steps of their   *)
(* own, because their loops wait for TRANDONE alone.  Delays and the       *)
(* contents of CID, CSD and SCR are left out, but for the capacity.        *)
(***************************************************************************)
EXTENDS Emmc

CONSTANT OCR_TRIES     \* attempts at ACMD41, 100 in the firmware

ASSUME OcrTriesAssumption == OCR_TRIES \in Nat \ {0}

CMD8_TRIES == 3

VARIABLES
  sdpc,        \* the command SD_do_init sends next, or how it ended
  tries,       \* attempts made at that command
  card,        \* the card's state
  wide, fast,  \* the card uses four data lines; is in high-speed mode
  hostWide,    \* RB_EMMC_LW_MASK: the controller uses four data lines
  fastClock,   \* R16_EMMC_CLK_DIV: 48 MHz
  capacity     \* EMMCSecNum: 0, or below LOCKED_SECTORS ("small") or not

sdVars == <<sdpc, tries, card, wide, fast, hostWide, fastClock, capacity>>

CommandPcs == {"cmd8", "acmd41", "cmd2", "cmd3", "cmd9", "cmd7", "acmd6", "acmd51",
               "check", "switch"}
DataPcs == {"scrData", "scrDataFailed", "checkData", "switchData"}

SdTypeOK ==
  /\ sdpc \in CommandPcs \cup DataPcs \cup {"off", "clock", "ok", "failed"}
  /\ tries \in 0 .. CASE sdpc = "cmd8" -> CMD8_TRIES - 1
                     [] sdpc = "acmd41" -> OCR_TRIES - 1
                     [] OTHER -> CMD8_TRIES + OCR_TRIES
  /\ card \in {"idle", "ready", "ident", "stby", "tran"}
  /\ wide \in BOOLEAN /\ fast \in BOOLEAN /\ hostWide \in BOOLEAN /\ fastClock \in BOOLEAN
  /\ capacity \in {"none", "small", "large"}

SdOff ==
  /\ sdpc = "off" /\ tries = 0
  /\ card = "idle" /\ wide = FALSE /\ fast = FALSE
  /\ hostWide = FALSE /\ fastClock = FALSE /\ capacity = "none"

\* What CheckCMDComp may report (success or not) of a command the card does
\* or does not get, being in one of the states.
Answers(states) == {a \in [got : BOOLEAN, success : BOOLEAN] :
                      /\ a.success => a.got
                      /\ a.got => card \in states}

----------------------------------------------------------------------------
\* SD_IO_init and both CMD0.
PowerOn ==
  /\ sdpc = "off" /\ sdpc' = "cmd8"
  /\ tries' = 0
  /\ UNCHANGED <<card, wide, fast, hostWide, fastClock, capacity, emmcVars>>

MutRetry_OnceMore(done, max, next) ==
  IF done THEN sdpc' = next /\ tries' = 0
          ELSE /\ tries' = tries + 1
               /\ sdpc' = IF tries' > max THEN "failed" ELSE sdpc
Retry(done, max, next) ==
  IF done THEN sdpc' = next /\ tries' = 0
          ELSE /\ tries' = tries + 1
               /\ sdpc' = IF tries' = max THEN "failed" ELSE sdpc

SendIfCond ==
  /\ sdpc = "cmd8"
  /\ \E a \in Answers({"idle"}) : Retry(a.success, CMD8_TRIES, "acmd41")
  /\ UNCHANGED <<card, wide, fast, hostWide, fastClock, capacity, emmcVars>>

\* CMD55 is illegal once the card is ready: an answer lost when the card had
\* powered up is lost for good.
SDReadOCR ==
  /\ sdpc = "acmd41"
  /\ \E a \in Answers({"idle"}), poweredUp \in BOOLEAN :
       /\ card' = IF a.got /\ poweredUp THEN "ready" ELSE card
       /\ Retry(a.success /\ poweredUp, OCR_TRIES, "cmd2")
  /\ UNCHANGED <<wide, fast, hostWide, fastClock, capacity, emmcVars>>

Step(a, next) == sdpc' = IF a.success THEN next ELSE "failed"

Identify(here, from, to, next) ==
  /\ sdpc = here
  /\ \E a \in Answers({from}) : card' = (IF a.got THEN to ELSE card) /\ Step(a, next)
  /\ UNCHANGED <<tries, wide, fast, hostWide, fastClock, capacity, emmcVars>>

ReadCID == Identify("cmd2", "ready", "ident", "cmd3")
SDSetRCA == Identify("cmd3", "ident", "stby", "cmd9")
SelectCard == Identify("cmd7", "stby", "tran", "acmd6")

SDReadCSD ==
  /\ sdpc = "cmd9"
  /\ \E a \in Answers({"stby"}) :
       /\ capacity' \in IF a.success THEN {"small", "large"} ELSE {"none"}
       /\ Step(a, "cmd7")
  /\ UNCHANGED <<tries, card, wide, fast, hostWide, fastClock, emmcVars>>

MutWidth_Unchecked ==
  /\ sdpc = "acmd6"
  /\ \E a \in Answers({"tran"}) :
       /\ wide' = a.got
       /\ hostWide' = TRUE
       /\ sdpc' = "acmd51"
  /\ UNCHANGED <<tries, card, fast, fastClock, capacity, emmcVars>>
SDSetBusWidth ==
  /\ sdpc = "acmd6"
  /\ \E a \in Answers({"tran"}) :
       /\ wide' = a.got
       /\ hostWide' = a.success
       /\ Step(a, "acmd51")
  /\ UNCHANGED <<tries, card, fast, fastClock, capacity, emmcVars>>

\* The block is waited for even when the command was not answered; only a
\* failed CMD55 spares the wait.
SD_ReadSCR ==
  /\ sdpc = "acmd51"
  /\ \/ /\ sdpc' = "failed"
        /\ UNCHANGED emmcVars
     \/ \E a \in Answers({"tran"}) :
          /\ sdpc' = IF a.success THEN "scrData" ELSE "scrDataFailed"
          /\ dma' = TRUE
          /\ bus' = IF a.got THEN "read" ELSE "none"
          /\ UNCHANGED <<flags, irq, dat0low>>
  /\ UNCHANGED <<tries, card, wide, fast, hostWide, fastClock, capacity>>

ScrRead ==
  /\ sdpc \in {"scrData", "scrDataFailed"} /\ "TRANDONE" \in flags
  /\ flags' = {}
  /\ sdpc' = IF sdpc = "scrData" THEN "check" ELSE "failed"
  /\ UNCHANGED <<tries, card, wide, fast, hostWide, fastClock, capacity,
                 irq, dma, bus, dat0low>>

\* Without an answer CMD6 is given up and its block not waited for, although
\* DMA_BEG1 and BLOCK_CFG stay as they are.  Assumed: no block follows, the card
\* did not get the command or its block passes before the loss is noticed.  That
\* one may follow a damaged answer, and then meet what comes next, is left out.
SD_SwitchFunction ==
  /\ sdpc \in {"check", "switch"}
  /\ \E a \in Answers({"tran"}) :
       /\ flags' = {}
       /\ IF a.success
            THEN /\ sdpc' = IF sdpc = "check" THEN "checkData" ELSE "switchData"
                 /\ dma' = TRUE /\ bus' = "read"
            ELSE sdpc' = "clock" /\ UNCHANGED <<dma, bus>>
       /\ fast' \in IF sdpc = "switch" /\ a.got THEN BOOLEAN ELSE {fast}
  /\ UNCHANGED <<tries, card, wide, hostWide, fastClock, capacity, irq, dat0low>>

\* SD_EnableHighSpeed asks whether the card can, then tells it to.
SwitchStatusRead ==
  /\ sdpc \in {"checkData", "switchData"} /\ "TRANDONE" \in flags
  /\ flags' = {}
  /\ sdpc' \in IF sdpc = "checkData" THEN {"switch", "clock"} ELSE {"clock"}
  /\ UNCHANGED <<tries, card, wide, fast, hostWide, fastClock, capacity,
                 irq, dma, bus, dat0low>>

RaiseClock ==
  /\ sdpc = "clock" /\ sdpc' = "ok"
  /\ fastClock' = TRUE
  /\ UNCHANGED <<tries, card, wide, fast, hostWide, capacity, emmcVars>>

SdStep == \/ SendIfCond \/ SDReadOCR \/ ReadCID \/ SDSetRCA \/ SDReadCSD
          \/ SelectCard \/ SDSetBusWidth \/ SD_ReadSCR \/ ScrRead
          \/ SD_SwitchFunction \/ SwitchStatusRead \/ RaiseClock

----------------------------------------------------------------------------
(* Whenever a block is on the bus, and once the card is in use, card and   *)
(* controller agree on the number of data lines, whatever answers of       *)
(* SDSetBusWidth or before were lost.                                      *)
WidthAgrees ==
  bus \in {"read", "write"} \/ sdpc = "ok" => hostWide = wide /\ card = "tran"

(* "keeping default speed" (sd.c:375, sd.c:387): a card that is not in     *)
(* high-speed mode is not clocked at 48 MHz.  RaiseClock does not ask.     *)
ClockFitsCard == fastClock => fast
=============================================================================
