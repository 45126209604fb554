-------------------------------- MODULE Emmc --------------------------------
(***************************************************************************)
(* The eMMC controller and the SD card behind it, as sd.c and              *)
(* unlock_file_diskio.c use them: one command or one block at a time.      *)
(* Of R16_EMMC_INT_FG a model needs three flags; ERR stands for any of     *)
(* EMMC_ERROR_FLAGS.  EMMC_IRQHandler, which sets EMMCOpErr, runs only     *)
(* when its interrupt is on and ERR is set; EmmcQuiet of Boot says that    *)
(* the code here never lets that happen, so EMMCOpErr stays 0.             *)
(***************************************************************************)
EXTENDS Integers

VARIABLES flags,     \* R16_EMMC_INT_FG
          irq,       \* EMMC_IRQn is enabled
          dma,       \* a block is to be moved by R32_EMMC_DMA_BEG1, BLOCK_CFG
          bus,       \* the command or block under way
          dat0low    \* !EMMCDat0Sta: the card programs what it was sent

emmcVars == <<flags, irq, dma, bus, dat0low>>

Flags == {"CMDDONE", "TRANDONE", "ERR"}

EmmcTypeOK ==
  /\ flags \subseteq Flags /\ irq \in BOOLEAN /\ dma \in BOOLEAN /\ dat0low \in BOOLEAN
  /\ bus \in {"none", "readCommand", "writeCommand", "read", "write"}

EmmcOff == flags = {} /\ irq = FALSE /\ dma = FALSE /\ bus = "none" /\ dat0low = FALSE

CommandEnds ==
  \/ /\ bus = "readCommand" /\ bus' = "read"
     /\ flags' = flags \cup {"CMDDONE"}
     /\ UNCHANGED <<irq, dma, dat0low>>
  \/ /\ bus = "writeCommand" /\ bus' = "write"
     /\ flags' = flags \cup {"CMDDONE"}
     /\ UNCHANGED <<irq, dma, dat0low>>
  \/ /\ bus \in {"readCommand", "writeCommand"} /\ bus' = "none"
     /\ flags' = flags \cup {"ERR"}
     /\ UNCHANGED <<irq, dma, dat0low>>

\* With R8_EMMC_TIMEOUT a block comes to an end, good or bad.
BlockEnds ==
  /\ bus \in {"read", "write"} /\ dma
  /\ bus' = "none" /\ dma' = FALSE
  /\ \/ flags' = flags \cup {"TRANDONE"} /\ dat0low' = (bus = "write")
     \/ flags' = flags \cup {"ERR"} /\ UNCHANGED dat0low
  /\ UNCHANGED irq

Programmed ==
  /\ dat0low /\ dat0low' = FALSE
  /\ UNCHANGED <<flags, irq, dma, bus>>

Card == CommandEnds \/ BlockEnds \/ Programmed
=============================================================================
