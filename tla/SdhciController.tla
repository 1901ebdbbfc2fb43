-------------------------- MODULE SdhciController ---------------------------
(***************************************************************************)
(* The SD host controller driver of drivers/sdhci/mod.rs and the card in   *)
(* its slot.  A command may fail to reach the card, or its response may    *)
(* fail to reach the host: the driver sees an error either way, but in the *)
(* second case the card has obeyed.  A command that failed is followed by  *)
(* a reset of the command line whose own failure is ignored and leaves the *)
(* line busy.  Reads go through the one DMA page, and no command is issued *)
(* while an earlier transfer holds the data line.                          *)
(***************************************************************************)
EXTENDS BlockClient, FiniteSetsExt

CONSTANTS
  SD_BLOCK_SIZE,        \* 512
  SD_SECTORS_PER_PAGE,  \* 4096 / SD_BLOCK_SIZE
  Cards                 \* cards: [v2, hc, csd, blocks], csd the bits that are 1

VARIABLES
  sdhci,   \* the driver: struct SdhciController and the place it waits at
  slot     \* the host's lines and DMA engine, and the card

sdhciVars == <<sdhci, slot>>

NoTransfer == [arg |-> 0, n |-> 0, done |-> FALSE]

\* done counts the sectors of the call already copied; width is the host's.
NewSdhci == [stage |-> "off", sd_v2 |-> FALSE, high_capacity |-> FALSE, rca |-> 0,
             num_blocks |-> 0, width |-> 1, card_initialized |-> FALSE, done |-> 0]

\* line: the command line is busy; xfer: the transfer holding the data line;
\* dma: the DMA page; then the card's own state.
NewSlot(card) ==
  [line |-> FALSE, xfer |-> NoTransfer, dma |-> Blank, card |-> card,
   state |-> "idle", app |-> FALSE, rca |-> 0, width |-> 1]

SdhciInit == sdhci = NewSdhci /\ slot \in {NewSlot(c) : c \in Cards}

(***************************************************************************)
(* What the card does with a command, by the SD specification: the states  *)
(* it obeys it in, and its state afterwards.                               *)
(***************************************************************************)
Obeys(cmd) ==
  CASE cmd = "CMD0" -> TRUE
    [] cmd = "CMD8" -> slot.state = "idle" /\ slot.card.v2
    [] cmd = "CMD55" -> sdhci.rca = slot.rca
    [] cmd = "ACMD41" -> slot.state = "idle" /\ slot.app
    [] cmd = "CMD2" -> slot.state = "ready"
    [] cmd = "CMD3" -> slot.state \in {"ident", "stby"}
    [] cmd \in {"CMD9", "CMD7"} -> slot.state = "stby" /\ sdhci.rca = slot.rca
    [] cmd = "CMD16" -> slot.state = "tran"
    [] cmd = "ACMD6" -> slot.state = "tran" /\ slot.app

\* A card that needs high capacity support never leaves idle without it.
Obeyed(cmd, ready) ==
  [slot EXCEPT
     !.app = cmd = "CMD55",
     !.state = CASE cmd = "CMD0" -> "idle" [] cmd = "CMD2" -> "ident"
                 [] cmd = "CMD3" -> "stby" [] cmd = "CMD7" -> "tran"
                 [] cmd = "ACMD41" /\ ready -> "ready" [] OTHER -> @,
     !.rca = CASE cmd = "CMD0" -> 0 [] cmd = "CMD3" -> 1 [] OTHER -> @,
     !.width = CASE cmd = "CMD0" -> 1 [] cmd = "ACMD6" -> 4 [] OTHER -> @]

\* send_command: ok is whether the driver gets a response.  After an error
\* reset_cmd frees the command line, or fails.
send_command(cmd, ready, ok) ==
  IF ok THEN ~slot.line /\ Obeys(cmd) /\ slot' = Obeyed(cmd, ready)
  ELSE \E ran, line \in BOOLEAN :
         /\ ran => ~slot.line /\ Obeys(cmd)
         /\ slot.line => line
         /\ slot' = [(IF ran THEN Obeyed(cmd, ready) ELSE slot) EXCEPT !.line = line]

(***************************************************************************)
(* Start-up.                                                               *)
(***************************************************************************)
At(stage) == sdhci.stage = stage /\ UNCHANGED client

Go(stage) == sdhci' = [sdhci EXCEPT !.stage = stage]

\* init: the start of init_card, or a reset that does not end, no clock or
\* power, no card in the slot.
SdhciStart == Go("CMD0") \/ Go("failed")

\* new: no registers or no memory, or else init.
SdhciNew == At("off") /\ (Go("failed") \/ SdhciStart) /\ UNCHANGED slot

\* The answer to CMD0 is not looked at.
SdGoIdle == At("CMD0") /\ Go("CMD8") /\ \E ok \in BOOLEAN : send_command("CMD0", FALSE, ok)

SdIfCond ==
  /\ At("CMD8")
  /\ \E ok \in BOOLEAN : /\ send_command("CMD8", FALSE, ok)
                         /\ sdhci' = [sdhci EXCEPT !.stage = "APP", !.sd_v2 = ok]

\* The loop waiting for the card: an error of either command starts over,
\* and the card may say it is still busy.
SdAppCmd ==
  /\ At("APP")
  /\ \E ok \in BOOLEAN : /\ send_command("CMD55", FALSE, ok)
                         /\ Go(IF ok THEN "ACMD41" ELSE "APP")

SdOpCond ==
  /\ At("ACMD41")
  /\ \E ok, ready \in BOOLEAN :
       /\ ready => (slot.card.hc => sdhci.sd_v2)
       /\ send_command("ACMD41", ready, ok)
       /\ sdhci' = IF ok /\ ready
                   THEN [sdhci EXCEPT !.stage = "CMD2", !.high_capacity = slot.card.hc]
                   ELSE [sdhci EXCEPT !.stage = "APP"]

SdInitTimeout == At("APP") /\ Go("failed") /\ UNCHANGED slot

\* A command whose error ends init_card: the driver goes on as d.
Step(cmd, d) ==
  /\ At(cmd)
  /\ \/ send_command(cmd, FALSE, TRUE) /\ sdhci' = d
     \/ send_command(cmd, FALSE, FALSE) /\ Go("failed")

\* The response registers: the host leaves out the checksum, the lowest eight
\* bits, so that bit b of the CSD is bit b - 8 of the registers.
Response(csd) == {b - 8 : b \in {x \in csd : x >= 8}}

\* The number in the n bits of the registers from bit lo on.
Bits(r, lo, n) == MapThenSumSet(LAMBDA b : 2^(b - lo), r \cap (lo .. lo + n - 1))

\* parse_csd: version 1 is read at the places its fields have in the CSD, not
\* at those they have in the registers.
parse_csd(r) ==
  LET c_size == Bits(r, 62, 12)
      c_size_mult == Bits(r, 47, 3)
      read_bl_len == Bits(r, 80, 4)
  IN  IF Bits(r, 118, 2) = 0
      THEN ((c_size + 1) * 2^(c_size_mult + 2) * 2^read_bl_len) \div SD_BLOCK_SIZE
      ELSE (Bits(r, 40, 22) + 1) * 1024

SdAllSendCid == Step("CMD2", [sdhci EXCEPT !.stage = "CMD3"])

SdRelativeAddr == Step("CMD3", [sdhci EXCEPT !.stage = "CMD9", !.rca = 1])

SdSendCsd == Step("CMD9", [sdhci EXCEPT !.stage = "CMD7",
                                        !.num_blocks = parse_csd(Response(slot.card.csd))])

SdSelectCard ==
  Step("CMD7", [sdhci EXCEPT !.stage = IF sdhci.high_capacity THEN "APP6" ELSE "CMD16"])

SdSetBlockLen == Step("CMD16", [sdhci EXCEPT !.stage = "APP6"])

SdAppCmd6 ==
  /\ At("APP6")
  /\ \E ok \in BOOLEAN : send_command("CMD55", FALSE, ok) /\ Go(IF ok THEN "ACMD6" ELSE "failed")

\* Faulty: the host changes to four lines without asking the card.
SdSetBusWidth_host_only ==
  At("ACMD6") /\ UNCHANGED slot
  /\ sdhci' = [sdhci EXCEPT !.stage = "ready", !.width = 4, !.card_initialized = TRUE]

\* set_bus_width(4), the clock (whose failure ends init_card), high speed.
SdSetBusWidth ==
  \/ Step("ACMD6", [sdhci EXCEPT !.stage = "ready", !.width = 4, !.card_initialized = TRUE])
  \/ /\ At("ACMD6") /\ send_command("ACMD6", FALSE, TRUE)
     /\ sdhci' = [sdhci EXCEPT !.stage = "failed", !.width = 4]

(***************************************************************************)
(* Reads.                                                                  *)
(***************************************************************************)
sd_read_sectors(lba, n) ==
  /\ sdhci.stage \in {"ready", "failed"}
  /\ Begin("read", 0, lba, n, IF sdhci.card_initialized /\ n > 0 THEN "busy" ELSE "err")
  /\ sdhci' = IF sdhci.card_initialized /\ n > 0
              THEN [sdhci EXCEPT !.stage = "read", !.done = 0] ELSE sdhci
  /\ UNCHANGED slot

SdChunk == Min({req.n - sdhci.done, SD_SECTORS_PER_PAGE})

\* wait_inhibit(true)
SdFree == ~slot.line /\ slot.xfer = NoTransfer

SdAbort == End("err", req.buf) /\ Go("ready")

\* The host's argument, and the first block the card takes it for.
Argument(lba) == IF sdhci.high_capacity THEN lba ELSE lba * SD_BLOCK_SIZE

FirstBlock(arg) == IF slot.card.hc THEN arg ELSE arg \div SD_BLOCK_SIZE

\* A card sends on when the transfer of several blocks is cut off.
CutOff(n) == [slot EXCEPT !.xfer = NoTransfer, !.state = IF n > 1 THEN "data" ELSE "tran"]

\* The DMA page is set up and the read command sent.  After an error
\* reset_cmd frees the command line and reset_data stops the transfer, or
\* either fails.
sd_read_sectors_internal ==
  LET x == [arg |-> Argument(req.lba + sdhci.done), n |-> SdChunk, done |-> FALSE]
      started == [slot EXCEPT !.xfer = x, !.state = "data", !.app = FALSE]
      obeys == slot.state = "tran" /\ FirstBlock(x.arg) + x.n <= slot.card.blocks
  IN  /\ sdhci.stage = "read"
      /\ \/ ~SdFree /\ SdAbort /\ UNCHANGED slot
         \/ /\ SdFree /\ obeys
            /\ Go("data") /\ slot' = started /\ UNCHANGED client
         \/ /\ SdFree /\ SdAbort
            /\ \E line, stopped \in BOOLEAN :
                 \/ slot' = [slot EXCEPT !.line = line]
                 \/ /\ obeys
                    /\ slot' = IF stopped THEN [CutOff(x.n) EXCEPT !.line = line]
                               ELSE [started EXCEPT !.line = line]

Clear == [slot EXCEPT !.xfer = NoTransfer]

\* The transfer is complete: the chunk is copied out of the DMA page.
SdReadDone ==
  /\ sdhci.stage = "data" /\ slot.xfer.done
  /\ slot' = Clear
  /\ LET buf == req.buf \o slot.dma
         more == sdhci.done + SdChunk < req.n
     IN  /\ IF more THEN Fill(buf) ELSE End("ok", buf)
         /\ sdhci' = [sdhci EXCEPT !.stage = IF more THEN "read" ELSE "ready",
                                   !.done = @ + SdChunk]

\* A data error or the timeout, at any time: reset_data only.
SdReadFails ==
  /\ sdhci.stage = "data" /\ SdAbort
  /\ slot' \in IF slot.xfer.done THEN {Clear} ELSE {slot, CutOff(slot.xfer.n)}

\* The card's blocks have arrived in the DMA page and the card has stopped
\* (by AUTO_CMD12).
SdTransfer ==
  /\ slot.xfer # NoTransfer /\ ~slot.xfer.done
  /\ slot' = [slot EXCEPT !.state = "tran", !.dma = Content(0, FirstBlock(slot.xfer.arg), slot.xfer.n),
       !.xfer = IF sdhci.stage = "data" THEN [@ EXCEPT !.done = TRUE] ELSE NoTransfer]
  /\ UNCHANGED <<sdhci, client>>

SdhciDriver ==
  \/ SdhciNew \/ SdGoIdle \/ SdIfCond \/ SdAppCmd \/ SdOpCond \/ SdInitTimeout
  \/ SdAllSendCid \/ SdRelativeAddr \/ SdSendCsd \/ SdSelectCard \/ SdSetBlockLen
  \/ SdAppCmd6 \/ SdSetBusWidth
  \/ \E lba \in 0..NumBlocks-1, n \in Counts : sd_read_sectors(lba, n)
  \/ sd_read_sectors_internal \/ SdReadDone \/ SdReadFails

SdhciNext == SdhciDriver \/ SdTransfer

SdhciProgress == sd_read_sectors_internal \/ SdReadDone \/ SdReadFails
=============================================================================
