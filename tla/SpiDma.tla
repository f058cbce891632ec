------------------------------- MODULE SpiDma -------------------------------
(***************************************************************************)
(* One read from the page buffer of the flash chip, src/nand/spi.c: the    *)
(* command goes out byte by byte under control of the CPU, the answer      *)
(* comes in through two DMA channels that react to edges of the flags of   *)
(* UCA3.  DMA4 moves what was received to memory; DMA5 keeps the clock     *)
(* running by sending dummy bytes; the CPU sends the first one, polls for  *)
(* the end and gives up after so many polls.  In the overlapped build it   *)
(* computes in between.                                                    *)
(*                                                                         *)
(* UCA3, the DMA controller and the chip are external.  A byte of the page *)
(* is named by its number, a byte received in exchange for a command is    *)
(* Dummy.                                                                  *)
(*                                                                         *)
(* A definition announced as a Variant is the following definition with a  *)
(* mistake; nothing uses it.  It is there to show that a property would    *)
(* notice the mistake.                                                     *)
(***************************************************************************)
EXTENDS Integers, Sequences

CONSTANTS
  CommandLen,               \* READ_FROM_CACHE_X1_BUFFER_LEN
  MaxLen,                   \* bytes of the longest read
  SPI_DMA_TIMEOUT_COUNT

ASSUME SizesAssumption ==
  /\ CommandLen \in Nat \ {0}
  /\ MaxLen \in Nat \ {0}
  /\ SPI_DMA_TIMEOUT_COUNT \in Nat
\* 10000 against the 2048 bytes of a page.
ASSUME TimeoutAssumption == SPI_DMA_TIMEOUT_COUNT > MaxLen

Dummy == -1

VARIABLES
  \* the CPU
  pc,
  buffer_len,
  overlapped,        \* spi_recv_dma_start() and spi_recv_dma_wait()
  sent,              \* bytes of the command sent
  timeout,
  spi_dma_done,
  recv_buffer,
  \* UCA3 and the chip
  UCTXIFG,           \* UCA3TXBUF is free
  shifting,          \* a byte is on the wire: UCBUSY
  UCRXIFG,           \* UCA3RXBUF holds a byte nobody has read
  UCA3RXBUF,
  clocked,           \* bytes exchanged since CS went low
  \* the DMA controller
  dma4, dma5,        \* enabled, units left, triggered
  DMA4IFG,
  ran                \* a byte was exchanged since the last poll

cpu == <<pc, buffer_len, overlapped, sent, timeout>>
uca3 == <<UCTXIFG, shifting, UCRXIFG, UCA3RXBUF, clocked>>
dma == <<dma4, dma5, DMA4IFG>>
vars == <<cpu, spi_dma_done, recv_buffer, uca3, dma, ran>>

Off == [on |-> FALSE, left |-> 0, go |-> FALSE]
Armed(n) == [on |-> TRUE, left |-> n, go |-> FALSE]

\* A channel starts on the rising edge of its flag, if it is enabled and has
\* something left to move.
Edge(channel) ==
  IF channel.on /\ channel.left > 0 THEN [channel EXCEPT !.go = TRUE]
  ELSE channel

Moved(channel) ==
  [on |-> channel.left > 1, left |-> channel.left - 1, go |-> FALSE]

Init ==
  /\ pc = "idle"
  /\ buffer_len = 1
  /\ overlapped = FALSE
  /\ sent = 0
  /\ timeout = 0
  /\ spi_dma_done = FALSE
  /\ recv_buffer = <<>>
  /\ UCTXIFG = TRUE
  /\ shifting = FALSE
  /\ UCRXIFG = FALSE
  /\ UCA3RXBUF = Dummy
  /\ clocked = 0
  /\ dma4 = Off
  /\ dma5 = Off
  /\ DMA4IFG = FALSE
  /\ ran = FALSE

-----------------------------------------------------------------------------
\* The hardware.

\* A byte moves from UCA3TXBUF to the wire: UCTXIFG rises.
Load ==
  /\ ~UCTXIFG /\ ~shifting
  /\ UCTXIFG' = TRUE
  /\ shifting' = TRUE
  /\ dma5' = Edge(dma5)
  /\ UNCHANGED <<cpu, spi_dma_done, recv_buffer, UCRXIFG, UCA3RXBUF, clocked,
                 dma4, DMA4IFG, ran>>

\* The byte is exchanged for one of the chip: UCRXIFG rises unless it is up.
\* DMA moves a byte in less time than it takes to exchange one.
Exchange ==
  /\ shifting /\ ~dma4.go
  /\ shifting' = FALSE
  /\ clocked' = clocked + 1
  /\ UCA3RXBUF' = IF clocked < CommandLen THEN Dummy ELSE clocked - CommandLen
  /\ UCRXIFG' = TRUE
  /\ dma4' = IF UCRXIFG THEN dma4 ELSE Edge(dma4)
  /\ ran' = TRUE
  /\ UNCHANGED <<cpu, spi_dma_done, recv_buffer, UCTXIFG, dma5, DMA4IFG>>

\* Reading UCA3RXBUF lowers UCRXIFG.  The last unit raises the interrupt.
MoveIn ==
  /\ dma4.go
  /\ recv_buffer' = Append(recv_buffer, UCA3RXBUF)
  /\ UCRXIFG' = FALSE
  /\ dma4' = Moved(dma4)
  /\ DMA4IFG' = (dma4.left = 1)
  /\ UNCHANGED <<cpu, spi_dma_done, UCTXIFG, shifting, UCA3RXBUF, clocked,
                 dma5, ran>>

MoveOut ==
  /\ dma5.go
  /\ UCTXIFG' = FALSE
  /\ dma5' = Moved(dma5)
  /\ UNCHANGED <<cpu, spi_dma_done, recv_buffer, shifting, UCRXIFG,
                 UCA3RXBUF, clocked, dma4, DMA4IFG, ran>>

\* Variant: the end of the sending channel is reported.
SPI_DMA_ISR_OnSent ==
  /\ pc \in {"wait", "compute"} /\ ~dma5.on /\ ~spi_dma_done
  /\ spi_dma_done' = TRUE
  /\ DMA4IFG' = FALSE
  /\ UNCHANGED <<cpu, recv_buffer, uca3, dma4, dma5, ran>>

\* The interrupt handler; interrupts are on while the CPU waits or computes.
SPI_DMA_ISR ==
  /\ DMA4IFG
  /\ spi_dma_done' = TRUE
  /\ DMA4IFG' = FALSE
  /\ UNCHANGED <<cpu, recv_buffer, uca3, dma4, dma5, ran>>

Hardware == Load \/ Exchange \/ MoveIn \/ MoveOut \/ SPI_DMA_ISR

AtRest == UCTXIFG /\ ~shifting /\ ~dma4.go /\ ~dma5.go /\ ~DMA4IFG

-----------------------------------------------------------------------------
\* The program.

Call ==
  /\ pc = "idle"
  /\ pc' = "send"
  /\ buffer_len' \in 1 .. MaxLen
  /\ overlapped' \in BOOLEAN
  /\ sent' = 0
  /\ clocked' = 0
  /\ recv_buffer' = <<>>
  /\ UNCHANGED <<timeout, spi_dma_done, UCTXIFG, shifting, UCRXIFG, UCA3RXBUF,
                 dma, ran>>

\* spi_send(): a byte out ...
SendByte ==
  /\ pc = "send" /\ sent < CommandLen /\ UCTXIFG
  /\ pc' = "sent"
  /\ UCTXIFG' = FALSE
  /\ UNCHANGED <<buffer_len, overlapped, sent, timeout, spi_dma_done,
                 recv_buffer, shifting, UCRXIFG, UCA3RXBUF, clocked, dma, ran>>

\* ... and one in.
TakeByte ==
  /\ pc = "sent" /\ UCRXIFG
  /\ pc' = "send"
  /\ sent' = sent + 1
  /\ UCRXIFG' = FALSE
  /\ UNCHANGED <<buffer_len, overlapped, timeout, spi_dma_done, recv_buffer,
                 UCTXIFG, shifting, UCA3RXBUF, clocked, dma, ran>>

\* UCA3IFG &= ~UCRXIFG; spi_dma_done = 0
ClearStale ==
  /\ pc = "send" /\ sent = CommandLen
  /\ pc' = "arm_rx"
  /\ UCRXIFG' = FALSE
  /\ spi_dma_done' = FALSE
  /\ UNCHANGED <<buffer_len, overlapped, sent, timeout, recv_buffer, UCTXIFG,
                 shifting, UCA3RXBUF, clocked, dma, ran>>

\* DMA4CTL = ... | DMAIE | DMAEN
ArmReceive ==
  /\ pc = "arm_rx"
  /\ pc' = "arm_tx"
  /\ dma4' = Armed(buffer_len)
  /\ DMA4IFG' = FALSE
  /\ UNCHANGED <<buffer_len, overlapped, sent, timeout, spi_dma_done,
                 recv_buffer, uca3, dma5, ran>>

\* Variant: DMA5 sends all of the bytes, besides the one sent by the CPU.
ArmSendAll ==
  /\ pc = "arm_tx"
  /\ pc' = "kick"
  /\ dma5' = Armed(buffer_len)
  /\ UNCHANGED <<buffer_len, overlapped, sent, timeout, spi_dma_done,
                 recv_buffer, uca3, dma4, DMA4IFG, ran>>

\* Variant: the first byte is sent before DMA5 is enabled.
KickThenArmSend ==
  /\ pc = "arm_tx"
  /\ IF UCTXIFG /\ ~shifting /\ clocked = CommandLen
     THEN UCTXIFG' = FALSE /\ UNCHANGED <<pc, timeout, dma5, ran>>
     ELSE /\ pc' = "wait"
          /\ timeout' = SPI_DMA_TIMEOUT_COUNT
          /\ dma5' = Armed(buffer_len - 1)
          /\ ran' = FALSE
          /\ UNCHANGED UCTXIFG
  /\ UNCHANGED <<buffer_len, overlapped, sent, spi_dma_done, recv_buffer,
                 shifting, UCRXIFG, UCA3RXBUF, clocked, dma4, DMA4IFG>>

\* DMA5CTL = ... | DMAEN; a channel of size zero is never triggered.
ArmSend ==
  /\ pc = "arm_tx"
  /\ pc' = "kick"
  /\ dma5' = Armed(buffer_len - 1)
  /\ UNCHANGED <<buffer_len, overlapped, sent, timeout, spi_dma_done,
                 recv_buffer, uca3, dma4, DMA4IFG, ran>>

\* UCA3TXBUF = 0x00
Kick ==
  /\ pc = "kick"
  /\ pc' = IF overlapped THEN "compute" ELSE "wait"
  /\ timeout' = SPI_DMA_TIMEOUT_COUNT
  /\ UCTXIFG' = FALSE
  /\ ran' = FALSE
  /\ UNCHANGED <<buffer_len, overlapped, sent, spi_dma_done, recv_buffer,
                 shifting, UCRXIFG, UCA3RXBUF, clocked, dma>>

\* The caller has something else to do before it calls spi_recv_dma_wait().
StopComputing ==
  /\ pc = "compute"
  /\ pc' = "wait"
  /\ UNCHANGED <<buffer_len, overlapped, sent, timeout, spi_dma_done,
                 recv_buffer, uca3, dma, ran>>

\* One turn of while (!spi_dma_done).  It takes longer than the exchange of a
\* byte.  SET_BREAKPOINT(BP_ERROR) stops the program.
Poll ==
  /\ pc = "wait" /\ ~spi_dma_done
  /\ ran \/ AtRest
  /\ timeout' = timeout - 1
  /\ pc' = IF timeout' = 0 THEN "halted" ELSE "wait"
  /\ ran' = FALSE
  /\ UNCHANGED <<buffer_len, overlapped, sent, spi_dma_done, recv_buffer,
                 uca3, dma>>

\* Variant: the test of UCBUSY is the wrong way round.
ReturnWhenBusy ==
  /\ pc = "wait" /\ spi_dma_done
  /\ IF shifting THEN pc' = "idle" /\ UCRXIFG' = FALSE
     ELSE UNCHANGED <<pc, UCRXIFG>>
  /\ UNCHANGED <<buffer_len, overlapped, sent, timeout, spi_dma_done,
                 recv_buffer, UCTXIFG, shifting, UCA3RXBUF, clocked, dma, ran>>

\* while (UCBUSY); UCA3IFG &= ~UCRXIFG; cs_drive_high()
Return ==
  /\ pc = "wait" /\ spi_dma_done /\ ~shifting
  /\ pc' = "idle"
  /\ UCRXIFG' = FALSE
  /\ UNCHANGED <<buffer_len, overlapped, sent, timeout, spi_dma_done,
                 recv_buffer, UCTXIFG, shifting, UCA3RXBUF, clocked, dma, ran>>

Program == SendByte \/ TakeByte \/ ClearStale \/ ArmReceive \/ ArmSend \/ Kick
           \/ StopComputing \/ Poll \/ Return

Next == Call \/ Program \/ Hardware

\* The CPU and the hardware both go on as long as there is power.
Spec == Init /\ [][Next]_vars /\ WF_vars(Program) /\ WF_vars(Hardware)
-----------------------------------------------------------------------------
(***************************************************************************)
(* Properties.                                                             *)
(***************************************************************************)

Channel == [on : BOOLEAN, left : 0 .. MaxLen, go : BOOLEAN]

\* Every variable has a value it can have.
TypeOK ==
  /\ pc \in {"idle", "send", "sent", "arm_rx", "arm_tx", "kick", "compute",
             "wait", "halted"}
  /\ buffer_len \in 1 .. MaxLen
  /\ sent \in 0 .. CommandLen
  /\ timeout \in 0 .. SPI_DMA_TIMEOUT_COUNT
  /\ recv_buffer \in Seq({Dummy} \union (0 .. MaxLen))
  /\ UCA3RXBUF \in {Dummy} \union (0 .. MaxLen)
  /\ dma4 \in Channel /\ dma5 \in Channel
  /\ overlapped \in BOOLEAN /\ spi_dma_done \in BOOLEAN
  /\ UCTXIFG \in BOOLEAN /\ shifting \in BOOLEAN /\ UCRXIFG \in BOOLEAN
  /\ DMA4IFG \in BOOLEAN /\ ran \in BOOLEAN

\* Once spi_dma_done is up, which is all that spi_recv_dma() and the caller of
\* spi_recv_dma_wait() look at, every byte asked for is in memory, in its
\* place, and none from the exchange of the command.
DoneMeansReceived ==
  spi_dma_done /\ pc # "send" /\ pc # "sent" =>
    recv_buffer = [n \in 1 .. buffer_len |-> n - 1]

\* A read leaves nothing behind that the next command could set off: no
\* channel waits for an edge or for its turn, no byte is on its way, the chip
\* was clocked exactly as often as the read took.  Every variable keeps its
\* type.
BusIsQuiet ==
  /\ TypeOK
  /\ pc = "idle" =>
       /\ AtRest
       /\ ~dma4.on /\ dma5.left = 0 /\ ~UCRXIFG
       /\ sent > 0 => clocked = CommandLen + buffer_len

\* The polls run out only when a byte can no longer be on its way: the chip
\* that answers is never taken for one that does not.
NeverTimesOut == pc # "halted"

\* Every read ends, before the timeout stops the program.
ReadsEnd == (pc = "send") ~> (pc = "idle")
=============================================================================
