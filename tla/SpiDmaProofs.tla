---------------------------- MODULE SpiDmaProofs ----------------------------
(***************************************************************************)
(* Proofs about SpiDma: for every length of command and read, a read that  *)
(* is reported to be over brought every byte, leaves the bus quiet, and is *)
(* never given up.                                                         *)
(***************************************************************************)
EXTENDS SpiDma, SequenceTheorems, TLAPS

Count(flag) == IF flag THEN 1 ELSE 0

\* The bytes of the page exchanged so far.
Received == clocked - CommandLen

\* Neither channel has anything to do.
ChannelsOff ==
  /\ ~dma4.on /\ dma4.left = 0 /\ ~dma4.go
  /\ dma5.left = 0 /\ ~dma5.go
  /\ ~DMA4IFG

LineQuiet == UCTXIFG /\ ~shifting /\ ~UCRXIFG

IdleInv ==
  pc = "idle" =>
    /\ ChannelsOff /\ LineQuiet
    /\ sent > 0 => clocked = CommandLen + buffer_len
    /\ spi_dma_done => recv_buffer = [n \in 1 .. buffer_len |-> n - 1]

\* A byte of the command is in the transmit buffer, on the wire or received.
CommandInv ==
  /\ pc \in {"send", "sent"} => ChannelsOff /\ recv_buffer = <<>>
  /\ pc = "send" => LineQuiet /\ clocked = sent
  /\ pc = "sent" =>
       /\ sent < CommandLen
       /\ clocked = sent + Count(UCRXIFG)
       /\ Count(~UCTXIFG) + Count(shifting) + Count(UCRXIFG) = 1

ArmInv ==
  /\ pc \in {"arm_rx", "arm_tx", "kick"} =>
       /\ LineQuiet /\ ~spi_dma_done /\ ~DMA4IFG
       /\ recv_buffer = <<>> /\ sent = CommandLen /\ clocked = CommandLen
  /\ pc = "arm_rx" => ChannelsOff
  /\ pc \in {"arm_tx", "kick"} => dma4 = Armed(buffer_len)
  /\ pc = "arm_tx" => dma5.left = 0 /\ ~dma5.go
  /\ pc = "kick" => dma5 = Armed(buffer_len - 1)

\* What has been received is in memory or on its way there; what has been
\* sent has been received, is on the wire or about to be.  There was at most
\* one poll for each byte received.
Flight == pc \in {"compute", "wait"}

ReceiveInv ==
  Flight =>
    /\ Len(recv_buffer) + Count(UCRXIFG) = Received
    /\ recv_buffer = [n \in 1 .. Len(recv_buffer) |-> n - 1]
    /\ UCRXIFG => UCA3RXBUF = Received - 1
    /\ dma4.go <=> UCRXIFG
    /\ dma4.left = buffer_len - Len(recv_buffer)
    /\ dma4.on <=> dma4.left > 0
    /\ (DMA4IFG \/ spi_dma_done) <=> dma4.left = 0
    /\ ~(DMA4IFG /\ spi_dma_done)

SendInv ==
  Flight =>
    /\ sent = CommandLen
    /\ buffer_len - dma5.left
         = Received + Count(shifting) + Count(~UCTXIFG)
    /\ dma5.left > 0 => dma5.on
    /\ dma5.go <=> UCTXIFG /\ dma5.left > 0
    /\ SPI_DMA_TIMEOUT_COUNT - timeout <= Received - Count(ran)

IInv ==
  /\ TypeOK
  /\ clocked \in Nat
  /\ NeverTimesOut
  /\ IdleInv /\ CommandInv /\ ArmInv /\ ReceiveInv /\ SendInv

-----------------------------------------------------------------------------
\* The next byte appended to the first ones gives the first ones.
LEMMA AppendNext ==
  ASSUME NEW T, NEW s \in Seq(T), NEW e \in T,
         s = [n \in 1 .. Len(s) |-> n - 1], e = Len(s)
  PROVE  /\ Append(s, e) = [n \in 1 .. Len(s) + 1 |-> n - 1]
         /\ Len(Append(s, e)) = Len(s) + 1
         /\ Append(s, e) \in Seq(T)
<1> DEFINE a == Append(s, e)
<1>1. /\ a \in Seq(T) /\ Len(a) = Len(s) + 1
      /\ \A n \in 1 .. Len(s) + 1 :
           a[n] = IF n = Len(s) + 1 THEN e ELSE s[n]
  BY AppendProperties
<1>2. Len(s) \in Nat
  OBVIOUS
<1>3. \A n \in 1 .. Len(s) + 1 : a[n] = n - 1
  BY <1>1, <1>2
<1>4. a = [n \in 1 .. Len(a) |-> a[n]]
  BY <1>1, LenProperties
<1> QED
  BY <1>1, <1>3, <1>4

\* Before the first read nothing is on its way.
LEMMA InitEstablishes == Init => IInv
<1> SUFFICES ASSUME Init PROVE IInv
  OBVIOUS
<1>1. recv_buffer \in Seq({Dummy} \union (0 .. MaxLen))
  BY DEF Init
<1>2. dma4 \in Channel /\ dma5 \in Channel
  BY SizesAssumption DEF Init, Channel, Off
<1>3. /\ buffer_len \in 1 .. MaxLen /\ sent \in 0 .. CommandLen
      /\ timeout \in 0 .. SPI_DMA_TIMEOUT_COUNT /\ clocked \in Nat
  BY SizesAssumption DEF Init
<1>4. TypeOK
  BY <1>1, <1>2, <1>3 DEF Init, TypeOK
<1>5. NeverTimesOut /\ IdleInv /\ CommandInv /\ ArmInv /\ ReceiveInv /\ SendInv
  BY DEF Init, Off, NeverTimesOut, IdleInv, CommandInv, ArmInv,
         ReceiveInv, SendInv, ChannelsOff, LineQuiet, Flight
<1> QED
  BY <1>3, <1>4, <1>5 DEF IInv

\* While a read is in flight no more is exchanged than was asked for, and as
\* long as something is missing, it is on its way.
LEMMA InFlight ==
  ASSUME IInv, Flight
  PROVE  /\ Len(recv_buffer) \in Nat /\ Received \in Int
         /\ Received + Count(shifting) + Count(~UCTXIFG) <= buffer_len
         /\ dma5.left \in Nat /\ dma4.left \in Nat
         /\ AtRest => spi_dma_done
<1>1. Len(recv_buffer) \in Nat /\ Received \in Int
  BY SizesAssumption DEF IInv, TypeOK, Received
<1>2. dma5.left \in Nat /\ dma4.left \in Nat /\ buffer_len \in Nat
  BY SizesAssumption DEF IInv, TypeOK, Channel
<1>3. Count(shifting) \in 0 .. 1 /\ Count(~UCTXIFG) \in 0 .. 1
  BY DEF Count
<1>4. Received + Count(shifting) + Count(~UCTXIFG) <= buffer_len
  BY <1>1, <1>2, <1>3 DEF IInv, SendInv
<1>5. ASSUME AtRest PROVE spi_dma_done
  <2>1. dma5.left = 0
    BY <1>2, <1>5 DEF AtRest, IInv, SendInv
  <2>2. Received = buffer_len
    BY <1>1, <1>2, <1>5, <2>1 DEF AtRest, IInv, SendInv, Count
  <2>3. Count(UCRXIFG) = 0
    BY <1>5 DEF AtRest, IInv, ReceiveInv, Count
  <2>4. Len(recv_buffer) = buffer_len
    BY <1>1, <1>2, <2>2, <2>3 DEF IInv, ReceiveInv
  <2> QED
    BY <1>2, <1>5, <2>4 DEF AtRest, IInv, ReceiveInv
<1> QED
  BY <1>1, <1>2, <1>4, <1>5

\* One step of the program, a channel, the UART or the handler.
LEMMA StepPreserves == IInv /\ [Next]_vars => IInv'
<1> SUFFICES ASSUME IInv, [Next]_vars PROVE IInv'
  OBVIOUS
<1> USE DEF IInv, ChannelsOff, LineQuiet, Flight, Received, Count, cpu, uca3,
            dma
<1>1. CASE Call
  <2>1. TypeOK' /\ clocked' \in Nat /\ NeverTimesOut'
    BY <1>1, SizesAssumption DEF Call, TypeOK, NeverTimesOut
  <2>2. IdleInv'
    BY <1>1 DEF Call, IdleInv
  <2>3. CommandInv' /\ ArmInv'
    BY <1>1 DEF Call, IdleInv, CommandInv, ArmInv
  <2>4. ReceiveInv'
    BY <1>1 DEF Call, ReceiveInv
  <2>5. SendInv'
    BY <1>1 DEF Call, SendInv
  <2> QED
    BY <2>1, <2>2, <2>3, <2>4, <2>5
<1>2. CASE SendByte
  <2>1. TypeOK' /\ clocked' \in Nat /\ NeverTimesOut'
    BY <1>2 DEF SendByte, TypeOK, NeverTimesOut
  <2>2. IdleInv'
    BY <1>2 DEF SendByte, IdleInv
  <2>3. CommandInv' /\ ArmInv'
    BY <1>2 DEF SendByte, CommandInv, ArmInv
  <2>4. ReceiveInv'
    BY <1>2 DEF SendByte, ReceiveInv
  <2>5. SendInv'
    BY <1>2 DEF SendByte, SendInv
  <2> QED
    BY <2>1, <2>2, <2>3, <2>4, <2>5
<1>3. CASE TakeByte
  <2>1. TypeOK' /\ clocked' \in Nat /\ NeverTimesOut'
    <3>1. sent < CommandLen
      BY <1>3 DEF TakeByte, CommandInv
    <3>2. sent' \in 0 .. CommandLen
      BY <1>3, <3>1, SizesAssumption DEF TakeByte, TypeOK
    <3> QED
      BY <1>3, <3>2 DEF TakeByte, TypeOK, NeverTimesOut
  <2>2. IdleInv'
    BY <1>3 DEF TakeByte, IdleInv
  <2>3. CommandInv' /\ ArmInv'
    BY <1>3 DEF TakeByte, CommandInv, ArmInv
  <2>4. ReceiveInv'
    BY <1>3 DEF TakeByte, ReceiveInv
  <2>5. SendInv'
    BY <1>3 DEF TakeByte, SendInv
  <2> QED
    BY <2>1, <2>2, <2>3, <2>4, <2>5
<1>4. CASE ClearStale
  <2>1. TypeOK' /\ clocked' \in Nat /\ NeverTimesOut'
    BY <1>4 DEF ClearStale, TypeOK, NeverTimesOut
  <2>2. IdleInv'
    BY <1>4 DEF ClearStale, IdleInv
  <2>3. CommandInv' /\ ArmInv'
    BY <1>4 DEF ClearStale, CommandInv, ArmInv
  <2>4. ReceiveInv'
    BY <1>4 DEF ClearStale, ReceiveInv
  <2>5. SendInv'
    BY <1>4 DEF ClearStale, SendInv
  <2> QED
    BY <2>1, <2>2, <2>3, <2>4, <2>5
<1>5. CASE ArmReceive
  <2>1. TypeOK' /\ clocked' \in Nat /\ NeverTimesOut'
    <3>1. dma4' \in Channel
      BY <1>5, SizesAssumption DEF ArmReceive, Armed, Channel, TypeOK
    <3> QED
      BY <1>5, <3>1 DEF ArmReceive, TypeOK, NeverTimesOut
  <2>2. IdleInv'
    BY <1>5 DEF ArmReceive, IdleInv
  <2>3. CommandInv' /\ ArmInv'
    BY <1>5 DEF ArmReceive, CommandInv, ArmInv
  <2>4. ReceiveInv'
    BY <1>5 DEF ArmReceive, ReceiveInv
  <2>5. SendInv'
    BY <1>5 DEF ArmReceive, SendInv
  <2> QED
    BY <2>1, <2>2, <2>3, <2>4, <2>5
<1>6. CASE ArmSend
  <2>1. TypeOK' /\ clocked' \in Nat /\ NeverTimesOut'
    BY <1>6, SizesAssumption DEF ArmSend, TypeOK, Channel, NeverTimesOut, Armed
  <2>2. IdleInv'
    BY <1>6 DEF ArmSend, IdleInv
  <2>3. CommandInv' /\ ArmInv'
    BY <1>6 DEF ArmSend, CommandInv, ArmInv
  <2>4. ReceiveInv'
    BY <1>6 DEF ArmSend, ReceiveInv
  <2>5. SendInv'
    BY <1>6 DEF ArmSend, SendInv
  <2> QED
    BY <2>1, <2>2, <2>3, <2>4, <2>5
<1>7. CASE Kick
  <2>1. TypeOK' /\ clocked' \in Nat /\ NeverTimesOut'
    <3>1. timeout' \in 0 .. SPI_DMA_TIMEOUT_COUNT
      BY <1>7, SizesAssumption DEF Kick
    <3> QED
      BY <1>7, <3>1 DEF Kick, TypeOK, NeverTimesOut
  <2>2. IdleInv'
    BY <1>7 DEF Kick, IdleInv
  <2>3. CommandInv' /\ ArmInv'
    BY <1>7 DEF Kick, CommandInv, ArmInv
  <2>4. ReceiveInv'
    BY <1>7 DEF Kick, TypeOK, ArmInv, ReceiveInv, Armed
  <2>5. SendInv'
    BY <1>7, SizesAssumption DEF Kick, TypeOK, ArmInv, SendInv, Armed
  <2> QED
    BY <2>1, <2>2, <2>3, <2>4, <2>5
<1>8. CASE StopComputing
  <2>1. TypeOK' /\ clocked' \in Nat /\ NeverTimesOut'
    BY <1>8 DEF StopComputing, TypeOK, NeverTimesOut
  <2>2. IdleInv'
    BY <1>8 DEF StopComputing, IdleInv
  <2>3. CommandInv' /\ ArmInv'
    BY <1>8 DEF StopComputing, CommandInv, ArmInv
  <2>4. ReceiveInv'
    BY <1>8 DEF StopComputing, ReceiveInv
  <2>5. SendInv'
    BY <1>8 DEF StopComputing, SendInv
  <2> QED
    BY <2>1, <2>2, <2>3, <2>4, <2>5
<1>9. CASE Poll
  <2>1. TypeOK' /\ clocked' \in Nat /\ NeverTimesOut'
    <3>1. Flight /\ ran
      BY <1>9, InFlight DEF Poll, TypeOK
    <3>2. SPI_DMA_TIMEOUT_COUNT - timeout < buffer_len
      <4>1. Received <= buffer_len
        BY <3>1, InFlight, SizesAssumption DEF TypeOK
      <4> QED
        BY <3>1, <4>1, SizesAssumption DEF SendInv, TypeOK
    <3>3. timeout > 1
      BY <3>2, SizesAssumption, TimeoutAssumption DEF TypeOK
    <3>4. timeout' \in 1 .. SPI_DMA_TIMEOUT_COUNT
      BY <1>9, <3>3, SizesAssumption DEF Poll, TypeOK
    <3>5. pc' = "wait" /\ timeout' \in 0 .. SPI_DMA_TIMEOUT_COUNT
      BY <1>9, <3>4, SizesAssumption DEF Poll
    <3> QED
      BY <1>9, <3>5 DEF Poll, TypeOK, NeverTimesOut
  <2>2. IdleInv'
    BY <1>9 DEF Poll, IdleInv
  <2>3. CommandInv' /\ ArmInv'
    BY <1>9 DEF Poll, CommandInv, ArmInv
  <2>4. ReceiveInv'
    BY <1>9 DEF Poll, ReceiveInv
  <2>5. SendInv'
    <3>1. Flight /\ ran
      BY <1>9, InFlight DEF Poll, TypeOK
    <3> QED
      BY <1>9, <3>1, SizesAssumption DEF Poll, TypeOK, SendInv
  <2> QED
    BY <2>1, <2>2, <2>3, <2>4, <2>5
<1>10. CASE Return
  <2>1. TypeOK' /\ clocked' \in Nat /\ NeverTimesOut'
    BY <1>10 DEF Return, TypeOK, NeverTimesOut
  <2>2. IdleInv'
    <3>1. Flight
      BY <1>10 DEF Return
    <3>2. dma4.left = 0 /\ ~DMA4IFG /\ Len(recv_buffer) = buffer_len
      <4>1. dma4.left = 0 /\ ~DMA4IFG
        BY <1>10, <3>1 DEF Return, ReceiveInv
      <4> QED
        BY <3>1, <4>1, InFlight, SizesAssumption DEF ReceiveInv, TypeOK
    <3>3. ~UCRXIFG /\ Received = buffer_len
      BY <3>1, <3>2, InFlight, SizesAssumption DEF ReceiveInv, TypeOK
    <3>4. dma5.left = 0 /\ UCTXIFG
      BY <3>1, <3>3, InFlight, SizesAssumption DEF SendInv, TypeOK
    <3> QED
      BY <1>10, <3>1, <3>2, <3>3, <3>4, SizesAssumption
      DEF Return, IdleInv, ReceiveInv, SendInv, TypeOK, Channel
  <2>3. CommandInv' /\ ArmInv'
    BY <1>10 DEF Return, CommandInv, ArmInv
  <2>4. ReceiveInv'
    BY <1>10 DEF Return, ReceiveInv
  <2>5. SendInv'
    BY <1>10 DEF Return, SendInv
  <2> QED
    BY <2>1, <2>2, <2>3, <2>4, <2>5
<1>11. CASE Load
  <2>1. TypeOK' /\ clocked' \in Nat /\ NeverTimesOut'
    <3>1. dma5' \in Channel
      BY <1>11 DEF Load, Edge, TypeOK, Channel
    <3> QED
      BY <1>11, <3>1 DEF Load, TypeOK, NeverTimesOut
  <2>2. IdleInv'
    BY <1>11 DEF Load, IdleInv
  <2>3. CommandInv' /\ ArmInv'
    BY <1>11 DEF Load, CommandInv, ArmInv, Edge
  <2>4. ReceiveInv'
    BY <1>11 DEF Load, ReceiveInv
  <2>5. SendInv'
    BY <1>11 DEF Load, ReceiveInv, SendInv, Edge
  <2> QED
    BY <2>1, <2>2, <2>3, <2>4, <2>5
<1>12. CASE Exchange
  <2>1. TypeOK' /\ clocked' \in Nat /\ NeverTimesOut'
    <3>1. UCA3RXBUF' \in {Dummy} \union (0 .. MaxLen)
      <4>1. CASE clocked < CommandLen
        BY <1>12, <4>1 DEF Exchange
      <4>2. CASE clocked >= CommandLen
        <5>1. Flight
          BY <1>12, <4>2, SizesAssumption
          DEF Exchange, TypeOK, IdleInv, CommandInv, ArmInv, NeverTimesOut
        <5>2. Received <= buffer_len
          BY <5>1, InFlight, SizesAssumption DEF TypeOK
        <5> QED
          BY <1>12, <4>2, <5>2, SizesAssumption DEF Exchange, TypeOK
      <4> QED
        BY <4>1, <4>2, SizesAssumption
    <3>2. dma4' \in Channel
      BY <1>12 DEF Exchange, Edge, TypeOK, Channel
    <3>3. clocked' \in Nat
      BY <1>12 DEF Exchange
    <3> QED
      BY <1>12, <3>1, <3>2, <3>3 DEF Exchange, TypeOK, NeverTimesOut
  <2>2. IdleInv'
    BY <1>12 DEF Exchange, IdleInv
  <2>3. CommandInv' /\ ArmInv'
    BY <1>12 DEF Exchange, TypeOK, CommandInv, ArmInv, Edge
  <2>4. ReceiveInv'
    <3> SUFFICES ASSUME Flight PROVE ReceiveInv'
      BY <1>12 DEF Exchange, ReceiveInv
    <3>1. ~UCRXIFG
      BY <1>12 DEF Exchange, ReceiveInv
    <3>2. dma4.left > 0 /\ dma4.on
      BY <1>12, <3>1, InFlight, SizesAssumption
      DEF Exchange, ReceiveInv, TypeOK, Channel
    <3>3. dma4' = [dma4 EXCEPT !.go = TRUE]
      BY <1>12, <3>1, <3>2 DEF Exchange, Edge
    <3>4. dma4'.go = TRUE /\ dma4'.left = dma4.left /\ dma4'.on = dma4.on
      BY <3>3 DEF TypeOK, Channel
    <3>5. clocked >= CommandLen
      BY <3>1, InFlight, SizesAssumption DEF ReceiveInv, TypeOK
    <3>6. /\ Len(recv_buffer) + 1 = Received'
          /\ UCA3RXBUF' = Received' - 1
      <4>1. Len(recv_buffer) = Received
        BY <3>1, InFlight DEF ReceiveInv
      <4>2. Received' = Received + 1 /\ UCA3RXBUF' = Received
        BY <1>12, <3>5, SizesAssumption DEF Exchange
      <4> QED
        BY <4>1, <4>2, InFlight
    <3>7. dma4'.go <=> UCRXIFG'
      BY <1>12, <3>4 DEF Exchange
    <3> QED
      BY <1>12, <3>4, <3>6, <3>7 DEF Exchange, ReceiveInv
  <2>5. SendInv'
    BY <1>12, SizesAssumption DEF Exchange, SendInv, TypeOK
  <2> QED
    BY <2>1, <2>2, <2>3, <2>4, <2>5
<1>13. CASE MoveIn
  <2>1. TypeOK' /\ clocked' \in Nat /\ NeverTimesOut'
    <3>1. Flight
      BY <1>13
      DEF MoveIn, TypeOK, IdleInv, CommandInv, ArmInv, NeverTimesOut, Armed
    <3>2. Append(recv_buffer, UCA3RXBUF) \in Seq({Dummy} \union (0 .. MaxLen))
      BY AppendProperties DEF TypeOK
    <3>3. dma4.left > 0
      BY <1>13, <3>1, InFlight, SizesAssumption
      DEF MoveIn, ReceiveInv, TypeOK, Channel
    <3>4. dma4' \in Channel
      BY <1>13, <3>3, SizesAssumption DEF MoveIn, Moved, TypeOK, Channel
    <3> QED
      BY <1>13, <3>2, <3>4 DEF MoveIn, TypeOK, NeverTimesOut
  <2>2. IdleInv'
    BY <1>13 DEF MoveIn, IdleInv
  <2>3. CommandInv' /\ ArmInv'
    BY <1>13 DEF MoveIn, CommandInv, ArmInv, Armed
  <2>4. ReceiveInv'
    <3>1. Flight
      BY <1>13
      DEF MoveIn, TypeOK, IdleInv, CommandInv, ArmInv, NeverTimesOut, Armed
    <3>2. UCRXIFG /\ UCA3RXBUF = Len(recv_buffer)
      BY <1>13, <3>1, InFlight, SizesAssumption
      DEF MoveIn, ReceiveInv, TypeOK
    <3>3. /\ recv_buffer' = [n \in 1 .. Len(recv_buffer) + 1 |-> n - 1]
          /\ Len(recv_buffer') = Len(recv_buffer) + 1
      BY <1>13, <3>1, <3>2, AppendNext DEF MoveIn, ReceiveInv, TypeOK
    <3>4. dma4.left > 0
      BY <1>13, <3>1, <3>2, InFlight, SizesAssumption
      DEF MoveIn, ReceiveInv, TypeOK, Channel
    <3>5. dma4'.go = FALSE /\ dma4'.left = dma4.left - 1
          /\ (dma4'.on <=> dma4.left > 1)
      BY <1>13 DEF MoveIn, Moved
    <3>6. /\ Len(recv_buffer') = Received'
          /\ dma4'.left = buffer_len' - Len(recv_buffer')
          /\ dma4'.on <=> dma4'.left > 0
          /\ dma4'.left = 0 <=> dma4.left = 1
      BY <1>13, <3>1, <3>2, <3>3, <3>4, <3>5, InFlight, SizesAssumption
      DEF MoveIn, ReceiveInv, TypeOK
    <3>7. /\ ~UCRXIFG' /\ ~spi_dma_done' /\ ~dma4'.go
          /\ DMA4IFG' <=> dma4.left = 1
      <4>1. ~spi_dma_done /\ dma4.left # 0
        BY <3>1, <3>4, InFlight DEF ReceiveInv
      <4>2. DMA4IFG' = (dma4.left = 1)
        BY <1>13 DEF MoveIn
      <4>3. ~UCRXIFG' /\ ~spi_dma_done'
        BY <1>13, <4>1 DEF MoveIn
      <4> QED
        BY <3>5, <4>2, <4>3
    <3>8. recv_buffer' = [n \in 1 .. Len(recv_buffer') |-> n - 1]
      BY <3>3
    <3>9. Len(recv_buffer') + 0 = Received'
      BY <3>3, <3>6, InFlight, <3>1
    <3> QED
      BY <3>6, <3>7, <3>8, <3>9 DEF ReceiveInv
  <2>5. SendInv'
    BY <1>13 DEF MoveIn, SendInv
  <2> QED
    BY <2>1, <2>2, <2>3, <2>4, <2>5
<1>14. CASE MoveOut
  <2>1. TypeOK' /\ clocked' \in Nat /\ NeverTimesOut'
    <3>1. dma5.left > 0
      BY <1>14, SizesAssumption
      DEF MoveOut, TypeOK, IdleInv, CommandInv, ArmInv, NeverTimesOut, Armed,
          SendInv
    <3>2. dma5' \in Channel
      BY <1>14, <3>1, SizesAssumption DEF MoveOut, Moved, TypeOK, Channel
    <3> QED
      BY <1>14, <3>2 DEF MoveOut, TypeOK, NeverTimesOut
  <2>2. IdleInv'
    BY <1>14 DEF MoveOut, IdleInv
  <2>3. CommandInv' /\ ArmInv'
    BY <1>14 DEF MoveOut, CommandInv, ArmInv, Armed
  <2>4. ReceiveInv'
    BY <1>14 DEF MoveOut, ReceiveInv
  <2>5. SendInv'
    <3>1. Flight
      BY <1>14
      DEF MoveOut, TypeOK, IdleInv, CommandInv, ArmInv, NeverTimesOut, Armed
    <3>2. UCTXIFG /\ dma5.left > 0
      BY <1>14, <3>1 DEF MoveOut, SendInv
    <3>3. dma5'.go = FALSE /\ dma5'.left = dma5.left - 1
          /\ (dma5'.on <=> dma5.left > 1)
      BY <1>14 DEF MoveOut, Moved
    <3>4. dma5.left > 1 <=> dma5'.left > 0
      BY <3>1, <3>3, InFlight
    <3>5. buffer_len' - dma5'.left = Received' + Count(shifting)' + 1
      <4>1. buffer_len - dma5.left = Received + Count(shifting)
        BY <3>1, <3>2, InFlight DEF SendInv
      <4>2. buffer_len' = buffer_len /\ Received' = Received
            /\ Count(shifting)' = Count(shifting)
        BY <1>14 DEF MoveOut
      <4>3. buffer_len \in Int /\ Count(shifting) \in Int
        BY SizesAssumption DEF TypeOK
      <4> QED
        BY <3>1, <3>3, <4>1, <4>2, <4>3, InFlight
    <3>6. ~UCTXIFG'
      BY <1>14 DEF MoveOut
    <3> QED
      BY <1>14, <3>1, <3>3, <3>4, <3>5, <3>6 DEF MoveOut, SendInv
  <2> QED
    BY <2>1, <2>2, <2>3, <2>4, <2>5
<1>15. CASE SPI_DMA_ISR
  <2>1. TypeOK' /\ clocked' \in Nat /\ NeverTimesOut'
    BY <1>15 DEF SPI_DMA_ISR, TypeOK, NeverTimesOut, CommandInv, ArmInv
  <2>2. IdleInv'
    BY <1>15 DEF SPI_DMA_ISR, IdleInv
  <2>3. CommandInv' /\ ArmInv'
    BY <1>15 DEF SPI_DMA_ISR, CommandInv, ArmInv
  <2>4. ReceiveInv'
    BY <1>15 DEF SPI_DMA_ISR, ReceiveInv
  <2>5. SendInv'
    BY <1>15 DEF SPI_DMA_ISR, SendInv
  <2> QED
    BY <2>1, <2>2, <2>3, <2>4, <2>5
<1>16. CASE UNCHANGED vars
  BY <1>16
  DEF vars, TypeOK, NeverTimesOut, IdleInv, CommandInv, ArmInv, ReceiveInv,
      SendInv
<1> QED
  BY <1>1, <1>2, <1>3, <1>4, <1>5, <1>6, <1>7, <1>8, <1>9,
     <1>10, <1>11, <1>12, <1>13, <1>14, <1>15, <1>16
  DEF Next, Program, Hardware

LEMMA InvHolds == Spec => []IInv
  BY InitEstablishes, StepPreserves, PTL DEF Spec

\* When the end of a read is reported, by the interrupt of the receiving
\* channel, every byte is in its place, for reads of every length.
THEOREM DoneCorrect == Spec => []DoneMeansReceived
<1>1. IInv => DoneMeansReceived
  <2> SUFFICES ASSUME IInv, spi_dma_done, pc # "send", pc # "sent"
               PROVE  recv_buffer = [n \in 1 .. buffer_len |-> n - 1]
    BY DEF DoneMeansReceived
  <2>1. CASE pc = "idle"
    BY <2>1 DEF IInv, IdleInv
  <2>2. CASE Flight
    <3>1. dma4.left = 0
      BY <2>2 DEF IInv, ReceiveInv
    <3>2. Len(recv_buffer) = buffer_len
      <4>1. dma4.left = buffer_len - Len(recv_buffer)
        BY <2>2 DEF IInv, ReceiveInv
      <4>2. Len(recv_buffer) \in Nat /\ buffer_len \in Nat
        BY <2>2, InFlight, SizesAssumption DEF IInv, TypeOK
      <4> QED
        BY <3>1, <4>1, <4>2
    <3> QED
      BY <2>2, <3>2 DEF IInv, ReceiveInv
  <2> QED
    BY <2>1, <2>2 DEF IInv, TypeOK, ArmInv, NeverTimesOut, Flight
<1> QED
  BY InvHolds, <1>1, PTL

\* Between two reads the bus and the channels are at rest: spi_recv_dma()
\* and spi_recv_dma_wait() do not return before.
THEOREM QuietCorrect == Spec => []BusIsQuiet
<1>1. IInv => BusIsQuiet
  BY DEF IInv, BusIsQuiet, IdleInv, ChannelsOff, LineQuiet, AtRest
<1> QED
  BY InvHolds, <1>1, PTL

\* The timeout of spi_recv_dma_wait() never stops a program whose chip
\* answers, if there are more polls than bytes in the longest read.
THEOREM NeverTimesOutCorrect == Spec => []NeverTimesOut
<1>1. IInv => NeverTimesOut
  BY DEF IInv
<1> QED
  BY InvHolds, <1>1, PTL
=============================================================================
