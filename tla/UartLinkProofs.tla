--------------------------- MODULE UartLinkProofs ---------------------------
(***************************************************************************)
(* Proofs about UartLink, for any message and header length, any distance  *)
(* of acknowledgements, any number of messages and any FIFO that satisfies *)
(* FifoAssumption.  Without noise delivery is exact, the two ends stay in  *)
(* step and neither waits for ever; with any bytes lost anywhere the loop  *)
(* counters stay inside their buffers, the FIFO never overruns and no      *)
(* message is invented.                                                    *)
(***************************************************************************)
EXTENDS UartLink, TLAPS

-----------------------------------------------------------------------------
(* Why delivery is exact and the ends stay in step without noise, as an    *)
(* inductive invariant.  Positions are counted in the message the reader   *)
(* is at: ReadPos bytes of it are read, SentPos bytes of it and of the     *)
(* message after it are sent.                                              *)
MessageLen == HdrLen + MsgLen
ReadPos == IF rPc = "body" THEN HdrLen + rI ELSE rI
PutPos == IF sPc \in {"idle", "hdr"} THEN sI
          ELSE HdrLen + sI + (IF sPc = "get" THEN 1 ELSE 0)
SentPos == IF started = received THEN 0
           ELSE (IF started = received + 2 THEN MessageLen ELSE 0)
                + (IF sPc = "idle" THEN MessageLen ELSE PutPos)
ByteAt(pos) == IF pos < MessageLen THEN pos ELSE pos - MessageLen

(* The struct bytes of the reader's message whose acknowledgements, where  *)
(* due, the sender has received.                                           *)
Settled == IF started = received + 1 /\ sPc # "idle"
           THEN IF sPc = "hdr" THEN 0 ELSE sI
           ELSE MsgLen

InStepLoops ==
    /\ sPc = "idle" => sI = 0
    /\ rPc = "main" => rI = 0
    /\ sPc = "get" => sI % AckEvery = 0
    /\ received <= started /\ started <= received + 2
    /\ sPc = "idle" => started <= received + 1
    /\ started = received => /\ rPc = "main"
                             /\ sPc = "idle" \/ (sPc = "get" /\ sI = MsgLen - 1)
    /\ started = received + 2 => sPc = "hdr" \/ sI = 0

(* What is under way is what was sent after what was read.                 *)
InTransit ==
    /\ ReadPos + Len(fifo) + Len(line) = SentPos
    /\ \A k \in DOMAIN fifo : fifo[k] = ByteAt(ReadPos + k - 1)
    /\ \A k \in DOMAIN line : line[k] = ByteAt(ReadPos + Len(fifo) + k - 1)

(* The reader has read every byte whose acknowledgement the sender had, so *)
(* what it has still to read goes back at most to the one before.          *)
AcksSettled ==
    /\ started # received /\ Settled > 0
           => HdrLen + Settled - ReadPos <= (Settled - 1) % AckEvery
    /\ acks \in {0, 1}
    /\ acks = 1 => /\ sPc = "get" /\ started # received + 2
                   /\ started = received \/ ReadPos > HdrLen + sI

LinkInv == lost = 0 => /\ overruns = 0 /\ intact
                       /\ InStepLoops /\ InTransit /\ AcksSettled

(* Why nothing overruns and nothing is invented with noise, as another.    *)
(* Target(i) is the next struct byte, from i on, that is acknowledged;     *)
(* UntilAck(i) counts the bytes up to it, or up to byte 0 of the next      *)
(* message.                                                                *)
Target(i) == i + ((AckEvery - (i % AckEvery)) % AckEvery)
UntilAck(i) == IF Target(i) < MsgLen THEN Target(i) - i + 1 ELSE (MsgLen - i) + HdrLen + 1
AckedNext(i) == IF Target(i) < MsgLen THEN Target(i) ELSE 0

(* What the reader has to read before it acknowledges a byte, and which;   *)
(* what the sender may put before it waits, and at which byte.             *)
Need == CASE rPc = "main" -> HdrLen + 1
          [] rPc = "hdr" -> (HdrLen - rI) + 1
          [] rPc = "body" -> UntilAck(rI)
NeedAt == IF rPc = "body" THEN AckedNext(rI) ELSE 0
Togo == CASE sPc = "idle" -> HdrLen + 1
          [] sPc = "hdr" -> (HdrLen - sI) + 1
          [] sPc = "put" -> UntilAck(sI)
          [] sPc = "get" -> 0
TogoAt == CASE sPc \in {"idle", "hdr"} -> 0
            [] sPc = "put" -> AckedNext(sI)
            [] sPc = "get" -> sI
OnTheWay == Len(fifo) + Len(line)

(* A reader that has lost bytes waits for more than the sender will put,   *)
(* so it acknowledges a byte only when the two are exactly in step.        *)
ReaderNeedsAll ==
    /\ acks \in {0, 1}
    /\ sPc = "get" => sI % AckEvery = 0
    /\ acks = 0 => /\ OnTheWay + Togo <= Need
                   /\ OnTheWay + Togo = Need => NeedAt = TogoAt
    /\ acks = 1 => /\ sPc = "get" /\ fifo = <<>> /\ line = <<>>
                   /\ IF sI + 1 < MsgLen THEN rPc = "body" /\ rI = sI + 1 ELSE rPc = "main"

(* It never is beyond the sender, in bytes or in messages.                 *)
Reached == IF sPc = "idle" THEN MessageLen ELSE PutPos
ReaderIsBehind ==
    /\ rPc = "main" => rI = 0
    /\ received <= started
    /\ started = received => ReadPos + OnTheWay + MessageLen <= Reached
    /\ started = received + 1 => ReadPos + OnTheWay <= Reached
    /\ started = received + 2 => ReadPos + OnTheWay <= Reached + MessageLen

NoiseInv == overruns = 0 /\ ReaderNeedsAll /\ ReaderIsBehind

-----------------------------------------------------------------------------
(* What the code's "i % 8 == 0" picks out: going back from s by at most    *)
(* s % a steps lowers the remainder by as many, so no multiple of a is     *)
(* met before the remainder is used up.                                    *)

LEMMA ModUnique ==
  ASSUME NEW a \in Nat \ {0}, NEW q \in Int, NEW r \in 0 .. a - 1
  PROVE  (a * q + r) % a = r
  OBVIOUS

LEMMA ModDivision ==
  ASSUME NEW a \in Nat \ {0}, NEW s \in Nat
  PROVE  s % a \in 0 .. a - 1 /\ s = a * (s \div a) + (s % a) /\ s \div a \in Int
  OBVIOUS

LEMMA ModGap ==
  ASSUME NEW a \in Nat \ {0}, NEW s \in Nat, NEW k \in Nat,
         k <= s, s - k <= s % a
  PROVE  k % a = (s % a) - (s - k)
<1> DEFINE q == s \div a
           m == s % a
           p == a * q
           r == m - (s - k)
<1>1. m \in 0 .. a - 1 /\ s = p + m /\ q \in Int
  BY ModDivision
<1>2. p \in Int
  BY <1>1
<1> HIDE DEF m, p
<1>3. r \in 0 .. a - 1 /\ k = p + r
  BY <1>1, <1>2 DEF m
<1> HIDE DEF q, r
<1>4. k % a = r
  BY <1>1, <1>3, ModUnique DEF p
<1> QED  BY <1>4 DEF r, m

-----------------------------------------------------------------------------
LEMMA TypeInit == Init => TypeOK
  BY LengthsAssumption DEF Init, TypeOK

LEMMA TypeStep == TypeOK /\ [Next]_vars => TypeOK'
<1> SUFFICES ASSUME TypeOK, [Next]_vars PROVE TypeOK'
  OBVIOUS
<1> USE LengthsAssumption
<1>1. CASE StartSend   BY <1>1 DEF TypeOK, StartSend, reader
<1>2. CASE PutHeader
  <2>1. line' \in Seq(Bytes)
    BY <1>2 DEF TypeOK, PutHeader, Bytes
  <2> QED  BY <1>2, <2>1 DEF TypeOK, PutHeader, reader
<1>3. CASE PutByte
  <2>1. line' \in Seq(Bytes)
    BY <1>3 DEF TypeOK, PutByte, Bytes
  <2> QED  BY <1>3, <2>1 DEF TypeOK, PutByte, AfterByte, reader
<1>4. CASE GetAck      BY <1>4 DEF TypeOK, GetAck, AfterByte, reader
<1>5. CASE Arrive
  <2>1. line' \in Seq(Bytes) /\ fifo' \in Seq(Bytes)
    BY <1>5 DEF TypeOK, Arrive
  <2> QED  BY <1>5, <2>1 DEF TypeOK, Arrive, sender, reader
<1>6. CASE Lose        BY <1>6 DEF TypeOK, Lose, sender, reader
<1>7. CASE Poll        BY <1>7 DEF TypeOK, Poll, sender
<1>8. CASE ReadHeader
  <2>1. fifo' \in Seq(Bytes)
    BY <1>8 DEF TypeOK, ReadHeader
  <2>2. /\ rPc' \in {"hdr", "body"} /\ rI' \in Nat
        /\ rPc' = "hdr" => rI' < HdrLen
        /\ rPc' = "body" => rI' < MsgLen
    BY <1>8 DEF TypeOK, ReadHeader
  <2> QED  BY <1>8, <2>1, <2>2 DEF TypeOK, ReadHeader, sender
<1>9. CASE HeaderTimeout  BY <1>9 DEF TypeOK, HeaderTimeout, sender
<1>10. CASE ReadBody
  <2>1. fifo' \in Seq(Bytes)
    BY <1>10 DEF TypeOK, ReadBody, StoreByte
  <2> QED  BY <1>10, <2>1 DEF TypeOK, ReadBody, StoreByte, AckWhen, LoopWhile, sender
<1>11. CASE UNCHANGED vars  BY <1>11 DEF TypeOK, vars
<1> QED
  BY <1>1, <1>2, <1>3, <1>4, <1>5, <1>6, <1>7, <1>8, <1>9, <1>10, <1>11
  DEF Next, Send, Read

(* The variables keep their types and the loop counters stay inside the    *)
(* buffers they index, noise or not.                                       *)
THEOREM LinkTypeCorrect == Spec => []TypeOK
  BY TypeInit, TypeStep, PTL DEF Spec

-----------------------------------------------------------------------------
(* LinkInv with its hypotheses.                                            *)
Lossless == /\ TypeOK /\ lost = 0 /\ overruns = 0 /\ intact
            /\ InStepLoops /\ InTransit /\ AcksSettled

LEMMA Remainders ==
  /\ \A s \in Nat : s % AckEvery \in Nat /\ s % AckEvery < AckEvery
  /\ \A s, k \in Nat : k <= s /\ s - k <= s % AckEvery
                         => k % AckEvery = (s % AckEvery) - (s - k)
<1>1. AckEvery \in Nat \ {0}
  BY LengthsAssumption
<1>2. \A s \in Nat : s % AckEvery \in 0 .. AckEvery - 1
  BY <1>1, ModDivision
<1>3. \A s \in Nat : s % AckEvery \in Nat /\ s % AckEvery < AckEvery
  BY <1>1, <1>2
<1> QED  BY <1>1, <1>3, ModGap

LEMMA LengthTypes ==
  ASSUME Lossless
  PROVE  /\ Len(fifo) \in Nat /\ Len(line) \in Nat
         /\ DOMAIN fifo = 1 .. Len(fifo) /\ DOMAIN line = 1 .. Len(line)
         /\ ReadPos \in Nat /\ ReadPos < MessageLen
         /\ PutPos \in Nat /\ PutPos <= MessageLen
         /\ SentPos \in Nat /\ MessageLen \in Nat
<1>1. /\ Len(fifo) \in Nat /\ Len(line) \in Nat
      /\ DOMAIN fifo = 1 .. Len(fifo) /\ DOMAIN line = 1 .. Len(line)
  BY DEF Lossless, TypeOK
<1>2. MessageLen \in Nat /\ ReadPos \in Nat /\ ReadPos < MessageLen
  BY LengthsAssumption DEF Lossless, TypeOK, InStepLoops, ReadPos, MessageLen
<1>3. PutPos \in Nat /\ PutPos <= MessageLen
  BY LengthsAssumption DEF Lossless, TypeOK, InStepLoops, PutPos, MessageLen
<1>4. SentPos \in Nat
  BY <1>2, <1>3 DEF SentPos
<1> QED  BY <1>1, <1>2, <1>3, <1>4

LEMMA GapIsShort ==
  ASSUME Lossless, started # received, Settled > 0
  PROVE  Settled \in Nat /\ HdrLen + Settled - ReadPos < AckEvery
<1>1. Settled \in Nat /\ Settled - 1 \in Nat
  BY LengthsAssumption DEF Lossless, TypeOK, Settled
<1>2. (Settled - 1) % AckEvery \in Nat /\ (Settled - 1) % AckEvery < AckEvery
  BY <1>1, Remainders
<1>3. HdrLen + Settled - ReadPos <= (Settled - 1) % AckEvery
  BY DEF Lossless, AcksSettled
<1> QED  BY <1>1, <1>2, <1>3, LengthTypes, LengthsAssumption

(* Never more than a header and one stretch between two acknowledgements   *)
(* is under way.                                                           *)
LEMMA RoomInFifo ==
  ASSUME Lossless, line # <<>>
  PROVE  Len(fifo) < FifoCap
<1> USE LengthsAssumption
<1>1. /\ Len(fifo) \in Nat /\ Len(line) \in Nat /\ ReadPos \in Nat
      /\ Len(line) > 0
  BY LengthTypes DEF Lossless, TypeOK
<1>2. ReadPos + Len(fifo) + Len(line) = SentPos
  BY DEF Lossless, InTransit
<1>3. SentPos - ReadPos <= HdrLen + AckEvery
  <2>1. CASE started = received
    BY <2>1, <1>1 DEF SentPos, PutPos, Lossless, InStepLoops, TypeOK
  <2>2. CASE started = received + 1 /\ (Settled = 0 \/ sPc = "hdr")
    BY <2>2, <1>1 DEF SentPos, PutPos, Settled, Lossless, TypeOK
  <2>3. CASE started = received + 1 /\ Settled > 0
    <3>1. HdrLen + Settled - ReadPos < AckEvery
      BY <2>3, GapIsShort DEF Lossless, TypeOK
    <3> QED  BY <2>3, <3>1, <1>1 DEF SentPos, PutPos, Settled, Lossless, TypeOK, MessageLen
  <2>4. CASE started = received + 2
    <3>1. HdrLen + MsgLen - ReadPos < AckEvery
      BY <2>4, GapIsShort DEF Lossless, TypeOK, Settled
    <3>2. PutPos <= HdrLen + 1
      BY <2>4 DEF PutPos, Lossless, InStepLoops, TypeOK
    <3>3. SentPos = HdrLen + MsgLen + PutPos /\ PutPos \in Nat
      <4>1. sPc # "idle" /\ started # received /\ PutPos \in Nat
        BY <2>4, LengthTypes DEF Lossless, InStepLoops, TypeOK
      <4> QED  BY <2>4, <4>1 DEF SentPos, MessageLen
    <3> QED  BY <3>1, <3>2, <3>3, <1>1
  <2> QED
    BY <2>1, <2>2, <2>3, <2>4 DEF Lossless, InStepLoops, Settled, TypeOK
<1> QED  BY <1>1, <1>2, <1>3, FifoAssumption

LEMMA LinkInit == Init => LinkInv
  BY LengthsAssumption
  DEF Init, LinkInv, InStepLoops, InTransit, AcksSettled, ReadPos, SentPos, PutPos,
      Settled, ByteAt

-----------------------------------------------------------------------------
(* What each action has to keep.                                           *)
Kept == overruns' = 0 /\ intact' /\ InStepLoops' /\ InTransit' /\ AcksSettled'

LEMMA StartSendKeeps == Lossless /\ TypeOK' /\ StartSend => Kept
<1> SUFFICES ASSUME Lossless, TypeOK', StartSend PROVE Kept
  OBVIOUS
<1> USE LengthsAssumption
<1>1. /\ sPc = "idle" /\ sPc' = "hdr" /\ sI' = 0 /\ started' = started + 1
      /\ UNCHANGED <<line, fifo, acks, rPc, rI, intact, received, overruns>>
  BY DEF StartSend, reader
<1>2. InStepLoops'
  BY <1>1 DEF Lossless, InStepLoops, TypeOK
<1>3. ReadPos' = ReadPos /\ SentPos' = SentPos
  BY <1>1 DEF ReadPos, SentPos, PutPos, MessageLen, Lossless, InStepLoops, TypeOK
<1>4. InTransit'
  BY <1>1, <1>3 DEF Lossless, InTransit, ByteAt, MessageLen
<1>5. AcksSettled'
  BY <1>1, <1>3 DEF Lossless, InStepLoops, AcksSettled, Settled, TypeOK
<1> QED  BY <1>1, <1>2, <1>4, <1>5 DEF Kept, Lossless

LEMMA PutHeaderKeeps == Lossless /\ TypeOK' /\ PutHeader => Kept
<1> SUFFICES ASSUME Lossless, TypeOK', PutHeader PROVE Kept
  OBVIOUS
<1> USE LengthsAssumption
<1>1. /\ sPc = "hdr" /\ line' = Append(line, sI)
      /\ \/ sPc' = "hdr" /\ sI' = sI + 1
         \/ sPc' = "put" /\ sI' = 0 /\ sI + 1 = HdrLen
      /\ UNCHANGED <<started, fifo, acks, rPc, rI, intact, received, overruns>>
  BY DEF PutHeader, reader, Lossless, TypeOK
<1>t. /\ Len(line) \in Nat /\ Len(fifo) \in Nat /\ ReadPos \in Nat
      /\ DOMAIN line = 1 .. Len(line)
      /\ Len(line') = Len(line) + 1 /\ DOMAIN line' = 1 .. Len(line) + 1
      /\ line'[Len(line) + 1] = sI
      /\ \A k \in 1 .. Len(line) : line'[k] = line[k]
  BY <1>1, LengthTypes DEF Lossless, TypeOK
<1>2. InStepLoops'
  BY <1>1 DEF Lossless, InStepLoops, TypeOK
<1>m. MessageLen \in Nat /\ MessageLen' = MessageLen /\ HdrLen < MessageLen
  BY DEF MessageLen
<1>p. /\ started \in {received + 1, received + 2} /\ started' = started
      /\ received' = received /\ received \in Nat
      /\ PutPos = sI /\ PutPos' = sI + 1 /\ sI < HdrLen
  <2>1. /\ started \in {received + 1, received + 2} /\ started' = started
        /\ received' = received /\ received \in Nat /\ sI \in Nat /\ sI < HdrLen
    BY <1>1 DEF Lossless, InStepLoops, TypeOK
  <2>2. PutPos = sI
    BY <1>1 DEF PutPos
  <2>3. CASE sPc' = "hdr"
    BY <1>1, <2>1, <2>2, <2>3 DEF PutPos
  <2>4. CASE sPc' = "put"
    BY <1>1, <2>1, <2>2, <2>4 DEF PutPos
  <2> QED  BY <1>1, <2>1, <2>2, <2>3, <2>4
<1>3. ReadPos' = ReadPos /\ SentPos' = SentPos + 1 /\ ByteAt(SentPos) = sI
  <2>1. ReadPos' = ReadPos
    BY <1>1 DEF ReadPos
  <2>2. sPc # "idle" /\ sPc' # "idle" /\ sI \in Nat
    BY <1>1 DEF Lossless, TypeOK
  <2>3. CASE started = received + 1
    BY <1>m, <1>p, <2>1, <2>2, <2>3 DEF SentPos, ByteAt
  <2>4. CASE started = received + 2
    BY <1>m, <1>p, <2>1, <2>2, <2>4 DEF SentPos, ByteAt
  <2> QED  BY <1>p, <2>3, <2>4
<1>4. InTransit'
  <2>1. \A k \in 1 .. Len(line) + 1 : line'[k] = ByteAt(ReadPos + Len(fifo) + k - 1)
    <3>1. ReadPos + Len(fifo) + (Len(line) + 1) - 1 = SentPos
      BY <1>t DEF Lossless, InTransit
    <3>2. \A k \in 1 .. Len(line) + 1 : k \in 1 .. Len(line) \/ k = Len(line) + 1
      BY <1>t
    <3> QED  BY <1>t, <1>3, <3>1, <3>2 DEF Lossless, InTransit
  <2> QED  BY <1>1, <1>t, <1>3, <2>1 DEF Lossless, InTransit, ByteAt, MessageLen
<1>5. AcksSettled'
  BY <1>1, <1>3 DEF Lossless, InStepLoops, AcksSettled, Settled, TypeOK
<1> QED  BY <1>1, <1>2, <1>4, <1>5 DEF Kept, Lossless

LEMMA PutByteKeeps == Lossless /\ TypeOK' /\ PutByte => Kept
<1> SUFFICES ASSUME Lossless, TypeOK', PutByte PROVE Kept
  OBVIOUS
<1> USE LengthsAssumption
<1>1. /\ sPc = "put" /\ line = <<>> /\ line' = <<HdrLen + sI>>
      /\ \/ sPc' = "get" /\ sI' = sI /\ sI % AckEvery = 0
         \/ sPc' = "put" /\ sI' = sI + 1 /\ sI % AckEvery # 0
         \/ sPc' = "idle" /\ sI' = 0 /\ sI + 1 = MsgLen /\ sI % AckEvery # 0
      /\ UNCHANGED <<started, fifo, acks, rPc, rI, intact, received, overruns>>
  BY DEF PutByte, AfterByte, reader, Lossless, TypeOK
<1>t. /\ Len(line) = 0 /\ Len(fifo) \in Nat /\ ReadPos \in Nat
      /\ Len(line') = 1 /\ DOMAIN line' = {1} /\ line'[1] = HdrLen + sI
  BY <1>1, LengthTypes
<1>0. 0 % AckEvery = 0
  <2>1. 0 % AckEvery \in Nat /\ 0 % AckEvery = AckEvery * 0 + (0 % AckEvery)
    BY Remainders
  <2>2. AckEvery * 0 + 0 = 0 /\ (AckEvery * 0 + 0) % AckEvery = 0
    BY ModUnique
  <2> QED  BY <2>2
<1>m. MessageLen \in Nat /\ MessageLen' = MessageLen /\ MessageLen = HdrLen + MsgLen
  BY DEF MessageLen
<1>p. /\ started \in {received + 1, received + 2} /\ started' = started
      /\ received' = received /\ received \in Nat /\ sI \in Nat /\ sI < MsgLen
      /\ started = received + 2 => sI = 0
  BY <1>1 DEF Lossless, InStepLoops, TypeOK
<1>q. started = received + 2 => sPc' = "get" /\ sI' = 0
  BY <1>0, <1>1, <1>p
<1>2. InStepLoops'
  <2>1. sPc' = "get" => sI' % AckEvery = 0
    BY <1>1
  <2>2. rPc' = "main" => rI' = 0
    BY <1>1 DEF Lossless, InStepLoops
  <2>3. sPc' = "idle" => sI' = 0
    BY <1>1
  <2> QED  BY <1>p, <1>q, <2>1, <2>2, <2>3 DEF InStepLoops
<1>3. ReadPos' = ReadPos /\ SentPos' = SentPos + 1 /\ ByteAt(SentPos) = HdrLen + sI
  <2>1. ReadPos' = ReadPos
    BY <1>1 DEF ReadPos
  <2>2. PutPos = HdrLen + sI
    BY <1>1, <1>p DEF PutPos
  <2>3. CASE started = received + 1
    <3>1. SentPos = HdrLen + sI
      BY <1>1, <1>p, <2>2, <2>3 DEF SentPos
    <3>2. SentPos' = HdrLen + sI + 1
      BY <1>1, <1>m, <1>p, <2>3 DEF SentPos, PutPos
    <3> QED  BY <1>m, <1>p, <2>1, <3>1, <3>2 DEF ByteAt
  <2>4. CASE started = received + 2
    <3>1. SentPos = MessageLen + HdrLen + sI
      BY <1>1, <1>m, <1>p, <2>2, <2>4 DEF SentPos
    <3>2. SentPos' = MessageLen + HdrLen + sI + 1
      BY <1>1, <1>m, <1>p, <1>q, <2>4 DEF SentPos, PutPos
    <3> QED  BY <1>m, <1>p, <2>1, <3>1, <3>2 DEF ByteAt
  <2> QED  BY <1>p, <2>3, <2>4
<1>4. InTransit'
  BY <1>1, <1>t, <1>3 DEF Lossless, InTransit, ByteAt, MessageLen
<1>5. AcksSettled'
  <2>1. CASE sI % AckEvery = 0
    BY <1>1, <1>3, <2>1 DEF Lossless, InStepLoops, AcksSettled, Settled, TypeOK
  <2>2. CASE sI % AckEvery # 0
    <3>1. sI > 0 /\ sI - 1 \in Nat /\ started = received + 1 /\ acks = 0
      BY <1>0, <1>1, <2>2 DEF Lossless, InStepLoops, AcksSettled, TypeOK
    <3>2. (sI - 1) % AckEvery = (sI % AckEvery) - 1
      <4>1. sI % AckEvery \in Nat /\ sI \in Nat
        BY Remainders DEF Lossless, TypeOK
      <4>2. sI - 1 <= sI /\ sI - (sI - 1) = 1 /\ 1 <= sI % AckEvery
        BY <2>2, <3>1, <4>1
      <4> QED  BY <3>1, <4>1, <4>2, Remainders
    <3>3. HdrLen + sI - ReadPos <= (sI - 1) % AckEvery
      BY <1>1, <3>1 DEF Lossless, InStepLoops, AcksSettled, Settled, TypeOK
    <3>4. HdrLen + (sI + 1) - ReadPos <= sI % AckEvery
      BY <1>t, <3>1, <3>2, <3>3, Remainders DEF Lossless, TypeOK
    <3>5. Settled' = sI + 1 /\ (sI + 1) - 1 = sI
      BY <1>1, <2>2, <3>1 DEF Settled, Lossless, TypeOK
    <3> QED  BY <1>1, <1>3, <2>2, <3>1, <3>4, <3>5 DEF AcksSettled
  <2> QED  BY <2>1, <2>2
<1> QED  BY <1>1, <1>2, <1>4, <1>5 DEF Kept, Lossless

LEMMA GetAckKeeps == Lossless /\ TypeOK' /\ GetAck => Kept
<1> SUFFICES ASSUME Lossless, TypeOK', GetAck PROVE Kept
  OBVIOUS
<1> USE LengthsAssumption
<1>1. /\ sPc = "get" /\ acks > 0 /\ acks' = acks - 1 /\ sI \in Nat /\ sI < MsgLen
      /\ \/ sPc' = "put" /\ sI' = sI + 1 /\ sI + 1 < MsgLen
         \/ sPc' = "idle" /\ sI' = 0 /\ sI + 1 = MsgLen
      /\ UNCHANGED <<started, line, fifo, rPc, rI, intact, received, overruns>>
  BY DEF GetAck, AfterByte, reader, Lossless, TypeOK
<1>2. /\ acks = 1 /\ acks' = 0 /\ started \in Nat /\ received \in Nat
      /\ started \in {received, received + 1}
      /\ started = received + 1 => ReadPos > HdrLen + sI
      /\ started = received => rPc = "main" /\ sI + 1 = MsgLen
  BY <1>1 DEF Lossless, AcksSettled, InStepLoops, TypeOK
<1>m. MessageLen \in Nat /\ MessageLen' = MessageLen /\ MessageLen = HdrLen + MsgLen
  BY DEF MessageLen
<1>3. InStepLoops'
  BY <1>1, <1>2 DEF Lossless, InStepLoops
<1>4. ReadPos' = ReadPos /\ ReadPos \in Nat
  BY <1>1, LengthTypes DEF ReadPos
<1>5. SentPos' = SentPos
  <2>1. CASE started = received
    BY <1>1, <2>1 DEF SentPos
  <2>2. CASE started = received + 1
    <3>1. SentPos = HdrLen + sI + 1
      BY <1>1, <1>2, <2>2 DEF SentPos, PutPos
    <3>2. CASE sPc' = "put"
      BY <1>1, <1>2, <2>2, <3>1, <3>2 DEF SentPos, PutPos
    <3>3. CASE sPc' = "idle"
      BY <1>1, <1>2, <1>m, <2>2, <3>1, <3>3 DEF SentPos
    <3> QED  BY <1>1, <3>2, <3>3
  <2> QED  BY <1>2, <2>1, <2>2
<1>6. InTransit'
  BY <1>1, <1>4, <1>5 DEF Lossless, InTransit, ByteAt, MessageLen
<1>7. AcksSettled'
  <2>1. CASE started = received
    BY <1>1, <1>2, <2>1 DEF AcksSettled
  <2>2. CASE started = received + 1
    <3>1. Settled' = sI + 1
      BY <1>1, <1>2, <2>2 DEF Settled
    <3>2. HdrLen + (sI + 1) - ReadPos <= 0 /\ 0 <= sI % AckEvery /\ sI + 1 - 1 = sI
      BY <1>1, <1>2, <1>4, <2>2, Remainders
    <3>3. HdrLen + (sI + 1) - ReadPos <= sI % AckEvery
      BY <1>1, <1>4, <3>2, Remainders
    <3> QED  BY <1>1, <1>2, <1>4, <3>1, <3>2, <3>3 DEF AcksSettled
  <2> QED  BY <1>2, <2>1, <2>2
<1> QED  BY <1>1, <1>3, <1>6, <1>7 DEF Kept, Lossless

LEMMA ArriveKeeps == Lossless /\ TypeOK' /\ Arrive => Kept
<1> SUFFICES ASSUME Lossless, TypeOK', Arrive PROVE Kept
  OBVIOUS
<1> USE LengthsAssumption
<1>1. /\ line # <<>> /\ line' = Tail(line) /\ fifo' = Append(fifo, Head(line))
      /\ UNCHANGED <<sPc, sI, started, rPc, rI, intact, received, acks, overruns>>
  BY RoomInFifo DEF Arrive, sender, reader
<1>t. /\ Len(line) \in Nat /\ Len(line) > 0 /\ Len(fifo) \in Nat /\ ReadPos \in Nat
      /\ DOMAIN line = 1 .. Len(line) /\ DOMAIN fifo = 1 .. Len(fifo)
      /\ Len(line') = Len(line) - 1 /\ DOMAIN line' = 1 .. Len(line) - 1
      /\ Len(fifo') = Len(fifo) + 1 /\ DOMAIN fifo' = 1 .. Len(fifo) + 1
      /\ \A k \in 1 .. Len(line) - 1 : line'[k] = line[k + 1]
      /\ \A k \in 1 .. Len(fifo) : fifo'[k] = fifo[k]
      /\ fifo'[Len(fifo) + 1] = line[1]
  BY <1>1, LengthTypes DEF Lossless, TypeOK
<1>2. InStepLoops'
  BY <1>1 DEF Lossless, InStepLoops
<1>3. ReadPos' = ReadPos /\ SentPos' = SentPos /\ Settled' = Settled
  BY <1>1 DEF ReadPos, SentPos, PutPos, Settled, MessageLen
<1>4. InTransit'
  <2>1. \A k \in 1 .. Len(fifo) + 1 : fifo'[k] = ByteAt(ReadPos + k - 1)
    <3>1. \A k \in 1 .. Len(fifo) + 1 : k \in 1 .. Len(fifo) \/ k = Len(fifo) + 1
      BY <1>t
    <3>2. line[1] = ByteAt(ReadPos + Len(fifo) + 1 - 1)
      BY <1>t DEF Lossless, InTransit
    <3>3. ReadPos + (Len(fifo) + 1) - 1 = ReadPos + Len(fifo) + 1 - 1
      BY <1>t
    <3> QED  BY <1>t, <3>1, <3>2, <3>3 DEF Lossless, InTransit
  <2>2. ASSUME NEW k \in 1 .. Len(line) - 1
        PROVE  line'[k] = ByteAt(ReadPos + (Len(fifo) + 1) + k - 1)
    <3>1. k + 1 \in 1 .. Len(line)
      BY <1>t
    <3>2. ReadPos + Len(fifo) + (k + 1) - 1 = ReadPos + (Len(fifo) + 1) + k - 1
      BY <1>t
    <3> QED  BY <1>t, <3>1, <3>2 DEF Lossless, InTransit
  <2>3. ReadPos + (Len(fifo) + 1) + (Len(line) - 1) = SentPos
    BY <1>t DEF Lossless, InTransit
  <2> QED  BY <1>t, <1>3, <2>1, <2>2, <2>3 DEF InTransit, ByteAt, MessageLen
<1>5. AcksSettled'
  BY <1>1, <1>3 DEF Lossless, AcksSettled
<1> QED  BY <1>1, <1>2, <1>4, <1>5 DEF Kept, Lossless

LEMMA PollKeeps == Lossless /\ TypeOK' /\ Poll => Kept
<1> SUFFICES ASSUME Lossless, TypeOK', Poll PROVE Kept
  OBVIOUS
<1>1. /\ rPc = "main" /\ rPc' = "hdr" /\ rI' = 0 /\ fifo # <<>>
      /\ UNCHANGED <<sPc, sI, started, line, fifo, acks, intact, received, overruns>>
  BY DEF Poll, sender
<1>2. /\ Len(fifo) \in Nat /\ Len(fifo) > 0 /\ Len(line) \in Nat
  BY <1>1, LengthTypes DEF Lossless, TypeOK
<1>3. rI = 0 /\ ReadPos = 0 /\ ReadPos' = 0
  BY <1>1 DEF Lossless, InStepLoops, ReadPos
<1>4. started # received
  BY <1>2, <1>3 DEF Lossless, InTransit, SentPos
<1>5. InStepLoops'
  BY <1>1, <1>4 DEF Lossless, InStepLoops
<1>6. SentPos' = SentPos /\ Settled' = Settled
  BY <1>1 DEF SentPos, PutPos, Settled, MessageLen
<1>7. InTransit'
  BY <1>1, <1>3, <1>6 DEF Lossless, InTransit, ByteAt, MessageLen
<1>8. AcksSettled'
  BY <1>1, <1>3, <1>6 DEF Lossless, AcksSettled
<1> QED  BY <1>1, <1>5, <1>7, <1>8 DEF Kept, Lossless

(* What the reader takes out of its FIFO is the next byte of the message.  *)
LEMMA HeadIsNext ==
  ASSUME Lossless, rPc # "main", fifo # <<>>
  PROVE  /\ Head(fifo) = ReadPos /\ ReadPos \in Nat
         /\ Len(fifo) \in Nat /\ Len(fifo) > 0 /\ Len(line) \in Nat
         /\ Len(Tail(fifo)) = Len(fifo) - 1
         /\ DOMAIN Tail(fifo) = 1 .. Len(fifo) - 1
         /\ DOMAIN line = 1 .. Len(line)
         /\ \A k \in 1 .. Len(fifo) - 1 : Tail(fifo)[k] = fifo[k + 1]
         /\ started \in {received + 1, received + 2}
<1>1. /\ Len(fifo) \in Nat /\ Len(fifo) > 0 /\ Len(line) \in Nat
      /\ DOMAIN fifo = 1 .. Len(fifo) /\ DOMAIN line = 1 .. Len(line)
      /\ Len(Tail(fifo)) = Len(fifo) - 1
      /\ DOMAIN Tail(fifo) = 1 .. Len(fifo) - 1
      /\ \A k \in 1 .. Len(fifo) - 1 : Tail(fifo)[k] = fifo[k + 1]
      /\ Head(fifo) = fifo[1]
  BY LengthTypes DEF Lossless, TypeOK
<1>2. ReadPos \in Nat /\ ReadPos < MessageLen
  BY LengthTypes
<1>3. fifo[1] = ByteAt(ReadPos + 1 - 1) /\ ReadPos + 1 - 1 = ReadPos
  BY <1>1, <1>2 DEF Lossless, InTransit
<1>4. Head(fifo) = ReadPos
  BY <1>1, <1>2, <1>3 DEF ByteAt
<1>5. started \in {received + 1, received + 2}
  BY DEF Lossless, InStepLoops, TypeOK
<1> QED  BY <1>1, <1>2, <1>4, <1>5

(* The reader took a byte and is still in the same message.                *)
LEMMA NextByteInTransit ==
  ASSUME Lossless, rPc # "main", fifo # <<>>, fifo' = Tail(fifo), line' = line,
         ReadPos' = ReadPos + 1, SentPos' = SentPos
  PROVE  InTransit'
<1>1. \A k \in 1 .. Len(fifo) - 1 : fifo'[k] = ByteAt((ReadPos + 1) + k - 1)
  <2> SUFFICES ASSUME NEW k \in 1 .. Len(fifo) - 1
               PROVE  Tail(fifo)[k] = ByteAt((ReadPos + 1) + k - 1)
    OBVIOUS
  <2>1. k + 1 \in 1 .. Len(fifo) /\ ReadPos + (k + 1) - 1 = (ReadPos + 1) + k - 1
    BY HeadIsNext
  <2> QED  BY <2>1, HeadIsNext, LengthTypes DEF Lossless, InTransit
<1>2. \A k \in 1 .. Len(line) :
         line[k] = ByteAt((ReadPos + 1) + (Len(fifo) - 1) + k - 1)
  <2> SUFFICES ASSUME NEW k \in 1 .. Len(line)
               PROVE  line[k] = ByteAt((ReadPos + 1) + (Len(fifo) - 1) + k - 1)
    OBVIOUS
  <2>1. (ReadPos + 1) + (Len(fifo) - 1) + k - 1 = ReadPos + Len(fifo) + k - 1
    BY HeadIsNext
  <2> QED  BY <2>1, HeadIsNext DEF Lossless, InTransit
<1>3. (ReadPos + 1) + (Len(fifo) - 1) + Len(line) = SentPos
  BY HeadIsNext DEF Lossless, InTransit
<1> QED  BY <1>1, <1>2, <1>3, HeadIsNext DEF InTransit, ByteAt, MessageLen

LEMMA ReadHeaderKeeps == Lossless /\ TypeOK' /\ ReadHeader => Kept
<1> SUFFICES ASSUME Lossless, TypeOK', ReadHeader PROVE Kept
  OBVIOUS
<1> USE LengthsAssumption
<1>1. /\ rPc = "hdr" /\ fifo # <<>> /\ fifo' = Tail(fifo)
      /\ UNCHANGED <<sPc, sI, started, line, acks, intact, received, overruns>>
  BY DEF ReadHeader, sender
<1>2. ReadPos = rI /\ Head(fifo) = rI /\ rI < HdrLen /\ rI \in Nat
  BY <1>1, HeadIsNext DEF ReadPos, Lossless, TypeOK
<1>3. IsMagic(Head(fifo), rI) = {TRUE}
  BY <1>2 DEF IsMagic
<1>4. \/ rPc' = "hdr" /\ rI' = rI + 1
      \/ rI + 1 = HdrLen /\ rPc' = "body" /\ rI' = 0
  BY <1>3 DEF ReadHeader
<1>5. ReadPos' = ReadPos + 1
  BY <1>2, <1>4 DEF ReadPos
<1>6. SentPos' = SentPos /\ Settled' = Settled /\ Settled \in Int
  BY <1>1 DEF SentPos, PutPos, Settled, MessageLen, Lossless, TypeOK
<1>7. InStepLoops'
  BY <1>1, <1>4, HeadIsNext DEF Lossless, InStepLoops, TypeOK
<1>8. InTransit'
  BY <1>1, <1>5, <1>6, NextByteInTransit
<1>9. AcksSettled'
  <2>1. ASSUME started # received, Settled > 0
        PROVE  HdrLen + Settled - (ReadPos + 1) <= (Settled - 1) % AckEvery
    <3>1. /\ HdrLen + Settled - ReadPos <= (Settled - 1) % AckEvery
          /\ Settled - 1 \in Nat
      BY <1>6, <2>1 DEF Lossless, AcksSettled
    <3> QED  BY <1>2, <1>6, <3>1, Remainders
  <2>2. acks = 1 => ReadPos + 1 > HdrLen + sI \/ started = received
    BY <1>2 DEF Lossless, AcksSettled, TypeOK
  <2> QED  BY <1>1, <1>5, <1>6, <2>1, <2>2 DEF Lossless, AcksSettled
<1> QED  BY <1>1, <1>7, <1>8, <1>9 DEF Kept, Lossless

(* Without noise the header loop never times out.                          *)
LEMMA HeaderTimeoutKeeps == Lossless /\ TypeOK' /\ HeaderTimeout => Kept
<1> SUFFICES ASSUME Lossless, HeaderTimeout PROVE FALSE
  OBVIOUS
<1> USE LengthsAssumption
<1>1. /\ rPc = "hdr" /\ Len(fifo) = 0 /\ Len(line) = 0 /\ sPc \in {"idle", "get"}
      /\ rI \in Nat /\ rI < HdrLen /\ sI \in Nat
  BY DEF HeaderTimeout, Lossless, TypeOK
<1>2. SentPos = rI
  BY <1>1 DEF Lossless, InTransit, ReadPos
<1>3. started \in {received + 1, received + 2} /\ received \in Nat
  BY <1>1 DEF Lossless, InStepLoops, TypeOK
<1> QED  BY <1>1, <1>2, <1>3 DEF SentPos, PutPos, MessageLen

(* The reader reaches a byte it acknowledges only when the sender waits    *)
(* for that acknowledgement.                                               *)
LEMMA AckIsWanted ==
  ASSUME Lossless, rPc = "body", fifo # <<>>, rI % AckEvery = 0
  PROVE  sPc = "get" /\ sI = rI /\ acks = 0 /\ started = received + 1
<1> USE LengthsAssumption
<1>1. /\ ReadPos = HdrLen + rI /\ rI \in Nat /\ rI < MsgLen
      /\ sI \in Nat /\ received \in Nat
      /\ started \in {received + 1, received + 2}
  BY HeadIsNext DEF ReadPos, Lossless, TypeOK
<1>2. SentPos \in Nat /\ ReadPos < SentPos
  <2>1. /\ Len(fifo) \in Nat /\ Len(fifo) > 0 /\ Len(line) \in Nat
        /\ SentPos \in Nat /\ ReadPos \in Nat
    BY HeadIsNext, LengthTypes
  <2> QED  BY <2>1 DEF Lossless, InTransit
<1>3. Settled \in Nat
  BY DEF Settled, Lossless, TypeOK
<1>4. ~(rI < Settled)
  <2> SUFFICES ASSUME rI < Settled PROVE FALSE
    OBVIOUS
  <2> DEFINE s == Settled - 1
             r == s % AckEvery
  <2>1. s \in Nat /\ rI <= s
    BY <1>1, <1>3
  <2>2. r \in Nat
    BY <2>1, Remainders
  <2>3. HdrLen + Settled - ReadPos <= r
    BY <1>1, <1>3 DEF Lossless, AcksSettled
  <2>4. s - rI <= r /\ s - rI # r
    BY <1>1, <1>3, <2>1, <2>2, <2>3
  <2>5. rI % AckEvery = r - (s - rI)
    BY <1>1, <2>1, <2>4, Remainders
  <2> HIDE DEF s, r
  <2> QED  BY <1>1, <2>1, <2>2, <2>4, <2>5
<1>5. started = received + 1 /\ sPc # "idle" /\ sPc # "hdr" /\ Settled = sI
  <2>1. Settled # MsgLen
    BY <1>1, <1>4
  <2>2. started = received + 1 /\ sPc # "idle"
    BY <1>1, <2>1 DEF Settled
  <2>3. sPc # "hdr"
    <3> SUFFICES ASSUME sPc = "hdr" PROVE FALSE
      OBVIOUS
    <3>1. SentPos = sI /\ sI < HdrLen
      BY <1>1, <2>2 DEF SentPos, PutPos, Lossless, TypeOK
    <3> QED  BY <1>1, <1>2, <3>1
  <2> QED  BY <2>2, <2>3 DEF Settled
<1>6. sPc = "get" /\ sI = rI
  <2>1. CASE sPc = "put"
    <3>1. SentPos = HdrLen + sI
      BY <1>1, <1>5, <2>1 DEF SentPos, PutPos
    <3> QED  BY <1>1, <1>2, <1>4, <1>5, <3>1
  <2>2. CASE sPc = "get"
    <3>1. SentPos = HdrLen + sI + 1
      BY <1>1, <1>5, <2>2 DEF SentPos, PutPos
    <3> QED  BY <1>1, <1>2, <1>4, <1>5, <2>2, <3>1
  <2> QED  BY <1>5, <2>1, <2>2 DEF Lossless, TypeOK
<1>7. acks = 0
  BY <1>1, <1>5, <1>6 DEF Lossless, AcksSettled
<1> QED  BY <1>5, <1>6, <1>7

LEMMA ReadBodyKeeps == Lossless /\ TypeOK' /\ ReadBody => Kept
<1> SUFFICES ASSUME Lossless, TypeOK', ReadBody PROVE Kept
  OBVIOUS
<1> USE LengthsAssumption
<1>1. /\ rPc = "body" /\ fifo # <<>> /\ fifo' = Tail(fifo)
      /\ intact' = (intact /\ Head(fifo) = HdrLen + rI)
      /\ acks' = IF rI % AckEvery = 0 THEN acks + 1 ELSE acks
      /\ UNCHANGED <<sPc, sI, started, line, overruns>>
  BY DEF ReadBody, StoreByte, AckWhen, sender
<1>2. /\ ReadPos = HdrLen + rI /\ Head(fifo) = HdrLen + rI
      /\ rI \in Nat /\ rI < MsgLen /\ sI \in Nat /\ received \in Nat
      /\ started \in {received + 1, received + 2}
      /\ Len(fifo) \in Nat /\ Len(fifo) > 0 /\ Len(line) \in Nat
  BY <1>1, HeadIsNext DEF ReadPos, Lossless, TypeOK
<1>3. intact' /\ overruns' = 0
  BY <1>1, <1>2 DEF Lossless
<1>4. /\ acks' \in {0, 1}
      /\ acks' = 1 => /\ sPc = "get" /\ started = received + 1
                      /\ ReadPos + 1 > HdrLen + sI
  <2>1. CASE rI % AckEvery = 0
    <3>1. acks' = 1 /\ sPc = "get" /\ sI = rI /\ started = received + 1
      BY <1>1, <2>1, AckIsWanted
    <3> QED  BY <1>2, <3>1
  <2>2. CASE rI % AckEvery # 0
    BY <1>1, <1>2, <2>2 DEF Lossless, AcksSettled
  <2> QED  BY <2>1, <2>2
<1>5. CASE rI + 1 < MsgLen
  <2>1. rPc' = "body" /\ rI' = rI + 1 /\ received' = received
    BY <1>5 DEF ReadBody, LoopWhile
  <2>2. ReadPos' = ReadPos + 1
    BY <1>2, <2>1 DEF ReadPos
  <2>3. SentPos' = SentPos /\ Settled' = Settled /\ Settled \in Int
    BY <1>1, <2>1 DEF SentPos, PutPos, Settled, MessageLen, Lossless, TypeOK
  <2>4. InStepLoops'
    BY <1>1, <1>2, <2>1 DEF Lossless, InStepLoops
  <2>5. InTransit'
    BY <1>1, <2>2, <2>3, NextByteInTransit
  <2>6. ASSUME started # received, Settled > 0
        PROVE  HdrLen + Settled - (ReadPos + 1) <= (Settled - 1) % AckEvery
    <3>1. /\ HdrLen + Settled - ReadPos <= (Settled - 1) % AckEvery
          /\ Settled - 1 \in Nat
      BY <2>3, <2>6 DEF Lossless, AcksSettled
    <3> QED  BY <1>2, <2>3, <3>1, Remainders
  <2>7. AcksSettled'
    BY <1>1, <1>2, <1>4, <2>1, <2>2, <2>3, <2>6 DEF AcksSettled
  <2> QED  BY <1>3, <2>4, <2>5, <2>7 DEF Kept
<1>6. CASE rI + 1 = MsgLen
  <2>1. rPc' = "main" /\ rI' = 0 /\ received' = received + 1
    BY <1>6 DEF ReadBody, LoopWhile
  <2>m. /\ MessageLen \in Nat /\ MessageLen' = MessageLen
        /\ MessageLen = HdrLen + MsgLen /\ ReadPos + 1 = MessageLen
    BY <1>2, <1>6 DEF MessageLen
  <2>2. ReadPos' = 0 /\ PutPos' = PutPos
    BY <1>1, <2>1 DEF ReadPos, PutPos
  <2>3. /\ Len(fifo') = Len(fifo) - 1 /\ DOMAIN fifo' = 1 .. Len(fifo) - 1
        /\ DOMAIN line = 1 .. Len(line)
        /\ \A k \in 1 .. Len(fifo) - 1 : fifo'[k] = fifo[k + 1]
        /\ MessageLen + (Len(fifo) - 1) + Len(line) = SentPos
        /\ PutPos \in Nat /\ PutPos <= MessageLen /\ DOMAIN fifo = 1 .. Len(fifo)
    <3>1. ReadPos + Len(fifo) + Len(line) = SentPos
      BY DEF Lossless, InTransit
    <3> QED  BY <1>1, <1>2, <2>m, <3>1, HeadIsNext, LengthTypes
  <2>4. CASE started = received + 1
    <3>1. sPc # "idle" => SentPos = PutPos
      BY <1>2, <2>3, <2>4 DEF SentPos
    <3>2. sPc = "idle" => SentPos = MessageLen
      BY <1>2, <2>m, <2>4 DEF SentPos
    <3>3. SentPos = MessageLen /\ Len(fifo) = 1 /\ Len(line) = 0
      BY <1>2, <2>m, <2>3, <3>1, <3>2
    <3>4. sPc = "idle" \/ (sPc = "get" /\ sI = MsgLen - 1)
      BY <1>2, <2>m, <3>1, <3>3 DEF PutPos, Lossless, TypeOK
    <3>5. InStepLoops'
      BY <1>1, <1>2, <2>1, <2>4, <3>4 DEF Lossless, InStepLoops
    <3>6. InTransit'
      BY <1>1, <1>2, <2>1, <2>2, <2>3, <2>4, <3>3 DEF InTransit, SentPos
    <3>7. AcksSettled'
      BY <1>1, <1>2, <1>4, <2>1, <2>4 DEF AcksSettled
    <3> QED  BY <1>3, <3>5, <3>6, <3>7 DEF Kept
  <2>5. CASE started = received + 2
    <3>1. sPc # "idle" /\ (sPc = "hdr" \/ sI = 0)
      BY <1>2, <2>5 DEF Lossless, InStepLoops
    <3>2. SentPos = MessageLen + PutPos /\ SentPos' = PutPos
      BY <1>1, <1>2, <2>m, <2>1, <2>2, <2>3, <2>5, <3>1 DEF SentPos
    <3>3. InStepLoops'
      BY <1>1, <1>2, <2>1, <2>5, <3>1 DEF Lossless, InStepLoops
    <3>4. (Len(fifo) - 1) + Len(line) = PutPos
      BY <1>2, <2>m, <2>3, <3>2
    <3>5. ASSUME NEW k \in 1 .. Len(fifo) - 1
          PROVE  fifo'[k] = k - 1
      <4>0. k + 1 \in 1 .. Len(fifo) /\ fifo'[k] = fifo[k + 1]
        BY <1>2, <2>3
      <4>1. fifo'[k] = ByteAt(ReadPos + (k + 1) - 1)
        BY <2>3, <4>0 DEF Lossless, InTransit
      <4>2. ReadPos + (k + 1) - 1 = MessageLen + (k - 1)
        BY <1>2, <2>m
      <4> QED  BY <1>2, <2>m, <4>1, <4>2 DEF ByteAt
    <3>6. ASSUME NEW k \in 1 .. Len(line)
          PROVE  line[k] = Len(fifo) - 1 + k - 1
      <4>1. line[k] = ByteAt(ReadPos + Len(fifo) + k - 1)
        BY <2>3 DEF Lossless, InTransit
      <4>2. ReadPos + Len(fifo) + k - 1 = MessageLen + (Len(fifo) - 1 + k - 1)
        BY <1>2, <2>m
      <4> QED  BY <1>2, <2>m, <4>1, <4>2 DEF ByteAt
    <3>7. InTransit'
      <4>1. \A k \in 1 .. Len(fifo) - 1 : fifo'[k] = (ByteAt(ReadPos + k - 1))'
        BY <1>2, <2>m, <2>2, <2>3, <3>4, <3>5 DEF ByteAt
      <4>2. \A k \in 1 .. Len(line) :
               line[k] = (ByteAt(ReadPos + Len(fifo) + k - 1))'
        BY <1>2, <2>m, <2>2, <2>3, <3>4, <3>6 DEF ByteAt
      <4>3. (ReadPos + Len(fifo) + Len(line))' = SentPos'
        BY <1>1, <1>2, <2>2, <2>3, <3>2, <3>4
      <4>4. DOMAIN line' = 1 .. Len(line) /\ line' = line
        BY <1>1, <2>3
      <4> QED  BY <2>3, <4>1, <4>2, <4>3, <4>4 DEF InTransit
    <3>8. Settled' = 0
      BY <1>1, <1>2, <2>1, <2>5, <3>1 DEF Settled
    <3>9. AcksSettled'
      BY <1>1, <1>2, <1>4, <2>1, <2>5, <3>8 DEF AcksSettled
    <3> QED  BY <1>3, <3>3, <3>7, <3>9 DEF Kept
  <2> QED  BY <1>2, <2>4, <2>5
<1> QED  BY <1>2, <1>5, <1>6

-----------------------------------------------------------------------------
LEMMA LinkStep == TypeOK /\ LinkInv /\ [Next]_vars => LinkInv'
<1> SUFFICES ASSUME TypeOK, LinkInv, [Next]_vars, lost' = 0
             PROVE  Kept
  BY DEF LinkInv, Kept
<1>1. ~Lose
  BY DEF Lose, TypeOK
<1>2. lost = 0
  BY <1>1 DEF Next, Send, Read, StartSend, PutHeader, PutByte, GetAck, Arrive, Poll,
              ReadHeader, HeaderTimeout, ReadBody, StoreByte, vars
<1>3. Lossless /\ TypeOK'
  BY <1>2, TypeStep DEF LinkInv, Lossless
<1>4. CASE UNCHANGED vars
  BY <1>3, <1>4
  DEF vars, Kept, Lossless, InStepLoops, InTransit, AcksSettled, ReadPos, SentPos,
      PutPos, Settled, ByteAt, MessageLen
<1> QED
  BY <1>1, <1>3, <1>4, StartSendKeeps, PutHeaderKeeps, PutByteKeeps, GetAckKeeps,
     ArriveKeeps, PollKeeps, ReadHeaderKeeps, HeaderTimeoutKeeps, ReadBodyKeeps
  DEF Next, Send, Read

(* LinkInv holds in every reachable state.                                 *)
THEOREM LinkInvariance == Spec => []LinkInv
  BY LinkInit, LinkStep, LinkTypeCorrect, PTL DEF Spec

(* Without noise a message is delivered byte for byte and the UART drops   *)
(* nothing: one acknowledgement every AckEvery bytes suffices for a FIFO   *)
(* of HdrLen + AckEvery bytes, whatever the lengths and the speeds.        *)
THEOREM DeliveryIsExact == Spec => []ExactDelivery
<1>1. LinkInv => ExactDelivery
  BY DEF LinkInv, ExactDelivery
<1> QED  BY <1>1, LinkInvariance, PTL

(* Without noise the sender is never more than one message ahead and no    *)
(* acknowledgement is left over when uart_send_message returns.            *)
THEOREM EndsStayInStep == Spec => []InStep
<1>1. TypeOK /\ LinkInv => InStep
  BY DEF TypeOK, LinkInv, InStep, InStepLoops, AcksSettled
<1> QED  BY <1>1, LinkTypeCorrect, LinkInvariance, PTL

-----------------------------------------------------------------------------
(* Where the next acknowledged byte is.                                    *)
LEMMA ModNext ==
  ASSUME NEW a \in Nat \ {0}, NEW i \in Nat
  PROVE  /\ i % a \in 0 .. a - 1
         /\ i % a = 0 => (a - (i % a)) % a = 0
         /\ i % a # 0 => (a - (i % a)) % a = a - (i % a)
         /\ i % a = a - 1 => (i + 1) % a = 0
         /\ i % a # a - 1 => (i + 1) % a = (i % a) + 1
<1> DEFINE q == i \div a
           m == i % a
<1>1. m \in 0 .. a - 1 /\ i = a * q + m /\ q \in Int
  BY ModDivision
<1>2. \A r \in 0 .. a - 1, p \in Int : (a * p + r) % a = r
  BY ModUnique
<1> HIDE DEF q, m
<1>3. a * 0 = 0 /\ a * 1 = a /\ a * (q + 1) = a * q + a /\ a * q \in Int
  BY <1>1
<1>4. m = 0 => (a - m) % a = 0
  <2>1. (a * 1 + 0) % a = 0
    BY <1>2
  <2> QED  BY <1>3, <2>1
<1>5. m # 0 => (a - m) % a = a - m
  <2>1. m # 0 => a - m \in 0 .. a - 1
    BY <1>1
  <2>2. m # 0 => (a * 0 + (a - m)) % a = a - m
    BY <1>2, <2>1
  <2> QED  BY <1>1, <1>3, <2>2
<1>6. m = a - 1 => (i + 1) % a = 0
  <2>1. (a * (q + 1) + 0) % a = 0
    BY <1>1, <1>2
  <2>2. m = a - 1 => i + 1 = a * (q + 1) + 0
    BY <1>1, <1>3
  <2> QED  BY <2>1, <2>2
<1>7. m # a - 1 => (i + 1) % a = m + 1
  <2>1. m # a - 1 => m + 1 \in 0 .. a - 1
    BY <1>1
  <2>2. m # a - 1 => (a * q + (m + 1)) % a = m + 1
    BY <1>1, <1>2, <2>1
  <2>3. i + 1 = a * q + (m + 1)
    BY <1>1, <1>3
  <2> QED  BY <2>2, <2>3
<1>8. m \in 0 .. a - 1
  BY <1>1
<1> QED  BY <1>4, <1>5, <1>6, <1>7, <1>8 DEF m

LEMMA TargetFacts ==
  ASSUME NEW i \in Nat
  PROVE  /\ Target(i) \in Nat /\ i <= Target(i) /\ Target(i) < i + AckEvery
         /\ i % AckEvery = 0 => Target(i) = i
         /\ i % AckEvery # 0 => Target(i) = Target(i + 1)
<1> DEFINE m == i % AckEvery
           d == (AckEvery - m) % AckEvery
           m1 == (i + 1) % AckEvery
           d1 == (AckEvery - m1) % AckEvery
<1>1. AckEvery \in Nat \ {0} /\ i + 1 \in Nat
  BY LengthsAssumption
<1>2. /\ m \in 0 .. AckEvery - 1
      /\ m = 0 => d = 0
      /\ m # 0 => d = AckEvery - m
      /\ m = AckEvery - 1 => m1 = 0
      /\ m # AckEvery - 1 => m1 = m + 1
  BY <1>1, ModNext
<1>3. m1 = 0 => d1 = 0
  BY <1>1, ModNext
<1>4. m1 # 0 => d1 = AckEvery - m1
  BY <1>1, ModNext
<1>5. Target(i) = i + d /\ Target(i + 1) = (i + 1) + d1
  BY DEF Target
<1> HIDE DEF m, d, m1, d1
<1>6. /\ d \in Nat /\ d < AckEvery
      /\ m # 0 => d1 = d - 1
  BY <1>1, <1>2, <1>3, <1>4
<1>7. m = 0 => Target(i) = i
  BY <1>2, <1>5
<1>8. m # 0 => Target(i) = Target(i + 1)
  BY <1>5, <1>6
<1>9. Target(i) \in Nat /\ i <= Target(i) /\ Target(i) < i + AckEvery
  BY <1>1, <1>5, <1>6
<1> QED  BY <1>7, <1>8, <1>9 DEF m

LEMMA UntilFacts ==
  ASSUME NEW i \in Nat, i < MsgLen
  PROVE  /\ UntilAck(i) \in Nat /\ 1 <= UntilAck(i) /\ UntilAck(i) <= HdrLen + AckEvery
         /\ AckedNext(i) \in Nat
         /\ i % AckEvery = 0 => UntilAck(i) = 1 /\ AckedNext(i) = i
         /\ i % AckEvery # 0 /\ i + 1 < MsgLen =>
              UntilAck(i) = UntilAck(i + 1) + 1 /\ AckedNext(i) = AckedNext(i + 1)
         /\ i % AckEvery # 0 /\ i + 1 >= MsgLen =>
              UntilAck(i) = HdrLen + 2 /\ AckedNext(i) = 0
<1>1. HdrLen \in Nat /\ MsgLen \in Nat /\ AckEvery \in Nat /\ i + 1 \in Nat
  BY LengthsAssumption
<1>2. /\ Target(i) \in Nat /\ i <= Target(i) /\ Target(i) < i + AckEvery
      /\ i % AckEvery = 0 => Target(i) = i
      /\ i % AckEvery # 0 => Target(i) = Target(i + 1)
  BY TargetFacts
<1>3. Target(i + 1) \in Nat /\ i + 1 <= Target(i + 1)
  BY <1>1, TargetFacts
<1> DEFINE T == Target(i)
           T1 == Target(i + 1)
           m == i % AckEvery
<1>4. /\ UntilAck(i) = IF T < MsgLen THEN T - i + 1 ELSE (MsgLen - i) + HdrLen + 1
      /\ AckedNext(i) = IF T < MsgLen THEN T ELSE 0
  BY DEF UntilAck, AckedNext
<1>5. /\ UntilAck(i + 1) = IF T1 < MsgLen THEN T1 - (i + 1) + 1
                                         ELSE (MsgLen - (i + 1)) + HdrLen + 1
      /\ AckedNext(i + 1) = IF T1 < MsgLen THEN T1 ELSE 0
  BY DEF UntilAck, AckedNext
<1> HIDE DEF T, T1, m
<1>6. /\ UntilAck(i) \in Nat /\ 1 <= UntilAck(i) /\ UntilAck(i) <= HdrLen + AckEvery
      /\ AckedNext(i) \in Nat
  BY <1>1, <1>2, <1>4 DEF T
<1>7. m = 0 => UntilAck(i) = 1 /\ AckedNext(i) = i
  BY <1>1, <1>2, <1>4 DEF T, m
<1>8. m # 0 => T = T1
  BY <1>2 DEF T, T1, m
<1>9. m # 0 /\ i + 1 < MsgLen =>
        UntilAck(i) = UntilAck(i + 1) + 1 /\ AckedNext(i) = AckedNext(i + 1)
  BY <1>1, <1>2, <1>4, <1>5, <1>8 DEF T
<1>10. m # 0 /\ i + 1 >= MsgLen => UntilAck(i) = HdrLen + 2 /\ AckedNext(i) = 0
  <2>1. m # 0 => T1 \in Nat /\ i + 1 <= T1
    BY <1>3 DEF T1
  <2> QED  BY <1>1, <1>4, <1>8, <2>1
<1> QED  BY <1>6, <1>7, <1>9, <1>10 DEF m

LEMMA UntilZero == UntilAck(0) = 1 /\ AckedNext(0) = 0
<1>1. AckEvery \in Nat \ {0} /\ 0 \in Nat /\ 0 < MsgLen
  BY LengthsAssumption
<1>2. (AckEvery * 0 + 0) % AckEvery = 0
  BY <1>1, ModUnique
<1>3. 0 % AckEvery = 0
  BY <1>1, <1>2
<1> QED  BY <1>1, <1>3, UntilFacts

-----------------------------------------------------------------------------
LEMMA NoiseTypes ==
  ASSUME TypeOK
  PROVE  /\ Len(fifo) \in Nat /\ Len(line) \in Nat /\ OnTheWay \in Nat
         /\ Need \in Nat /\ 1 <= Need /\ Need <= HdrLen + AckEvery
         /\ Togo \in Nat /\ (sPc # "get" => 1 <= Togo) /\ (sPc = "get" => Togo = 0)
         /\ NeedAt \in Nat /\ TogoAt \in Nat
         /\ ReadPos \in Nat /\ Reached \in Nat /\ Reached <= MessageLen
         /\ HdrLen \in Nat /\ 1 <= HdrLen /\ MsgLen \in Nat /\ 1 <= MsgLen
         /\ MessageLen = HdrLen + MsgLen /\ MessageLen \in Nat /\ AckEvery \in Nat /\ 1 <= AckEvery
         /\ received \in Nat /\ started \in Nat
<1>1. Len(fifo) \in Nat /\ Len(line) \in Nat /\ OnTheWay \in Nat
  BY DEF TypeOK, OnTheWay
<1>2. /\ HdrLen \in Nat /\ 1 <= HdrLen /\ MsgLen \in Nat /\ 1 <= MsgLen
      /\ MessageLen = HdrLen + MsgLen /\ MessageLen \in Nat /\ AckEvery \in Nat /\ 1 <= AckEvery
  BY LengthsAssumption DEF MessageLen
<1>3. /\ rPc \in {"main", "hdr", "body"} /\ rI \in Nat
      /\ rPc = "hdr" => rI < HdrLen
      /\ rPc = "body" => rI < MsgLen
      /\ sPc \in {"idle", "hdr", "put", "get"} /\ sI \in Nat
      /\ sPc = "hdr" => sI < HdrLen
      /\ sPc = "put" => sI < MsgLen
      /\ received \in Nat /\ started \in Nat
  BY DEF TypeOK
<1>4. rPc = "body" => /\ UntilAck(rI) \in Nat /\ 1 <= UntilAck(rI)
                      /\ UntilAck(rI) <= HdrLen + AckEvery /\ AckedNext(rI) \in Nat
  BY <1>3, UntilFacts
<1>5. sPc = "put" => UntilAck(sI) \in Nat /\ 1 <= UntilAck(sI) /\ AckedNext(sI) \in Nat
  BY <1>3, UntilFacts
<1>6. Need \in Nat /\ 1 <= Need /\ Need <= HdrLen + AckEvery /\ NeedAt \in Nat
  BY <1>2, <1>3, <1>4 DEF Need, NeedAt
<1>7. /\ Togo \in Nat /\ TogoAt \in Nat
      /\ sPc # "get" => 1 <= Togo
      /\ sPc = "get" => Togo = 0
  BY <1>2, <1>3, <1>5 DEF Togo, TogoAt
<1>8. ReadPos \in Nat /\ Reached \in Nat /\ Reached <= MessageLen
  <2>1. sPc = "get" => sI < MsgLen
    BY DEF TypeOK
  <2> QED  BY <1>2, <1>3, <2>1 DEF ReadPos, Reached, PutPos
<1> QED  BY <1>1, <1>2, <1>3, <1>6, <1>7, <1>8

LEMMA NoiseInit == Init => NoiseInv
<1> SUFFICES ASSUME Init PROVE NoiseInv
  OBVIOUS
<1>1. /\ OnTheWay = 0 /\ Need = HdrLen + 1 /\ Togo = HdrLen + 1
      /\ NeedAt = 0 /\ TogoAt = 0 /\ ReadPos = 0 /\ Reached = MessageLen
  BY DEF Init, OnTheWay, Need, Togo, NeedAt, TogoAt, ReadPos, Reached
<1>2. HdrLen \in Nat /\ MessageLen \in Nat
  BY LengthsAssumption DEF MessageLen
<1>3. acks = 0 /\ started = 0 /\ received = 0 /\ overruns = 0 /\ rI = 0 /\ sPc = "idle"
  BY DEF Init
<1> QED  BY <1>1, <1>2, <1>3 DEF NoiseInv, ReaderNeedsAll, ReaderIsBehind

-----------------------------------------------------------------------------
(* The sender: what it puts it takes from what it may put.                 *)
Noisy == TypeOK /\ TypeOK' /\ NoiseInv

LEMMA PutKeeps ==
  ASSUME Noisy, UNCHANGED <<reader, acks, overruns, started>>,
         sPc \in {"hdr", "put"},
         OnTheWay' = OnTheWay + 1, Togo' = Togo - 1, TogoAt' = TogoAt,
         Reached' = Reached + 1, sPc' = "get" => sI' % AckEvery = 0
  PROVE  NoiseInv'
<1>1. /\ Need' = Need /\ NeedAt' = NeedAt /\ ReadPos' = ReadPos
      /\ received' = received /\ acks' = acks /\ rPc' = rPc /\ rI' = rI
      /\ started' = started /\ overruns' = overruns
  BY DEF reader, Need, NeedAt, ReadPos, UntilAck, AckedNext, Target
<1>2. acks = 0
  BY DEF Noisy, NoiseInv, ReaderNeedsAll
<1>3. /\ OnTheWay + Togo <= Need
      /\ OnTheWay + Togo = Need => NeedAt = TogoAt
  BY <1>2 DEF Noisy, NoiseInv, ReaderNeedsAll
<1>4. /\ OnTheWay \in Nat /\ Togo \in Nat /\ Need \in Nat
      /\ ReadPos \in Nat /\ Reached \in Nat /\ MessageLen \in Nat
  BY NoiseTypes, Zenon DEF Noisy
<1>5. OnTheWay' + Togo' <= Need' /\ (OnTheWay' + Togo' = Need' => NeedAt' = TogoAt')
  BY <1>1, <1>3, <1>4
<1>6. ReaderNeedsAll'
  BY <1>1, <1>2, <1>5 DEF ReaderNeedsAll
<1>7. ReaderIsBehind'
  <2>1. MessageLen' = MessageLen
    BY DEF MessageLen
  <2>2. ReaderIsBehind
    BY DEF Noisy, NoiseInv
  <2> QED  BY <1>1, <1>4, <2>1, <2>2 DEF ReaderIsBehind
<1> QED  BY <1>1, <1>6, <1>7 DEF Noisy, NoiseInv

LEMMA NoisyPutHeader ==
  ASSUME Noisy, PutHeader
  PROVE  NoiseInv'
<1>1. /\ sPc = "hdr" /\ sI \in Nat /\ sI < HdrLen /\ HdrLen \in Nat
      /\ line' = Append(line, sI) /\ fifo' = fifo
      /\ UNCHANGED <<reader, acks, overruns, started>>
  BY LengthsAssumption DEF Noisy, TypeOK, PutHeader
<1>2. OnTheWay' = OnTheWay + 1
  BY <1>1 DEF Noisy, TypeOK, OnTheWay
<1>3. \/ sI + 1 < HdrLen /\ sPc' = "hdr" /\ sI' = sI + 1
      \/ sI + 1 = HdrLen /\ sPc' = "put" /\ sI' = 0
  BY <1>1 DEF PutHeader
<1>4. Togo' = Togo - 1 /\ TogoAt' = TogoAt
  <2>1. Togo = (HdrLen - sI) + 1 /\ TogoAt = 0
    BY <1>1 DEF Togo, TogoAt
  <2>2. CASE sPc' = "hdr"
    <3>1. Togo' = (HdrLen - sI') + 1 /\ TogoAt' = 0
      BY <2>2 DEF Togo, TogoAt
    <3> QED  BY <1>1, <1>3, <2>1, <2>2, <3>1
  <2>3. CASE sPc' = "put"
    <3>1. sI' = 0 /\ sI + 1 = HdrLen
      BY <1>3, <2>3
    <3>2. Togo' = UntilAck(0) /\ TogoAt' = AckedNext(0)
      BY <2>3, <3>1 DEF Togo, TogoAt, UntilAck, AckedNext, Target
    <3> QED  BY <1>1, <2>1, <3>1, <3>2, UntilZero
  <2> QED  BY <1>3, <2>2, <2>3
<1>5. Reached' = Reached + 1
  BY <1>1, <1>3 DEF Reached, PutPos, MessageLen
<1>6. sPc' # "get"
  BY <1>3
<1> QED  BY <1>1, <1>2, <1>4, <1>5, <1>6, PutKeeps

LEMMA NoisyPutByte ==
  ASSUME Noisy, PutByte
  PROVE  NoiseInv'
<1>1. /\ sPc = "put" /\ sI \in Nat /\ sI < MsgLen /\ HdrLen \in Nat /\ MsgLen \in Nat
      /\ line = <<>> /\ line' = <<HdrLen + sI>> /\ fifo' = fifo
      /\ UNCHANGED <<reader, acks, overruns, started>>
  BY LengthsAssumption DEF Noisy, TypeOK, PutByte
<1>2. OnTheWay' = OnTheWay + 1
  BY <1>1 DEF Noisy, TypeOK, OnTheWay
<1>3. Togo = UntilAck(sI) /\ TogoAt = AckedNext(sI) /\ Reached = HdrLen + sI
  BY <1>1 DEF Togo, TogoAt, Reached, PutPos
<1>4. CASE sI % AckEvery = 0
  <2>1. sPc' = "get" /\ sI' = sI
    BY <1>4 DEF PutByte
  <2>2. Togo' = 0 /\ TogoAt' = sI /\ Reached' = HdrLen + sI + 1
    BY <2>1 DEF Togo, TogoAt, Reached, PutPos
  <2>3. UntilAck(sI) = 1 /\ AckedNext(sI) = sI
    BY <1>1, <1>4, UntilFacts
  <2>4. Togo' = Togo - 1 /\ TogoAt' = TogoAt /\ Reached' = Reached + 1
    BY <1>1, <1>3, <2>2, <2>3
  <2>5. sI' % AckEvery = 0
    BY <1>4, <2>1
  <2> QED  BY <1>1, <1>2, <2>4, <2>5, PutKeeps
<1>5. CASE sI % AckEvery # 0
  <2>1. \/ sI + 1 < MsgLen /\ sPc' = "put" /\ sI' = sI + 1
        \/ sI + 1 = MsgLen /\ sPc' = "idle" /\ sI' = 0
    BY <1>1, <1>5 DEF PutByte, AfterByte
  <2>2. sPc' = "put" => /\ Togo' = UntilAck(sI + 1) /\ TogoAt' = AckedNext(sI + 1)
                        /\ Reached' = HdrLen + (sI + 1)
    <3> SUFFICES ASSUME sPc' = "put"
                 PROVE  /\ Togo' = UntilAck(sI + 1) /\ TogoAt' = AckedNext(sI + 1)
                        /\ Reached' = HdrLen + (sI + 1)
      OBVIOUS
    <3>1. sI' = sI + 1
      BY <2>1
    <3>2. Togo' = UntilAck(sI + 1)
      BY <3>1 DEF Togo, UntilAck, Target
    <3>3. TogoAt' = AckedNext(sI + 1)
      BY <3>1 DEF TogoAt, AckedNext, Target
    <3>4. Reached' = HdrLen + (sI + 1)
      BY <1>1, <3>1 DEF Reached, PutPos
    <3> QED  BY <3>2, <3>3, <3>4
  <2>3. sPc' = "idle" => Togo' = HdrLen + 1 /\ TogoAt' = 0 /\ Reached' = HdrLen + MsgLen
    BY DEF Togo, TogoAt, Reached, MessageLen
  <2>4. /\ sI + 1 < MsgLen =>
             UntilAck(sI) = UntilAck(sI + 1) + 1 /\ AckedNext(sI) = AckedNext(sI + 1)
        /\ sI + 1 >= MsgLen => UntilAck(sI) = HdrLen + 2 /\ AckedNext(sI) = 0
        /\ UntilAck(sI) \in Nat
    BY <1>1, <1>5, UntilFacts
  <2>5. sI + 1 < MsgLen => UntilAck(sI + 1) \in Nat
    BY <1>1, UntilFacts
  <2>6. Togo' = Togo - 1 /\ TogoAt' = TogoAt /\ Reached' = Reached + 1 /\ sPc' # "get"
    BY <1>1, <1>3, <2>1, <2>2, <2>3, <2>4, <2>5
  <2> QED  BY <1>1, <1>2, <2>6, PutKeeps
<1> QED  BY <1>4, <1>5

LEMMA NoisyGetAck ==
  ASSUME Noisy, GetAck
  PROVE  NoiseInv'
<1>1. /\ sPc = "get" /\ sI \in Nat /\ sI < MsgLen /\ HdrLen \in Nat /\ MsgLen \in Nat
      /\ UNCHANGED <<reader, overruns, started, line, fifo>>
  BY LengthsAssumption DEF Noisy, TypeOK, GetAck
<1>2. acks = 1 /\ acks' = 0
  BY DEF Noisy, NoiseInv, ReaderNeedsAll, GetAck
<1>3. /\ fifo' = <<>> /\ line' = <<>>
      /\ IF sI + 1 < MsgLen THEN rPc' = "body" /\ rI' = sI + 1 ELSE rPc' = "main"
  BY <1>1, <1>2 DEF Noisy, NoiseInv, ReaderNeedsAll, reader
<1>4. OnTheWay' = 0 /\ OnTheWay = 0
  BY <1>1, <1>3 DEF OnTheWay
<1>5. \/ sI + 1 < MsgLen /\ sPc' = "put" /\ sI' = sI + 1
      \/ sI + 1 = MsgLen /\ sPc' = "idle" /\ sI' = 0
  BY <1>1 DEF GetAck, AfterByte
<1>6. Togo' = Need' /\ TogoAt' = NeedAt'
  <2>1. CASE sPc' = "put"
    <3>1. rPc' = "body" /\ rI' = sI'
      BY <1>3, <1>5, <2>1
    <3> QED  BY <2>1, <3>1 DEF Togo, Need, TogoAt, NeedAt, UntilAck, AckedNext, Target
  <2>2. CASE sPc' = "idle"
    <3>1. rPc' = "main"
      BY <1>1, <1>3, <1>5, <2>2
    <3> QED  BY <2>2, <3>1 DEF Togo, Need, TogoAt, NeedAt
  <2> QED  BY <1>5, <2>1, <2>2
<1>7. Reached' = Reached /\ ReadPos' = ReadPos
  BY <1>1, <1>5 DEF Reached, PutPos, MessageLen, ReadPos, reader
<1>8. Need' \in Nat
  <2>1. CASE sI + 1 < MsgLen
    <3>1. rPc' = "body" /\ rI' = sI + 1
      BY <1>3, <2>1
    <3>2. Need' = UntilAck(sI + 1)
      BY <3>1 DEF Need, UntilAck, Target
    <3> QED  BY <1>1, <2>1, <3>2, UntilFacts
  <2>2. CASE ~(sI + 1 < MsgLen)
    <3>1. rPc' = "main"
      BY <1>3, <2>2
    <3> QED  BY <1>1, <3>1 DEF Need
  <2> QED  BY <2>1, <2>2
<1>9. ReaderNeedsAll'
  <2>1. OnTheWay' + Togo' <= Need' /\ NeedAt' = TogoAt'
    <3>1. PICK x \in Nat : x = Need'
      BY <1>8
    <3>2. 0 + x <= x
      OBVIOUS
    <3> QED  BY <1>4, <1>6, <3>1, <3>2
  <2>2. sPc' # "get"
    BY <1>5
  <2> QED  BY <1>2, <2>1, <2>2 DEF ReaderNeedsAll
<1>10. ReaderIsBehind'
  <2>1. ReaderIsBehind /\ MessageLen' = MessageLen
    BY DEF Noisy, NoiseInv, MessageLen
  <2>2. rPc' = rPc /\ rI' = rI /\ received' = received /\ started' = started
    BY <1>1 DEF reader
  <2> QED  BY <1>4, <1>7, <2>1, <2>2 DEF ReaderIsBehind
<1> QED  BY <1>1, <1>9, <1>10 DEF Noisy, NoiseInv

LEMMA NoisyStartSend ==
  ASSUME Noisy, StartSend
  PROVE  NoiseInv'
<1>1. /\ sPc = "idle" /\ sPc' = "hdr" /\ sI' = 0 /\ started' = started + 1
      /\ UNCHANGED <<reader, overruns, acks, line, fifo>>
  BY DEF StartSend
<1>2. acks = 0
  BY <1>1 DEF Noisy, NoiseInv, ReaderNeedsAll
<1>3. /\ Need' = Need /\ NeedAt' = NeedAt /\ ReadPos' = ReadPos /\ OnTheWay' = OnTheWay
      /\ received' = received /\ rPc' = rPc /\ rI' = rI
  BY <1>1 DEF reader, Need, NeedAt, ReadPos, OnTheWay, UntilAck, AckedNext, Target
<1>4. HdrLen \in Nat
  BY LengthsAssumption
<1>5. /\ Togo = HdrLen + 1 /\ Togo' = (HdrLen - 0) + 1 /\ TogoAt = 0 /\ TogoAt' = 0
      /\ Reached = MessageLen /\ Reached' = 0 /\ MessageLen' = MessageLen
  BY <1>1 DEF Togo, TogoAt, Reached, PutPos, MessageLen
<1>6. /\ OnTheWay + Togo <= Need
      /\ OnTheWay + Togo = Need => NeedAt = TogoAt
  BY <1>2 DEF Noisy, NoiseInv, ReaderNeedsAll
<1>7. ReaderNeedsAll'
  <2>1. Togo' = Togo
    BY <1>4, <1>5
  <2> QED  BY <1>1, <1>2, <1>3, <1>5, <1>6, <2>1 DEF ReaderNeedsAll
<1>8. ReaderIsBehind'
  <2>1. ReaderIsBehind
    BY DEF Noisy, NoiseInv
  <2>2. /\ OnTheWay \in Nat /\ ReadPos \in Nat /\ MessageLen \in Nat
        /\ started \in Nat /\ received \in Nat
    BY NoiseTypes DEF Noisy
  <2> QED  BY <1>1, <1>3, <1>5, <2>1, <2>2 DEF ReaderIsBehind
<1> QED  BY <1>1, <1>7, <1>8 DEF Noisy, NoiseInv

-----------------------------------------------------------------------------
(* The line and the reader: what is on the way shrinks at least as fast as *)
(* what the reader needs.                                                  *)
LEMMA TypesNext ==
  ASSUME TypeOK'
  PROVE  Need' \in Nat /\ ReadPos' \in Nat /\ OnTheWay' \in Nat
<1>1. /\ rPc' \in {"main", "hdr", "body"} /\ rI' \in Nat
      /\ rPc' = "hdr" => rI' < HdrLen
      /\ rPc' = "body" => rI' < MsgLen
  BY DEF TypeOK
<1>2. HdrLen \in Nat /\ HdrLen + 1 \in Nat
  BY LengthsAssumption
<1>3. OnTheWay' \in Nat
  BY DEF TypeOK, OnTheWay
<1>4. ReadPos' \in Nat
  <2>1. HdrLen + rI' \in Nat
    <3>1. PICK i \in Nat : i = rI'
      BY <1>1, Zenon
    <3>2. HdrLen + i \in Nat
      BY <1>2
    <3> QED  BY <3>1, <3>2, Zenon
  <2>2. ReadPos' = IF rPc' = "body" THEN HdrLen + rI' ELSE rI'
    BY DEF ReadPos
  <2> QED  BY <1>1, <2>1, <2>2, Zenon
<1>5. Need' \in Nat
  <2>1. CASE rPc' = "body"
    <3>1. PICK i \in Nat : i = rI'
      BY <1>1
    <3>2. Need' = UntilAck(i)
      BY <2>1, <3>1 DEF Need, UntilAck, Target
    <3>3. i < MsgLen
      BY <1>1, <2>1, <3>1
    <3> QED  BY <3>2, <3>3, UntilFacts
  <2>2. CASE rPc' = "main"
    <3>1. Need' = HdrLen + 1
      BY <2>2 DEF Need
    <3> QED  BY <1>2, <3>1
  <2>3. CASE rPc' = "hdr"
    <3>1. Need' = (HdrLen - rI') + 1
      BY <2>3 DEF Need
    <3>2. (HdrLen - rI') + 1 \in Nat
      <4>1. PICK i \in Nat : i = rI'
        BY <1>1, Zenon
      <4>2. i < HdrLen
        BY <1>1, <2>3, <4>1, Zenon
      <4>3. (HdrLen - i) + 1 \in Nat
        BY <1>2, <4>2
      <4> QED  BY <4>1, <4>3, Zenon
    <3> QED  BY <3>1, <3>2
  <2> QED  BY <1>1, <2>1, <2>2, <2>3
<1> QED  BY <1>3, <1>4, <1>5

LEMMA TakeSums ==
  ASSUME NEW gone \in Nat, NEW all \in Nat,
         OnTheWay \in Nat, Need \in Nat, ReadPos \in Nat, Togo \in Nat, Reached \in Nat,
         OnTheWay' \in Nat, Need' \in Nat, ReadPos' \in Nat,
         OnTheWay' = OnTheWay - gone, Need <= Need' + gone, ReadPos' <= ReadPos + gone
  PROVE  /\ OnTheWay + Togo <= Need =>
              /\ OnTheWay' + Togo <= Need'
              /\ OnTheWay' + Togo = Need' => OnTheWay + Togo = Need
         /\ ReadPos + OnTheWay + all <= Reached => ReadPos' + OnTheWay' + all <= Reached
         /\ ReadPos + OnTheWay <= Reached => ReadPos' + OnTheWay' <= Reached
         /\ ReadPos + OnTheWay <= Reached + all => ReadPos' + OnTheWay' <= Reached + all
<1> PICK w \in Nat : w = OnTheWay'
  OBVIOUS
<1> PICK m \in Nat : m = Need'
  OBVIOUS
<1> PICK r \in Nat : r = ReadPos'
  OBVIOUS
<1>1. w = OnTheWay - gone /\ Need <= m + gone /\ r <= ReadPos + gone
  BY Zenon
<1>2. /\ w \in Nat /\ m \in Nat /\ r \in Nat /\ gone \in Nat /\ all \in Nat
      /\ OnTheWay \in Nat /\ Need \in Nat /\ ReadPos \in Nat
      /\ Togo \in Nat /\ Reached \in Nat
  BY Zenon
<1>3. /\ OnTheWay + Togo <= Need =>
           /\ w + Togo <= m
           /\ w + Togo = m => OnTheWay + Togo = Need
      /\ ReadPos + OnTheWay + all <= Reached => r + w + all <= Reached
      /\ ReadPos + OnTheWay <= Reached => r + w <= Reached
      /\ ReadPos + OnTheWay <= Reached + all => r + w <= Reached + all
  BY ONLY <1>1, <1>2
<1> QED  BY <1>3, Zenon

LEMMA TakeKeeps ==
  ASSUME Noisy, Need \in Nat, ReadPos \in Nat, OnTheWay \in Nat,
         Need' \in Nat, ReadPos' \in Nat, OnTheWay' \in Nat,
         UNCHANGED sender, acks = 0, acks' = 0, overruns' = overruns,
         received' = received, rPc' = "main" => rI' = 0,
         NEW gone \in Nat, OnTheWay' = OnTheWay - gone, Need <= Need' + gone,
         NeedAt' = NeedAt, ReadPos' <= ReadPos + gone
  PROVE  NoiseInv'
<1>1. /\ Togo' = Togo /\ TogoAt' = TogoAt /\ Reached' = Reached /\ MessageLen' = MessageLen
      /\ sPc' = sPc /\ sI' = sI /\ started' = started
  BY DEF sender, Togo, TogoAt, Reached, PutPos, MessageLen, UntilAck, AckedNext, Target
<1>2. /\ OnTheWay \in Nat /\ Togo \in Nat /\ Need \in Nat /\ ReadPos \in Nat
      /\ Reached \in Nat /\ MessageLen \in Nat
  BY NoiseTypes, Zenon DEF Noisy
<1>4. /\ OnTheWay + Togo <= Need
      /\ OnTheWay + Togo = Need => NeedAt = TogoAt
      /\ sPc = "get" => sI % AckEvery = 0
  BY DEF Noisy, NoiseInv, ReaderNeedsAll
<1>5. /\ OnTheWay' + Togo <= Need'
      /\ OnTheWay' + Togo = Need' => OnTheWay + Togo = Need
  BY <1>2, <1>4, TakeSums, Zenon
<1>6. /\ OnTheWay' + Togo' <= Need'
      /\ OnTheWay' + Togo' = Need' => NeedAt' = TogoAt'
  BY <1>1, <1>4, <1>5
<1>7. ReaderNeedsAll'
  BY <1>1, <1>4, <1>6 DEF ReaderNeedsAll
<1>8. ReaderIsBehind'
  <2>1. ReaderIsBehind
    BY DEF Noisy, NoiseInv
  <2>3. /\ started = received => ReadPos + OnTheWay + MessageLen <= Reached
        /\ started = received + 1 => ReadPos + OnTheWay <= Reached
        /\ started = received + 2 => ReadPos + OnTheWay <= Reached + MessageLen
    BY <2>1 DEF ReaderIsBehind
  <2>4. started = received => ReadPos' + OnTheWay' + MessageLen <= Reached
    BY <1>2, <2>3, TakeSums, Zenon
  <2>5. started = received + 1 => ReadPos' + OnTheWay' <= Reached
    BY <1>2, <2>3, TakeSums, Zenon
  <2>6. started = received + 2 => ReadPos' + OnTheWay' <= Reached + MessageLen
    BY <1>2, <2>3, TakeSums, Zenon
  <2> QED  BY <1>1, <2>1, <2>4, <2>5, <2>6 DEF ReaderIsBehind
<1> QED  BY <1>7, <1>8 DEF Noisy, NoiseInv

LEMMA SomethingOnTheWay ==
  ASSUME Noisy, fifo # <<>> \/ line # <<>>
  PROVE  acks = 0 /\ 1 <= OnTheWay /\ OnTheWay <= Need
<1>1. acks = 0
  BY DEF Noisy, NoiseInv, ReaderNeedsAll
<1>2. 1 <= OnTheWay
  BY DEF Noisy, TypeOK, OnTheWay
<1>3. OnTheWay + Togo <= Need
  BY <1>1 DEF Noisy, NoiseInv, ReaderNeedsAll
<1>4. OnTheWay \in Nat /\ Togo \in Nat /\ Need \in Nat
  BY NoiseTypes, Zenon DEF Noisy
<1> QED  BY <1>1, <1>2, <1>3, <1>4

LEMMA NoisyArrive ==
  ASSUME Noisy, Arrive
  PROVE  NoiseInv'
<1>1. line # <<>> /\ line' = Tail(line) /\ UNCHANGED <<sender, reader, acks>>
  BY DEF Arrive
<1>2. acks = 0 /\ OnTheWay <= Need
  BY <1>1, SomethingOnTheWay
<1>3. Need <= HdrLen + AckEvery /\ Need \in Nat /\ HdrLen \in Nat /\ AckEvery \in Nat
  BY NoiseTypes, Zenon DEF Noisy
<1>4. /\ Len(line) \in Nat /\ Len(fifo) \in Nat /\ Len(line) >= 1
      /\ Len(line') = Len(line) - 1 /\ FifoCap \in Nat
  BY <1>1, LengthsAssumption DEF Noisy, TypeOK
<1>5. Len(fifo) < FifoCap
  BY <1>2, <1>3, <1>4, FifoAssumption DEF OnTheWay
<1>6. fifo' = Append(fifo, Head(line)) /\ overruns' = overruns
  BY <1>5 DEF Arrive
<1>7. Len(fifo') = Len(fifo) + 1
  BY <1>6 DEF Noisy, TypeOK
<1>8. OnTheWay' = OnTheWay - 0
  BY <1>4, <1>7 DEF OnTheWay
<1>9. /\ Need' = Need /\ NeedAt' = NeedAt /\ ReadPos' = ReadPos
      /\ received' = received /\ rPc' = rPc /\ rI' = rI
  BY <1>1 DEF reader, Need, NeedAt, ReadPos, UntilAck, AckedNext, Target
<1>10. ReadPos \in Nat
  BY NoiseTypes, Zenon DEF Noisy
<1>11. rPc' = "main" => rI' = 0
  BY <1>9 DEF Noisy, NoiseInv, ReaderIsBehind
<1>12. Need <= Need' + 0 /\ ReadPos' <= ReadPos + 0 /\ acks' = 0
  BY <1>1, <1>2, <1>3, <1>9, <1>10
<1> QED  BY <1>1, <1>2, <1>6, <1>8, <1>9, <1>11, <1>12, TakeKeeps, NoiseTypes, TypesNext DEF Noisy

LEMMA NoisyLose ==
  ASSUME Noisy, Lose
  PROVE  NoiseInv'
<1>1. line # <<>> /\ line' = Tail(line) /\ UNCHANGED <<sender, reader, acks, overruns, fifo>>
  BY DEF Lose
<1>2. acks = 0
  BY <1>1, SomethingOnTheWay
<1>3. OnTheWay' = OnTheWay - 1
  BY <1>1 DEF Noisy, TypeOK, OnTheWay
<1>4. /\ Need' = Need /\ NeedAt' = NeedAt /\ ReadPos' = ReadPos
      /\ received' = received /\ rPc' = rPc /\ rI' = rI
  BY <1>1 DEF reader, Need, NeedAt, ReadPos, UntilAck, AckedNext, Target
<1>5. ReadPos \in Nat /\ Need \in Nat
  BY NoiseTypes, Zenon DEF Noisy
<1>6. rPc' = "main" => rI' = 0
  BY <1>4 DEF Noisy, NoiseInv, ReaderIsBehind
<1>7. Need <= Need' + 1 /\ ReadPos' <= ReadPos + 1 /\ acks' = 0
  BY <1>1, <1>2, <1>4, <1>5
<1> QED  BY <1>1, <1>2, <1>3, <1>4, <1>6, <1>7, TakeKeeps, NoiseTypes, TypesNext DEF Noisy

LEMMA NoisyPoll ==
  ASSUME Noisy, Poll
  PROVE  NoiseInv'
<1>1. /\ fifo # <<>> /\ rPc = "main" /\ rPc' = "hdr" /\ rI' = 0
      /\ UNCHANGED <<sender, acks, overruns, received, fifo, line>>
  BY DEF Poll
<1>2. acks = 0
  BY <1>1, SomethingOnTheWay
<1>3. rI = 0
  BY <1>1 DEF Noisy, NoiseInv, ReaderIsBehind
<1>4. HdrLen \in Nat /\ OnTheWay \in Nat
  BY NoiseTypes, Zenon DEF Noisy
<1>5. OnTheWay' = OnTheWay - 0
  BY <1>1, <1>4 DEF OnTheWay
<1>6. Need <= Need' + 0 /\ NeedAt' = NeedAt /\ ReadPos' <= ReadPos + 0
  BY <1>1, <1>3, <1>4 DEF Need, NeedAt, ReadPos
<1> QED  BY <1>1, <1>2, <1>5, <1>6, TakeKeeps, NoiseTypes, TypesNext DEF Noisy

LEMMA NoisyHeaderTimeout ==
  ASSUME Noisy, HeaderTimeout
  PROVE  NoiseInv'
<1>1. /\ rPc = "hdr" /\ rPc' = "main" /\ rI' = 0 /\ rI \in Nat /\ rI < HdrLen
      /\ UNCHANGED <<sender, acks, overruns, received, fifo, line>>
  BY DEF HeaderTimeout, Noisy, TypeOK
<1>2. acks = 0
  BY <1>1 DEF Noisy, NoiseInv, ReaderNeedsAll
<1>3. HdrLen \in Nat /\ OnTheWay \in Nat
  BY NoiseTypes, Zenon DEF Noisy
<1>4. OnTheWay' = OnTheWay - 0
  BY <1>1, <1>3 DEF OnTheWay
<1>5. Need <= Need' + 0 /\ NeedAt' = NeedAt /\ ReadPos' <= ReadPos + 0
  BY <1>1, <1>3 DEF Need, NeedAt, ReadPos
<1> QED  BY <1>1, <1>2, <1>4, <1>5, TakeKeeps, NoiseTypes, TypesNext DEF Noisy

LEMMA NoisyReadHeader ==
  ASSUME Noisy, ReadHeader
  PROVE  NoiseInv'
<1>1. /\ fifo # <<>> /\ fifo' = Tail(fifo) /\ rPc = "hdr" /\ rI \in Nat /\ rI < HdrLen
      /\ UNCHANGED <<sender, acks, overruns, received, line>>
  BY DEF ReadHeader, Noisy, TypeOK
<1>2. \/ rPc' = "hdr" /\ rI' = 0
      \/ rPc' = "hdr" /\ rI' = rI + 1
      \/ rPc' = "body" /\ rI' = 0 /\ rI + 1 = HdrLen
  BY DEF ReadHeader
<1>3. acks = 0
  BY <1>1, SomethingOnTheWay
<1>4. OnTheWay' = OnTheWay - 1
  BY <1>1 DEF Noisy, TypeOK, OnTheWay
<1>5. HdrLen \in Nat /\ Need = (HdrLen - rI) + 1 /\ NeedAt = 0 /\ ReadPos = rI
  BY <1>1, LengthsAssumption DEF Need, NeedAt, ReadPos
<1>6. CASE rPc' = "hdr" /\ rI' = 0
  <2>1. Need' = (HdrLen - 0) + 1 /\ NeedAt' = 0 /\ ReadPos' = 0
    BY <1>6 DEF Need, NeedAt, ReadPos
  <2>2. Need <= Need' + 1 /\ ReadPos' <= ReadPos + 1
    BY <1>1, <1>5, <2>1
  <2> QED  BY <1>1, <1>3, <1>4, <1>5, <1>6, <2>1, <2>2, TakeKeeps, NoiseTypes, TypesNext DEF Noisy
<1>7. CASE rPc' = "hdr" /\ rI' = rI + 1
  <2>1. Need' = (HdrLen - (rI + 1)) + 1 /\ NeedAt' = 0 /\ ReadPos' = rI + 1
    BY <1>7 DEF Need, NeedAt, ReadPos
  <2>2. Need <= Need' + 1 /\ ReadPos' <= ReadPos + 1
    BY <1>1, <1>5, <2>1
  <2> QED  BY <1>1, <1>3, <1>4, <1>5, <1>7, <2>1, <2>2, TakeKeeps, NoiseTypes, TypesNext DEF Noisy
<1>8. CASE rPc' = "body" /\ rI' = 0 /\ rI + 1 = HdrLen
  <2>1. Need' = UntilAck(0) /\ NeedAt' = AckedNext(0) /\ ReadPos' = HdrLen + 0
    BY <1>8 DEF Need, NeedAt, ReadPos, UntilAck, AckedNext, Target
  <2>2. Need' = 1 /\ NeedAt' = 0
    BY <2>1, UntilZero, Zenon
  <2>3. Need <= Need' + 1 /\ ReadPos' <= ReadPos + 1
    BY <1>1, <1>5, <1>8, <2>1, <2>2
  <2> QED  BY <1>1, <1>3, <1>4, <1>5, <1>8, <2>2, <2>3, TakeKeeps, NoiseTypes, TypesNext DEF Noisy
<1> QED  BY <1>2, <1>6, <1>7, <1>8

(* A byte of the body, taken and counted.                                  *)
LEMMA BodyStep ==
  ASSUME Noisy, ReadBody
  PROVE  /\ fifo # <<>> /\ fifo' = Tail(fifo) /\ line' = line /\ rPc = "body"
         /\ rI \in Nat /\ rI < MsgLen /\ acks = 0 /\ UNCHANGED sender /\ overruns' = overruns
         /\ OnTheWay' = OnTheWay - 1 /\ 1 <= OnTheWay
         /\ Need = UntilAck(rI) /\ NeedAt = AckedNext(rI) /\ ReadPos = HdrLen + rI
         /\ rI % AckEvery = 0 => acks' = 1
         /\ rI % AckEvery # 0 => acks' = 0
         /\ \/ /\ rI + 1 < MsgLen /\ received' = received
               /\ rPc' = "body" /\ rI' = rI + 1 /\ ReadPos' = HdrLen + (rI + 1)
               /\ Need' = UntilAck(rI + 1) /\ NeedAt' = AckedNext(rI + 1)
            \/ /\ rI + 1 = MsgLen /\ received' = received + 1
               /\ rPc' = "main" /\ rI' = 0 /\ ReadPos' = 0
               /\ Need' = HdrLen + 1 /\ NeedAt' = 0
<1>1. /\ fifo # <<>> /\ fifo' = Tail(fifo) /\ line' = line /\ rPc = "body"
      /\ rI \in Nat /\ rI < MsgLen /\ MsgLen \in Nat /\ UNCHANGED sender /\ overruns' = overruns
  BY LengthsAssumption DEF ReadBody, StoreByte, Noisy, TypeOK
<1>2. acks = 0 /\ 1 <= OnTheWay
  BY <1>1, SomethingOnTheWay
<1>3. OnTheWay' = OnTheWay - 1
  BY <1>1 DEF Noisy, TypeOK, OnTheWay
<1>4. Need = UntilAck(rI) /\ NeedAt = AckedNext(rI) /\ ReadPos = HdrLen + rI
  BY <1>1 DEF Need, NeedAt, ReadPos
<1>5. /\ rI % AckEvery = 0 => acks' = 1
      /\ rI % AckEvery # 0 => acks' = 0
  BY <1>2 DEF ReadBody, AckWhen
<1>6. \/ rI + 1 < MsgLen /\ received' = received /\ rPc' = "body" /\ rI' = rI + 1
      \/ rI + 1 = MsgLen /\ received' = received + 1 /\ rPc' = "main" /\ rI' = 0
  BY <1>1 DEF ReadBody, LoopWhile
<1>7. ASSUME rPc' = "body", rI' = rI + 1
      PROVE  /\ ReadPos' = HdrLen + (rI + 1)
             /\ Need' = UntilAck(rI + 1) /\ NeedAt' = AckedNext(rI + 1)
  BY <1>7 DEF Need, NeedAt, ReadPos, UntilAck, AckedNext, Target
<1>8. ASSUME rPc' = "main", rI' = 0
      PROVE  ReadPos' = 0 /\ Need' = HdrLen + 1 /\ NeedAt' = 0
  BY <1>8 DEF Need, NeedAt, ReadPos
<1>9. CASE rI + 1 < MsgLen /\ received' = received /\ rPc' = "body" /\ rI' = rI + 1
  BY <1>1, <1>2, <1>3, <1>4, <1>5, <1>7, <1>9, Zenon
<1>10. CASE rI + 1 = MsgLen /\ received' = received + 1 /\ rPc' = "main" /\ rI' = 0
  BY <1>1, <1>2, <1>3, <1>4, <1>5, <1>8, <1>10, Zenon
<1> QED  BY <1>6, <1>9, <1>10

LEMMA BodyIsBehind ==
  ASSUME Noisy, ReadBody
  PROVE  ReaderIsBehind'
<1> USE BodyStep
<1>1. /\ OnTheWay \in Nat /\ Togo \in Nat /\ Need \in Nat /\ Need <= HdrLen + AckEvery
      /\ Reached \in Nat /\ Reached <= MessageLen /\ MessageLen = HdrLen + MsgLen
      /\ MessageLen \in Nat /\ HdrLen \in Nat /\ MsgLen \in Nat /\ 1 <= MsgLen
      /\ started \in Nat /\ received \in Nat
  BY NoiseTypes, Zenon DEF Noisy
<1>2. /\ Reached' = Reached /\ MessageLen' = MessageLen /\ started' = started
  BY DEF sender, Reached, PutPos, MessageLen
<1>3. /\ received <= started
      /\ started = received => ReadPos + OnTheWay + MessageLen <= Reached
      /\ started = received + 1 => ReadPos + OnTheWay <= Reached
      /\ started = received + 2 => ReadPos + OnTheWay <= Reached + MessageLen
  BY DEF Noisy, NoiseInv, ReaderIsBehind
<1>4. /\ rI \in Nat /\ ReadPos = HdrLen + rI /\ 1 <= OnTheWay
  BY Zenon
<1>5. PICK w \in Nat : w = OnTheWay'
  BY TypesNext DEF Noisy
<1>6. w = OnTheWay - 1
  BY <1>5, Zenon
<1>7. CASE /\ rI + 1 < MsgLen /\ received' = received
           /\ rPc' = "body" /\ rI' = rI + 1 /\ ReadPos' = HdrLen + (rI + 1)
  <2>1. (HdrLen + (rI + 1)) + w = ReadPos + OnTheWay
    BY ONLY <1>1, <1>4, <1>6
  <2>2. ReadPos' + OnTheWay' = ReadPos + OnTheWay
    BY <1>5, <1>7, <2>1, Zenon
  <2>3. rPc' # "main"
    BY <1>7
  <2> QED  BY <1>2, <1>3, <1>7, <2>2, <2>3, Zenon DEF ReaderIsBehind
<1>8. CASE /\ rI + 1 = MsgLen /\ received' = received + 1
           /\ rPc' = "main" /\ rI' = 0 /\ ReadPos' = 0
  <2>1. rI + 1 = MsgLen
    BY <1>8
  <2>2. ReadPos = MessageLen - 1
    BY ONLY <1>1, <1>4, <2>1
  <2>3. w <= MessageLen
    <3>1. Need = UntilAck(rI) /\ OnTheWay <= Need
      BY SomethingOnTheWay
    <3>2. Need <= HdrLen + 2
      BY <2>1, UntilFacts, <1>1, <1>4
    <3> QED  BY ONLY <1>1, <1>6, <3>1, <3>2
  <2>4. /\ received + 1 <= started
        /\ started = received + 1 => 0 + w + MessageLen <= Reached
        /\ started = (received + 1) + 1 => 0 + w <= Reached
        /\ started = (received + 1) + 2 => 0 + w <= Reached + MessageLen
    BY ONLY <1>1, <1>3, <1>4, <1>5, <1>6, <2>2, <2>3, w \in Nat
  <2> QED  BY <1>2, <1>5, <1>8, <2>4, Zenon DEF ReaderIsBehind
<1> QED  BY <1>7, <1>8, Zenon

LEMMA LastByte ==
  ASSUME NEW a \in Seq(Bytes), NEW b \in Seq(Bytes), a # <<>>, Len(a) + Len(b) = 1
  PROVE  Tail(a) = <<>> /\ b = <<>>
<1>1. PICK x \in Nat, y \in Nat : x = Len(a) /\ y = Len(b)
  OBVIOUS
<1>2. x # 0 /\ x + y = 1
  BY <1>1
<1>3. x = 1 /\ y = 0
  BY ONLY <1>2, x \in Nat, y \in Nat
<1>4. Len(a) = 1 /\ Len(b) = 0
  BY <1>1, <1>3, Zenon
<1>5. b = <<>>
  BY ONLY <1>4, b \in Seq(Bytes)
<1>6. Tail(a) = <<>>
  <2>1. Tail(a) \in Seq(Bytes) /\ Len(Tail(a)) = 0
    BY ONLY <1>4, a \in Seq(Bytes)
  <2> DEFINE t == Tail(a)
  <2>2. t \in Seq(Bytes) /\ Len(t) = 0
    BY <2>1
  <2> HIDE DEF t
  <2>3. t = <<>>
    BY ONLY <2>2
  <2> QED  BY <2>3 DEF t
<1> QED  BY <1>5, <1>6, Zenon

LEMMA NoisyReadBody ==
  ASSUME Noisy, ReadBody
  PROVE  NoiseInv'
<1> USE BodyStep
<1>1. /\ OnTheWay \in Nat /\ Togo \in Nat /\ Need \in Nat /\ HdrLen \in Nat /\ MsgLen \in Nat
      /\ AckEvery \in Nat /\ rI \in Nat /\ rI < MsgLen /\ 1 <= OnTheWay
      /\ sPc # "get" => 1 <= Togo
  BY NoiseTypes, Zenon DEF Noisy
<1>2. /\ Togo' = Togo /\ TogoAt' = TogoAt /\ sPc' = sPc /\ sI' = sI
  BY DEF sender, Togo, TogoAt, UntilAck, AckedNext, Target
<1>3. /\ OnTheWay + Togo <= Need
      /\ OnTheWay + Togo = Need => NeedAt = TogoAt
      /\ sPc = "get" => sI % AckEvery = 0
  BY DEF Noisy, NoiseInv, ReaderNeedsAll
<1>4. ReaderNeedsAll'
  <2>1. CASE rI % AckEvery = 0
    <3>1. Need = 1 /\ NeedAt = rI
      BY <1>1, <2>1, UntilFacts, Zenon
    <3>2. OnTheWay = 1 /\ Togo = 0
      BY ONLY <1>1, <1>3, <3>1
    <3>3. sPc = "get"
      BY ONLY <1>1, <3>2
    <3>4. NeedAt = TogoAt
      BY ONLY <1>1, <1>3, <3>1, <3>2
    <3>5. sI = rI
      BY <3>1, <3>3, <3>4 DEF TogoAt
    <3>6. fifo' = <<>> /\ line' = <<>>
      <4>1. fifo # <<>> /\ fifo \in Seq(Bytes) /\ line \in Seq(Bytes) /\ Len(fifo) + Len(line) = 1
        BY <3>2 DEF Noisy, TypeOK, OnTheWay
      <4>3. Tail(fifo) = <<>> /\ line = <<>>
        BY ONLY <4>1, LastByte
      <4> QED  BY <4>3, Zenon
    <3>7. IF sI' + 1 < MsgLen THEN rPc' = "body" /\ rI' = sI' + 1 ELSE rPc' = "main"
      <4>1. CASE rI + 1 < MsgLen /\ rPc' = "body" /\ rI' = rI + 1
        BY <1>2, <3>5, <4>1, Zenon
      <4>2. CASE rI + 1 = MsgLen /\ rPc' = "main"
        <5>1. ~(rI + 1 < MsgLen)
          BY ONLY <1>1, <4>2
        <5> QED  BY <1>2, <3>5, <4>2, <5>1, Zenon
      <4> QED  BY <4>1, <4>2, Zenon
    <3>8. acks' = 1
      BY <2>1, Zenon
    <3>9. acks' \in {0, 1} /\ acks' # 0
      BY <3>8
    <3> QED  BY <1>2, <1>3, <3>3, <3>6, <3>7, <3>9, Zenon DEF ReaderNeedsAll
  <2>2. CASE rI % AckEvery # 0
    <3>1. Need' + 1 = Need /\ NeedAt' = NeedAt
      <4>1. CASE /\ rI + 1 < MsgLen
                 /\ Need' = UntilAck(rI + 1) /\ NeedAt' = AckedNext(rI + 1)
        <5>1. Need = UntilAck(rI + 1) + 1 /\ NeedAt = AckedNext(rI + 1)
          BY <1>1, <2>2, <4>1, UntilFacts, Zenon
        <5> QED  BY <4>1, <5>1, Zenon
      <4>2. CASE rI + 1 = MsgLen /\ Need' = HdrLen + 1 /\ NeedAt' = 0
        <5>1. rI + 1 >= MsgLen
          BY ONLY <1>1, <4>2
        <5>2. Need = HdrLen + 2 /\ NeedAt = 0
          BY <1>1, <2>2, <5>1, UntilFacts, Zenon
        <5>3. (HdrLen + 1) + 1 = HdrLen + 2
          BY ONLY <1>1
        <5> QED  BY <4>2, <5>2, <5>3, Zenon
      <4> QED  BY <4>1, <4>2, Zenon
    <3> PICK w \in Nat : w = OnTheWay'
      BY TypesNext DEF Noisy
    <3> PICK m \in Nat : m = Need'
      BY TypesNext DEF Noisy
    <3>2. w = OnTheWay - 1 /\ m + 1 = Need
      BY <3>1, Zenon
    <3>3. w + Togo <= m /\ (w + Togo = m => OnTheWay + Togo = Need)
      BY ONLY <1>1, <1>3, <3>2, w \in Nat, m \in Nat
    <3>4. /\ OnTheWay' + Togo' <= Need'
          /\ OnTheWay' + Togo' = Need' => NeedAt' = TogoAt'
      BY <1>2, <1>3, <3>1, <3>3, Zenon
    <3>5. acks' = 0
      BY <2>2, Zenon
    <3>6. acks' \in {0, 1} /\ acks' # 1
      BY <3>5
    <3> QED  BY <1>2, <1>3, <3>4, <3>6, Zenon DEF ReaderNeedsAll
  <2> QED  BY <2>1, <2>2
<1>5. overruns' = 0
  BY DEF Noisy, NoiseInv
<1> QED  BY <1>4, <1>5, BodyIsBehind DEF NoiseInv

-----------------------------------------------------------------------------
LEMMA NoiseStep == TypeOK /\ TypeOK' /\ NoiseInv /\ [Next]_vars => NoiseInv'
<1> SUFFICES ASSUME Noisy, [Next]_vars PROVE NoiseInv'
  BY DEF Noisy
<1>1. CASE StartSend  BY <1>1, NoisyStartSend
<1>2. CASE PutHeader  BY <1>2, NoisyPutHeader
<1>3. CASE PutByte  BY <1>3, NoisyPutByte
<1>4. CASE GetAck  BY <1>4, NoisyGetAck
<1>5. CASE Arrive  BY <1>5, NoisyArrive
<1>6. CASE Lose  BY <1>6, NoisyLose
<1>7. CASE Poll  BY <1>7, NoisyPoll
<1>8. CASE ReadHeader  BY <1>8, NoisyReadHeader
<1>9. CASE HeaderTimeout  BY <1>9, NoisyHeaderTimeout
<1>10. CASE ReadBody  BY <1>10, NoisyReadBody
<1>11. CASE UNCHANGED vars
  <2>1. NoiseInv
    BY DEF Noisy
  <2>2. /\ OnTheWay' = OnTheWay /\ Need' = Need /\ NeedAt' = NeedAt /\ Togo' = Togo
        /\ TogoAt' = TogoAt /\ ReadPos' = ReadPos /\ Reached' = Reached
        /\ MessageLen' = MessageLen
    BY <1>11 DEF vars, OnTheWay, Need, NeedAt, Togo, TogoAt, ReadPos, Reached, PutPos,
                 MessageLen, UntilAck, AckedNext, Target
  <2> QED  BY <1>11, <2>1, <2>2, Zenon DEF vars, NoiseInv, ReaderNeedsAll, ReaderIsBehind
<1> QED
  BY <1>1, <1>2, <1>3, <1>4, <1>5, <1>6, <1>7, <1>8, <1>9, <1>10, <1>11, Zenon
  DEF Next, Send, Read

(* With noise too, the reader waits for at least as many bytes as the      *)
(* sender will put, and is never beyond it.                                *)
THEOREM NoiseInvariance == Spec => []NoiseInv
  BY NoiseInit, NoiseStep, LinkTypeCorrect, PTL DEF Spec

(* The receive FIFO never drops a byte, whatever noise takes from the line *)
(* and wherever the two loops have got to: one acknowledgement every       *)
(* AckEvery bytes is flow control enough.                                  *)
THEOREM NeverOverruns == Spec => []NoOverrun
<1>1. NoiseInv => NoOverrun
  BY DEF NoiseInv, NoOverrun
<1> QED  BY <1>1, NoiseInvariance, PTL

(* Noise never makes more messages than were sent, and never leaves two    *)
(* acknowledgements waiting.                                               *)
THEOREM NothingIsInvented == Spec => []NothingInvented
<1>1. NoiseInv => NothingInvented
  BY DEF NoiseInv, NothingInvented, ReaderNeedsAll, ReaderIsBehind
<1> QED  BY <1>1, NoiseInvariance, PTL

-----------------------------------------------------------------------------
(* Why the blocking calls return.  Two facts stand behind SendReturns,     *)
(* ReadReturns and HeaderReadEnds: while one is in a call, some fair step  *)
(* is possible; and every step but the start of a new message uses up      *)
(* work, a natural number, noise or not.                                   *)

(* A fair step, by its guard.                                              *)
SendCanGo == \/ sPc = "hdr" \/ (sPc = "put" /\ line = <<>>)
             \/ sPc = "get" /\ acks > 0
ArriveCanGo == line # <<>>
ReadCanGo == \/ fifo # <<>>
             \/ rPc = "hdr" /\ line = <<>> /\ sPc \notin {"hdr", "put"}
SomebodyCanGo == SendCanGo \/ ArriveCanGo \/ ReadCanGo

(* The acknowledgement a sender waits for is there once its byte is read.  *)
AckIsGiven ==
    /\ sPc = "get"
    /\ started = received \/ (started = received + 1 /\ ReadPos > HdrLen + sI)
    => acks = 1
AckInv == lost = 0 => AckIsGiven

LEMMA ReadBodyGives ==
  ASSUME Lossless, Lossless', AckIsGiven, ReadBody
  PROVE  AckIsGiven'
<1> SUFFICES ASSUME sPc' = "get",
                    \/ started' = received'
                    \/ started' = received' + 1 /\ ReadPos' > HdrLen + sI'
             PROVE  acks' = 1
  BY DEF AckIsGiven
<1> USE LengthsAssumption
<1>1. /\ sPc = "get" /\ sI' = sI /\ started' = started /\ sI % AckEvery = 0
      /\ rPc = "body" /\ ReadPos = HdrLen + rI /\ sI \in Nat /\ rI \in Nat
      /\ received \in Nat /\ started \in Nat /\ started # received
      /\ rI < MsgLen /\ sI < MsgLen
  BY DEF ReadBody, StoreByte, sender, Lossless, InStepLoops, TypeOK, ReadPos
<1>2. acks' = (IF rI % AckEvery = 0 THEN acks + 1 ELSE acks) /\ acks \in {0, 1} /\ acks' \in {0, 1}
  BY DEF ReadBody, AckWhen, Lossless, AcksSettled
<1>3. started = received + 1 /\ rI >= sI
  <2>1. CASE rI + 1 < MsgLen
    <3>1. rPc' = "body" /\ rI' = rI + 1 /\ received' = received
      BY <2>1 DEF ReadBody, LoopWhile
    <3> QED  BY <1>1, <3>1 DEF ReadPos
  <2>2. CASE ~(rI + 1 < MsgLen)
    <3>1. rPc' = "main" /\ rI' = 0 /\ received' = received + 1
      BY <2>2 DEF ReadBody, LoopWhile
    <3>2. ReadPos' = 0
      BY <3>1 DEF ReadPos
    <3> QED  BY <1>1, <2>2, <3>1, <3>2
  <2> QED  BY <2>1, <2>2
<1>4. CASE rI = sI
  BY <1>1, <1>2, <1>4
<1>5. CASE rI > sI
  <2>1. acks = 1
    BY <1>1, <1>3, <1>5 DEF AckIsGiven
  <2> QED  BY <1>2, <2>1
<1> QED  BY <1>1, <1>3, <1>4, <1>5

LEMMA CleanReaderFinds ==
  ASSUME Lossless
  PROVE  ~HeaderTimeout
<1> SUFFICES ASSUME HeaderTimeout PROVE FALSE
  OBVIOUS
<1>1. /\ rPc = "hdr" /\ Len(fifo) = 0 /\ Len(line) = 0 /\ sPc \in {"idle", "get"}
      /\ rI \in Nat /\ rI < HdrLen /\ sI \in Nat
  BY DEF HeaderTimeout, Lossless, TypeOK
<1>2. ReadPos = SentPos /\ ReadPos = rI
  BY <1>1 DEF Lossless, InTransit, ReadPos
<1>3. started # received
  BY <1>1 DEF Lossless, InStepLoops
<1>4. PutPos > HdrLen \/ sPc = "idle"
  BY <1>1, LengthsAssumption DEF PutPos
<1>5. sPc = "idle" => SentPos = MessageLen
  <2>1. MessageLen \in Nat /\ (sPc = "idle" => started # received + 2)
    BY LengthTypes DEF Lossless, InStepLoops, TypeOK
  <2> QED  BY <1>3, <2>1 DEF SentPos
<1>6. sPc = "get" => SentPos > HdrLen
  <2>1. PutPos \in Nat /\ MessageLen \in Nat /\ HdrLen \in Nat
    BY LengthTypes, LengthsAssumption
  <2> QED  BY <1>3, <1>4, <2>1 DEF SentPos
<1> QED
  BY <1>1, <1>2, <1>5, <1>6, LengthsAssumption DEF MessageLen

LEMMA AckStep ==
  ASSUME TypeOK, LinkInv, AckInv, TypeOK', LinkInv', [Next]_vars
  PROVE  AckInv'
<1> SUFFICES ASSUME lost' = 0 PROVE AckIsGiven'
  BY DEF AckInv
<1> USE LengthsAssumption
<1>1. lost = 0 /\ ~Lose
  BY DEF TypeOK, Next, StartSend, Send, PutHeader, PutByte, GetAck, Arrive, Lose,
         Read, Poll, ReadHeader, HeaderTimeout, ReadBody, StoreByte, vars
<1>2. Lossless /\ Lossless' /\ AckIsGiven
  BY <1>1 DEF Lossless, LinkInv, AckInv
<1>3. CASE ReadBody
  BY <1>2, <1>3, ReadBodyGives
<1>4. CASE StartSend \/ PutHeader
  BY <1>4 DEF StartSend, PutHeader, AckIsGiven
<1>5. CASE GetAck
  <2>1. sPc' # "get"
    BY <1>5 DEF GetAck, AfterByte
  <2> QED  BY <2>1 DEF AckIsGiven
<1>6. CASE PutByte
  <2>1. /\ sPc = "put" /\ Len(line) = 0 /\ ReadPos' = ReadPos
        /\ started' = started /\ received' = received
        /\ sPc' = "get" => sI' = sI
    BY <1>6 DEF PutByte, AfterByte, reader, ReadPos
  <2>2. /\ started # received /\ sI \in Nat /\ started \in Nat /\ received \in Nat
        /\ started = received + 2 \/ started = received + 1
    BY <1>2, <2>1 DEF Lossless, InStepLoops, TypeOK
  <2>3. ReadPos + Len(fifo) = SentPos /\ Len(fifo) \in Nat /\ ReadPos \in Nat
    BY <1>2, <2>1, LengthTypes DEF Lossless, InTransit
  <2>4. started = received + 1 => SentPos = HdrLen + sI
    BY <2>1, <2>2 DEF SentPos, PutPos
  <2> QED  BY <2>1, <2>2, <2>3, <2>4 DEF AckIsGiven
<1>7. CASE Arrive
  BY <1>2, <1>7 DEF Arrive, sender, reader, AckIsGiven, ReadPos
<1>8. CASE Poll \/ ReadHeader
  <2>1. /\ sPc' = sPc /\ started' = started /\ received' = received /\ acks' = acks
        /\ rPc # "body" /\ rPc' \in {"hdr", "body"} /\ (rPc' = "body" => rI' = 0)
    BY <1>8 DEF Poll, ReadHeader, sender
  <2>2. sI' = sI /\ sI \in Nat /\ (rPc' = "hdr" => rI' < HdrLen) /\ rI' \in Nat
    BY <1>2, <1>8 DEF Poll, ReadHeader, sender, Lossless, TypeOK
  <2>3. ~(ReadPos' > HdrLen + sI)
    <3>1. HdrLen \in Nat
      OBVIOUS
    <3>2. CASE rPc' = "body"
      <4>1. ReadPos' = HdrLen + 0
        BY <2>1, <3>2 DEF ReadPos
      <4> QED  BY <2>2, <3>1, <4>1
    <3>3. CASE rPc' = "hdr"
      <4>1. ReadPos' = rI'
        BY <3>3 DEF ReadPos
      <4> QED  BY <2>2, <3>1, <3>3, <4>1
    <3> QED  BY <2>1, <3>2, <3>3
  <2> QED  BY <1>2, <2>1, <2>2, <2>3 DEF AckIsGiven
<1>9. ~HeaderTimeout
  BY <1>2, CleanReaderFinds
<1>10. CASE UNCHANGED vars
  BY <1>2, <1>10 DEF vars, AckIsGiven, ReadPos
<1> QED
  BY <1>1, <1>3, <1>4, <1>5, <1>6, <1>7, <1>8, <1>9, <1>10 DEF Next, Send, Read

LEMMA AckInvariance == Spec => []AckInv
<1>1. Init => AckInv
  BY DEF Init, AckInv, AckIsGiven
<1> QED  BY <1>1, AckStep, LinkTypeCorrect, LinkInvariance, PTL DEF Spec

(* Neither call waits for ever: in the header search always, and without   *)
(* noise from the first magic byte to the last struct byte on both sides,  *)
(* the sender, the UART or the reader has a step to take; in particular a  *)
(* sender in UARTCharGet gets its acknowledgement and a reader its byte.   *)
NobodyIsStuck ==
    (rPc = "hdr" \/ (lost = 0 /\ (sPc # "idle" \/ rPc # "main"))) => SomebodyCanGo

(* uart_send_message and uart_read_message never wait for each other.      *)
THEOREM CallsGoOn == Spec => []NobodyIsStuck
<1>1. TypeOK /\ LinkInv /\ AckInv => NobodyIsStuck
  <2> SUFFICES ASSUME TypeOK, LinkInv, AckInv, ~SomebodyCanGo,
                      rPc = "hdr" \/ (lost = 0 /\ (sPc # "idle" \/ rPc # "main"))
               PROVE  FALSE
    BY DEF NobodyIsStuck
  <2>1. /\ fifo = <<>> /\ line = <<>> /\ rPc # "hdr"
        /\ lost = 0 /\ (sPc = "idle" \/ (sPc = "get" /\ acks = 0))
    BY DEF SomebodyCanGo, SendCanGo, ArriveCanGo, ReadCanGo, TypeOK
  <2>2. lost = 0 /\ Lossless /\ AckIsGiven
    BY <2>1 DEF Lossless, LinkInv, AckInv
  <2>3. ReadPos = SentPos
    BY <2>1, <2>2, LengthTypes DEF Lossless, InTransit
  <2>4. started = received => sPc = "idle" /\ rPc = "main"
    BY <2>1, <2>2 DEF Lossless, InStepLoops, AckIsGiven
  <2>5. started = received + 1 /\ sPc = "get" => ~(ReadPos > HdrLen + sI)
    BY <2>1, <2>2 DEF AckIsGiven
  <2>6. /\ started \in Nat /\ received \in Nat /\ sI \in Nat
        /\ started \in {received, received + 1, received + 2}
        /\ sPc = "idle" => started # received + 2
    BY <2>2 DEF Lossless, InStepLoops, TypeOK
  <2>7. sPc = "get" => PutPos = HdrLen + sI + 1
    BY <2>6, LengthsAssumption DEF PutPos
  <2> QED
    BY <2>1, <2>2, <2>3, <2>4, <2>5, <2>6, <2>7, LengthTypes, LengthsAssumption DEF SentPos
<1> QED  BY <1>1, LinkTypeCorrect, LinkInvariance, AckInvariance, PTL

(* What is left to do of the messages begun: bytes to put, to arrive and   *)
(* to be read, acknowledgements to give and take, and calls to return from.*)
Unsent == IF sPc = "idle" THEN 0
          ELSE IF sPc = "hdr" THEN (HdrLen - sI) + MsgLen
          ELSE IF sPc = "put" THEN MsgLen - sI ELSE (MsgLen - sI) - 1
SendWaits == IF sPc = "get" THEN 1 ELSE 0
ReadWaits == IF rPc = "hdr" THEN 1 ELSE IF rPc = "main" /\ fifo # <<>> THEN 2 ELSE 0
Work == 9 * Unsent + 7 * Len(line) + 4 * Len(fifo) + acks + SendWaits + ReadWaits

WorkTypes == /\ Work \in Nat /\ Unsent \in Nat
             /\ SendWaits \in Nat /\ SendWaits <= 1 /\ ReadWaits \in Nat /\ ReadWaits <= 2

LEMMA WorkType == TypeOK => WorkTypes
<1> SUFFICES ASSUME TypeOK PROVE WorkTypes
  OBVIOUS
<1>1. Unsent \in Nat
  BY LengthsAssumption DEF TypeOK, Unsent
<1>2. SendWaits \in Nat /\ SendWaits <= 1 /\ ReadWaits \in Nat /\ ReadWaits <= 2
  BY DEF SendWaits, ReadWaits
<1>3. Len(line) \in Nat /\ Len(fifo) \in Nat /\ acks \in Nat
  BY DEF TypeOK
<1> QED  BY <1>1, <1>2, <1>3 DEF Work, WorkTypes

LEMMA WorkUsed == TypeOK /\ TypeOK' /\ Next /\ ~StartSend => Work' < Work
<1> SUFFICES ASSUME TypeOK, TypeOK', Next, ~StartSend PROVE Work' < Work
  OBVIOUS
<1> USE LengthsAssumption
<1>t. /\ Len(line) \in Nat /\ Len(fifo) \in Nat /\ acks \in Nat
      /\ Len(line') \in Nat /\ Len(fifo') \in Nat /\ acks' \in Nat
      /\ fifo = <<>> <=> Len(fifo) = 0
      /\ fifo' = <<>> <=> Len(fifo') = 0
  BY DEF TypeOK
<1>s. /\ sI \in Nat /\ HdrLen \in Nat /\ MsgLen \in Nat
      /\ sPc = "hdr" => sI < HdrLen
      /\ sPc \in {"put", "get"} => sI < MsgLen
  BY DEF TypeOK
<1>v. TypeOK' => WorkTypes'
  BY WorkType, PTL
<1>w. /\ Unsent \in Nat /\ SendWaits \in Nat /\ SendWaits <= 1
      /\ ReadWaits \in Nat /\ ReadWaits <= 2
      /\ Unsent' \in Nat /\ SendWaits' \in Nat /\ SendWaits' <= 1
      /\ ReadWaits' \in Nat /\ ReadWaits' <= 2
  BY <1>v, WorkType DEF WorkTypes
<1>1. CASE PutHeader
  <2>1. /\ sPc = "hdr" /\ rPc' = rPc /\ fifo' = fifo /\ acks' = acks
        /\ \/ sPc' = "hdr" /\ sI' = sI + 1
           \/ sPc' = "put" /\ sI' = 0 /\ sI + 1 = HdrLen
    BY <1>1, <1>s DEF PutHeader, reader
  <2>2. Unsent' = Unsent - 1
    BY <1>s, <2>1 DEF Unsent
  <2>3. SendWaits' = 0 /\ ReadWaits' = ReadWaits
    BY <2>1 DEF SendWaits, ReadWaits
  <2>4. Len(line') = Len(line) + 1
    BY <1>1 DEF PutHeader, TypeOK
  <2> QED  BY <1>t, <1>w, <2>1, <2>2, <2>3, <2>4 DEF Work
<1>2. CASE PutByte
  <2>1. /\ sPc = "put" /\ rPc' = rPc /\ fifo' = fifo /\ acks' = acks
        /\ Len(line') = 1 /\ Len(line) = 0
        /\ \/ sPc' = "get" /\ sI' = sI
           \/ sPc' = "put" /\ sI' = sI + 1
           \/ sPc' = "idle" /\ sI + 1 = MsgLen
    BY <1>2, <1>s DEF PutByte, AfterByte, reader
  <2>2. Unsent' = Unsent - 1
    BY <1>s, <2>1 DEF Unsent
  <2>3. SendWaits = 0 /\ ReadWaits' = ReadWaits
    BY <2>1 DEF SendWaits, ReadWaits
  <2> QED  BY <1>t, <1>w, <2>1, <2>2, <2>3 DEF Work
<1>3. CASE GetAck
  <2>1. /\ sPc = "get" /\ rPc' = rPc /\ fifo' = fifo /\ line' = line
        /\ acks' = acks - 1
        /\ \/ sPc' = "put" /\ sI' = sI + 1
           \/ sPc' = "idle" /\ sI + 1 = MsgLen
    BY <1>3, <1>s DEF GetAck, AfterByte, reader
  <2>2. Unsent' = Unsent
    BY <1>s, <2>1 DEF Unsent
  <2>3. SendWaits = 1 /\ SendWaits' = 0 /\ ReadWaits' = ReadWaits
    BY <2>1 DEF SendWaits, ReadWaits
  <2> QED  BY <1>t, <1>w, <2>1, <2>2, <2>3 DEF Work
<1>4. CASE Arrive \/ Lose
  <2>1. /\ UNCHANGED <<sPc, sI, acks, rPc>> /\ Len(line') = Len(line) - 1
        /\ fifo' = fifo \/ Len(fifo') = Len(fifo) + 1
    BY <1>4 DEF Arrive, Lose, TypeOK, sender, reader
  <2>2. Unsent' = Unsent /\ SendWaits' = SendWaits
    BY <2>1 DEF Unsent, SendWaits
  <2>3. fifo' = fifo => ReadWaits' = ReadWaits
    BY <2>1 DEF ReadWaits
  <2> QED  BY <1>t, <1>w, <2>1, <2>2, <2>3 DEF Work
<1>5. CASE Poll \/ HeaderTimeout
  <2>1. /\ UNCHANGED <<sPc, sI, acks, line, fifo>>
        /\ \/ rPc = "main" /\ rPc' = "hdr" /\ fifo # <<>>
           \/ rPc = "hdr" /\ rPc' = "main" /\ fifo = <<>>
    BY <1>5 DEF Poll, HeaderTimeout, sender
  <2>2. Unsent' = Unsent /\ SendWaits' = SendWaits /\ ReadWaits' = ReadWaits - 1
    BY <2>1 DEF Unsent, SendWaits, ReadWaits
  <2> QED  BY <1>t, <1>w, <2>1, <2>2 DEF Work
<1>6. CASE ReadHeader \/ ReadBody
  <2>1. /\ UNCHANGED <<sPc, sI, line>> /\ Len(fifo') = Len(fifo) - 1
        /\ acks' = acks \/ acks' = acks + 1
    BY <1>6 DEF ReadHeader, ReadBody, StoreByte, AckWhen, TypeOK, sender
  <2>2. Unsent' = Unsent /\ SendWaits' = SendWaits
    BY <2>1 DEF Unsent, SendWaits
  <2> QED  BY <1>t, <1>w, <2>1, <2>2 DEF Work
<1> QED  BY <1>1, <1>2, <1>3, <1>4, <1>5, <1>6 DEF Next, Send, Read

(* Every step but the start of another message uses up work, whatever is   *)
(* lost: no loop of uart_send_message and uart_read_message turns for      *)
(* nothing, and the header search cannot go on for ever.                   *)
WorkShrinks == [][StartSend \/ Work' < Work]_vars

(* The loops of the two calls use up their work.                           *)
THEOREM LoopsEnd == Spec => WorkShrinks
<1>1. TypeOK /\ TypeOK' /\ [Next]_vars => [StartSend \/ Work' < Work]_vars
  BY WorkUsed
<1> QED  BY <1>1, LinkTypeCorrect, PTL DEF Spec, WorkShrinks

(* On a clean line the header search never starts again and never times    *)
(* out: every byte uart_read_message takes there is the magic byte it      *)
(* expects.                                                                *)
HeaderIsFoundAtOnce ==
    [][lost = 0 => /\ ~HeaderTimeout
                   /\ ReadHeader => rPc' = "body" \/ rI' = rI + 1]_vars

(* On a clean line the first byte taken begins the header.                 *)
THEOREM CleanHeadersAreFound == Spec => HeaderIsFoundAtOnce
<1>1. TypeOK /\ LinkInv /\ [Next]_vars
        => [lost = 0 => /\ ~HeaderTimeout
                        /\ ReadHeader => rPc' = "body" \/ rI' = rI + 1]_vars
  <2> SUFFICES ASSUME TypeOK, LinkInv, lost = 0
               PROVE  ~HeaderTimeout /\ (ReadHeader => rPc' = "body" \/ rI' = rI + 1)
    OBVIOUS
  <2>1. Lossless
    BY DEF Lossless, LinkInv
  <2>2. ReadHeader => rPc' = "body" \/ rI' = rI + 1
    <3> SUFFICES ASSUME ReadHeader PROVE rPc' = "body" \/ rI' = rI + 1
      OBVIOUS
    <3>1. rPc = "hdr" /\ fifo # <<>> /\ rI \in Nat /\ rI < HdrLen
      BY DEF ReadHeader, TypeOK
    <3>2. Head(fifo) = rI
      BY <2>1, <3>1, LengthTypes, LengthsAssumption
      DEF Lossless, InTransit, ReadPos, ByteAt, MessageLen
    <3>3. IsMagic(Head(fifo), rI) = {TRUE}
      BY <3>1, <3>2 DEF IsMagic
    <3> QED  BY <3>3 DEF ReadHeader
  <2> QED  BY <2>1, <2>2, CleanReaderFinds
<1> QED  BY <1>1, LinkTypeCorrect, LinkInvariance, PTL DEF Spec, HeaderIsFoundAtOnce

-----------------------------------------------------------------------------
(* The liveness that follows.  Two things the provers do not know are      *)
(* hypotheses, and no behaviour of Spec is without them: an action is      *)
(* ENABLED when its guard holds (GuardsEnable), and a natural number that  *)
(* never grows is the same from some time on (WorkSettles).                *)
GuardsEnable ==
    /\ SendCanGo => ENABLED <<Send>>_vars
    /\ ArriveCanGo => ENABLED <<Arrive>>_vars
    /\ ReadCanGo => ENABLED <<Read>>_vars

(* Work with the messages that have not been begun.                        *)
AllWork == Work + (9 * MessageLen + 1) * (IF started <= MaxMsgs THEN MaxMsgs - started ELSE 0)

WorkSettles ==
    [](AllWork \in Nat) /\ [][AllWork' <= AllWork]_vars => <>[][AllWork' = AllWork]_vars

LEMMA AllWorkShrinks == TypeOK /\ TypeOK' /\ [Next]_vars => [AllWork' < AllWork]_vars
<1> SUFFICES ASSUME TypeOK, TypeOK', Next, vars' # vars PROVE AllWork' < AllWork
  OBVIOUS
<1> DEFINE Left == IF started <= MaxMsgs THEN MaxMsgs - started ELSE 0
           Big == 9 * MessageLen + 1
<1>t. /\ MessageLen \in Nat /\ Big \in Nat /\ Left \in Nat /\ started \in Nat
      /\ MaxMsgs \in Nat /\ Big' = Big
  BY LengthsAssumption DEF TypeOK, MessageLen
<1>w. Work \in Nat /\ Work' \in Nat
  <2>1. TypeOK' => WorkTypes'
    BY WorkType, PTL
  <2> QED  BY <2>1, WorkType DEF WorkTypes
<1>1. AllWork = Work + Big * Left /\ AllWork' = Work' + Big * Left'
  BY DEF AllWork
<1> HIDE DEF Big, Left
<1>2. CASE StartSend
  <2>1. Left' = Left - 1
    BY <1>t, <1>2 DEF StartSend, Left
  <2>2. Big * Left' = Big * Left - Big /\ Big * Left \in Int
    BY <1>t, <2>1
  <2>3. /\ sPc = "idle" /\ sPc' = "hdr" /\ sI' = 0
        /\ UNCHANGED <<line, fifo, acks, rPc>>
    BY <1>2 DEF StartSend, reader
  <2>4. Work' = Work + 9 * MessageLen
    <3>1. Unsent = 0 /\ Unsent' = MessageLen
      BY <2>3, LengthsAssumption DEF Unsent, MessageLen
    <3>2. SendWaits = 0 /\ SendWaits' = 0 /\ ReadWaits' = ReadWaits
      BY <2>3 DEF SendWaits, ReadWaits
    <3>3. ReadWaits \in Nat /\ Len(line) \in Nat /\ Len(fifo) \in Nat /\ acks \in Nat
      BY WorkType DEF WorkTypes, TypeOK
    <3> QED  BY <1>t, <2>3, <3>1, <3>2, <3>3 DEF Work
  <2> QED  BY <1>t, <1>w, <1>1, <2>2, <2>4 DEF Big
<1>3. CASE ~StartSend
  <2>1. Work' < Work
    BY <1>3, WorkUsed
  <2>2. started' = started
    BY <1>3 DEF Next, Send, PutHeader, PutByte, GetAck, Arrive, Lose, Read, Poll, ReadHeader,
                HeaderTimeout, ReadBody, StoreByte, sender
  <2>3. Left' = Left /\ Big * Left \in Int
    BY <1>t, <2>2 DEF Left
  <2> QED  BY <1>w, <1>1, <2>1, <2>3
<1> QED  BY <1>2, <1>3

LEMMA AllWorkType == TypeOK => AllWork \in Nat
<1> SUFFICES ASSUME TypeOK PROVE AllWork \in Nat
  OBVIOUS
<1> DEFINE Left == IF started <= MaxMsgs THEN MaxMsgs - started ELSE 0
           Big == 9 * MessageLen + 1
<1>1. Big \in Nat /\ Left \in Nat /\ Work \in Nat
  BY WorkType, LengthsAssumption DEF WorkTypes, TypeOK, MessageLen
<1>2. AllWork = Work + Big * Left
  BY DEF AllWork
<1> HIDE DEF Big, Left
<1>3. Big * Left \in Nat
  BY <1>1
<1> QED  BY <1>1, <1>2, <1>3

(* Both calls of the device UART return on a clean line, and the header    *)
(* search returns whatever is lost: SendReturns, ReadReturns and           *)
(* HeaderReadEnds.                                                         *)
THEOREM CallsReturn ==
    FairSpec /\ []GuardsEnable /\ WorkSettles => SendReturns /\ ReadReturns /\ HeaderReadEnds
<1>1. TypeOK => AllWork \in Nat
  BY AllWorkType
<1>2. TypeOK /\ TypeOK' /\ [Next]_vars => [AllWork' < AllWork]_vars
  BY AllWorkShrinks
<1>3. AllWork \in Nat /\ (AllWork \in Nat)' /\ [AllWork' < AllWork]_vars => [AllWork' <= AllWork]_vars
  <2> HIDE DEF AllWork
  <2> QED  OBVIOUS
<1>4. AllWork \in Nat /\ (AllWork \in Nat)' /\ [AllWork' < AllWork]_vars /\ [AllWork' = AllWork]_vars
        => [FALSE]_vars
  <2> HIDE DEF AllWork
  <2> QED  OBVIOUS
<1>5. [FALSE]_vars => /\ SendCanGo => SendCanGo'
                      /\ ArriveCanGo => ArriveCanGo'
                      /\ ReadCanGo => ReadCanGo'
  BY DEF vars, SendCanGo, ArriveCanGo, ReadCanGo
<1>6. NobodyIsStuck => \/ SendCanGo \/ ArriveCanGo \/ ReadCanGo
                       \/ rPc # "hdr" /\ (lost # 0 \/ (sPc = "idle" /\ rPc = "main"))
  BY DEF NobodyIsStuck, SomebodyCanGo
<1>7. TypeOK => (lost # 0 <=> lost > 0)
  BY DEF TypeOK
<1>8. Spec => [](AllWork \in Nat) /\ [][AllWork' < AllWork]_vars
  BY <1>1, <1>2, LinkTypeCorrect, PTL DEF Spec
<1>9. Spec /\ WorkSettles => <>[][AllWork' = AllWork]_vars
  BY <1>3, <1>8, PTL DEF WorkSettles
<1>10. Spec /\ WorkSettles => <>[][FALSE]_vars
  BY <1>4, <1>8, <1>9, PTL
<1>11. FairSpec /\ []GuardsEnable /\ WorkSettles => <>[](~SendCanGo /\ ~ArriveCanGo /\ ~ReadCanGo)
  BY <1>5, <1>10, PTL DEF FairSpec, GuardsEnable
<1> QED
  BY <1>6, <1>7, <1>11, LinkTypeCorrect, CallsGoOn, PTL
  DEF FairSpec, SendReturns, ReadReturns, HeaderReadEnds

=============================================================================
