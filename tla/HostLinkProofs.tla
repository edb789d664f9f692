--------------------------- MODULE HostLinkProofs ---------------------------
(***************************************************************************)
(* Proofs about HostLink, for any chunk length, any number of chunks, any  *)
(* FIFO that satisfies HostFifoAssumption and any bytes in the commands:   *)
(* no command is handled twice whatever the hosts do, and while they keep  *)
(* to dev_send nothing is dropped and every command is taken as sent.      *)
(***************************************************************************)
EXTENDS HostLink, TLAPS

LEMMA ChunkFacts ==
  /\ Chunk \in Nat /\ Chunk >= 1 /\ Chunks \in Nat /\ Chunks >= 1
  /\ PacketLen \in Nat /\ PacketLen >= Chunk /\ Chunk * Chunks = PacketLen
  /\ Chunk * 0 = 0 /\ Chunk * 1 = Chunk
  /\ \A m \in 0 .. Chunks : Chunk * m \in Nat /\ Chunk * m <= PacketLen
  /\ \A m \in Nat : m < Chunks => Chunk * m + Chunk <= PacketLen
  /\ \A m \in Nat : Chunk * (m + 1) = Chunk * m + Chunk
<1>1. Chunk \in Nat /\ Chunk >= 1 /\ Chunks \in Nat /\ Chunks >= 1
  BY HostAssumption
<1>2. ASSUME NEW a \in Nat, NEW m \in Nat, NEW n0 \in Nat, m <= n0 PROVE a * m <= a * n0 /\ a * m \in Nat
  <2>1. PICK e \in Nat : n0 = m + e
    BY <1>2
  <2>2. a * n0 = a * m + a * e /\ a * e \in Nat /\ a * m \in Nat
    BY <2>1
  <2> QED  BY <2>2
<1>3. ASSUME NEW a \in Nat, NEW m \in Nat PROVE a * (m + 1) = a * m + a
  OBVIOUS
<1>4. PacketLen \in Nat /\ Chunk * Chunks = PacketLen /\ PacketLen >= Chunk
  BY <1>1, <1>2 DEF PacketLen
<1>5. \A m \in 0 .. Chunks : Chunk * m \in Nat /\ Chunk * m <= PacketLen
  BY <1>1, <1>2, <1>4
<1>6. ASSUME NEW m \in Nat, m < Chunks PROVE Chunk * m + Chunk <= PacketLen
  <2>1. Chunk * (m + 1) <= Chunk * Chunks
    BY <1>1, <1>2, <1>6
  <2> QED  BY <1>1, <1>3, <1>4, <2>1
<1> QED  BY <1>1, <1>3, <1>4, <1>5, <1>6

LEMMA BytesOfCommand ==
  /\ \A c \in Nat : Marker(c) \in Byte
  /\ \A c \in Nat, m \in Nat : m < Chunks => ChunkOf(c, m) \in Seq(Byte) /\ Len(ChunkOf(c, m)) = Chunk
  /\ \A c \in Nat : Command(c) \in Seq(Byte) /\ Len(Command(c)) = PacketLen
<1>1. \A c \in Nat : Marker(c) \in Byte
  BY ChunkFacts DEF Marker, Byte
<1>2. ASSUME NEW c \in Nat, NEW i \in Nat, NEW j \in Nat, j - i + 1 \in Nat, j < PacketLen
      PROVE  Part(c, i, j) \in Seq(Byte) /\ Len(Part(c, i, j)) = j - i + 1
  <2>1. \A p \in 1 .. j - i + 1 : [cmd |-> c, at |-> i + p - 1] \in Byte
    BY <1>2, ChunkFacts DEF Byte
  <2> QED  BY <1>2, <2>1 DEF Part
<1>3. ASSUME NEW c \in Nat, NEW m \in Nat, m < Chunks
      PROVE  ChunkOf(c, m) \in Seq(Byte) /\ Len(ChunkOf(c, m)) = Chunk
  <2> DEFINE lo == Chunk * m
  <2>1. lo \in Nat /\ lo + Chunk <= PacketLen /\ Chunk >= 1 /\ Chunk \in Nat /\ PacketLen \in Nat
    BY <1>3, ChunkFacts
  <2> HIDE DEF lo
  <2>2. PICK j \in Nat : j = lo + Chunk - 1
    BY <2>1
  <2>3. j - lo + 1 = Chunk /\ j < PacketLen
    BY <2>1, <2>2
  <2>4. Part(c, lo, j) \in Seq(Byte) /\ Len(Part(c, lo, j)) = Chunk
    BY <1>2, <2>1, <2>3
  <2> QED  BY <2>2, <2>4 DEF ChunkOf, lo
<1>4. ASSUME NEW c \in Nat PROVE Command(c) \in Seq(Byte) /\ Len(Command(c)) = PacketLen
  <2>1. PacketLen \in Nat /\ PacketLen >= 1
    BY ChunkFacts
  <2>2. PICK j \in Nat : j = PacketLen - 1
    BY ONLY <2>1
  <2>3. 0 \in Nat /\ j - 0 + 1 = PacketLen /\ j < PacketLen
    BY ONLY <2>1, <2>2
  <2>4. Part(c, 0, j) \in Seq(Byte) /\ Len(Part(c, 0, j)) = PacketLen
    BY <1>2, <2>1, <2>3
  <2> QED  BY <2>2, <2>4 DEF Command
<1> QED  BY <1>1, <1>3, <1>4

-----------------------------------------------------------------------------
LEMMA HostTypeInit == Init => TypeOK
<1> SUFFICES ASSUME Init PROVE TypeOK
  OBVIOUS
<1>1. back \in Nat /\ breaches \in Nat
  <2>1. \/ back = 0 /\ breaches = 0
        \/ back \in Unasked /\ breaches = 1
    BY DEF Init
  <2>2. Unasked \subseteq Nat
    BY HostAssumption
  <2>3. back \in Unasked => back \in Nat
    BY <2>2, Zenon
  <2>4. back = 0 => back \in Nat
    OBVIOUS
  <2>5. breaches = 0 \/ breaches = 1 => breaches \in Nat
    OBVIOUS
  <2> QED  BY <2>1, <2>3, <2>4, <2>5, Zenon
<1>2. /\ hPc = "idle" /\ sent = 0 /\ n = 0 /\ fPc = "loop" /\ dropped = 0
      /\ line = <<>> /\ fifo = <<>> /\ packet = <<>> /\ taken = <<>>
  BY DEF Init
<1> QED  BY <1>1, <1>2, ChunkFacts DEF TypeOK

LEMMA HostTypeStep == TypeOK /\ [Next]_vars => TypeOK'
<1> SUFFICES ASSUME TypeOK, [Next]_vars PROVE TypeOK'
  OBVIOUS
<1> USE ChunkFacts
<1>0. line \in Seq(Byte) /\ fifo \in Seq(Byte) /\ packet \in Seq(Byte) /\ n \in Nat
  BY DEF TypeOK
<1>1. CASE Begin
  <2>1. line' \in Seq(Byte)
    <3>1. Marker(n + 1) \in Byte /\ ChunkOf(n + 1, 0) \in Seq(Byte)
      BY <1>0, BytesOfCommand
    <3> QED  BY <1>0, <1>1, <3>1 DEF Begin
  <2> QED  BY <1>1, <2>1 DEF Begin, TypeOK, fob
<1>2. CASE BeginUnmarked
  <2>1. line' \in Seq(Byte)
    <3>1. Command(n + 1) \in Seq(Byte)
      BY <1>0, BytesOfCommand
    <3> QED  BY <1>0, <1>2, <3>1 DEF BeginUnmarked
  <2> QED  BY <1>2, <2>1 DEF BeginUnmarked, TypeOK, fob
<1>3. CASE Recv
  <2>1. line' \in Seq(Byte)
    <3>1. sent \in Nat /\ (sent < Chunks => ChunkOf(n, sent) \in Seq(Byte))
      BY <1>0, BytesOfCommand DEF TypeOK
    <3>2. line' = line \/ (sent < Chunks /\ line' = line \o ChunkOf(n, sent))
      BY <1>3 DEF Recv
    <3>3. \A a \in Seq(Byte), b \in Seq(Byte) : a \o b \in Seq(Byte)
      OBVIOUS
    <3> QED  BY <1>0, <3>1, <3>2, <3>3, Zenon
  <2> QED  BY <1>3, <2>1 DEF Recv, TypeOK, fob
<1>4. CASE Answer
  BY <1>4 DEF Answer, TypeOK, fob
<1>5. CASE Quit
  BY <1>5 DEF Quit, TypeOK, fob
<1>6. CASE GoOn
  <2>1. back' \in Nat
    BY <1>6 DEF GoOn, TypeOK
  <2> QED  BY <1>6, <2>1 DEF GoOn, TypeOK, fob
<1>7. CASE Arrive
  <2>1. line' \in Seq(Byte) /\ fifo' \in Seq(Byte) /\ dropped' \in Nat
    <3>1. Head(line) \in Byte /\ Tail(line) \in Seq(Byte)
      BY <1>0, <1>7 DEF Arrive
    <3>2. fifo' = fifo \/ fifo' = Append(fifo, Head(line))
      BY <1>7 DEF Arrive
    <3>3. fifo' \in Seq(Byte)
      <4>1. fifo \in Seq(Byte) /\ Head(line) \in Byte
        BY <1>0, <3>1
      <4>2. Append(fifo, Head(line)) \in Seq(Byte)
        BY ONLY <4>1
      <4> QED  BY ONLY <3>2, <4>1, <4>2
    <3>4. dropped' = dropped \/ dropped' = dropped + 1
      BY <1>7 DEF Arrive
    <3> QED  BY <1>7, <3>1, <3>3, <3>4 DEF Arrive, TypeOK
  <2> QED  BY <1>7, <2>1 DEF Arrive, TypeOK, host, fob
<1>8. CASE TakeMarker
  BY <1>8 DEF TakeMarker, TypeOK, host
<1>9. CASE TakeByte
  <2>1. Head(fifo) \in Byte /\ Tail(fifo) \in Seq(Byte)
    BY <1>0, <1>9 DEF TakeByte
  <2>2. packet' \in Seq(Byte) /\ Len(packet') = Len(packet) + 1
    BY <1>0, <1>9, <2>1 DEF TakeByte
  <2>3. Len(packet) < PacketLen /\ Len(packet) \in Nat
    BY <1>0, <1>9 DEF TakeByte, TypeOK
  <2>4. fPc' \in {"read", "handle"} /\ (fPc' = "read" => Len(packet) + 1 < PacketLen)
    BY <1>9 DEF TakeByte
  <2>5. taken' \in Seq(Seq(Byte))
    <3>1. taken' = taken \/ taken' = Append(taken, packet')
      BY <1>9 DEF TakeByte
    <3>2. packet' \in Seq(Byte) /\ taken \in Seq(Seq(Byte))
      BY <2>2 DEF TypeOK
    <3>3. \A x \in Seq(Byte) : Append(taken, x) \in Seq(Seq(Byte))
      BY ONLY <3>2
    <3> QED  BY ONLY <3>1, <3>2, <3>3
  <2>6. back' \in Nat
    <3> DEFINE ack == IF Acked(Len(packet)) THEN 1 ELSE 0
    <3>1. ack \in Nat
      OBVIOUS
    <3>2. back' = back + ack \/ back' = back + ack + 4
      BY <1>9 DEF TakeByte
    <3> HIDE DEF ack
    <3> QED  BY <3>1, <3>2 DEF TypeOK
  <2>7. UNCHANGED <<hPc, sent, n, breaches, line, dropped>> /\ fifo' = Tail(fifo)
    BY <1>9 DEF TakeByte, host
  <2> QED  BY <2>1, <2>2, <2>3, <2>4, <2>5, <2>6, <2>7 DEF TypeOK
<1>10. CASE Speak
  <2>1. back' \in Nat
    BY <1>10, HostAssumption DEF Speak, TypeOK
  <2> QED  BY <1>10, <2>1 DEF Speak, TypeOK, host
<1>11. CASE Return \/ PairSent
  BY <1>11 DEF Return, PairSent, TypeOK, host
<1>13. CASE ReportPairing
  <2>1. back' \in Nat
    BY <1>13, HostAssumption DEF ReportPairing, TypeOK
  <2> QED  BY <1>13, <2>1 DEF ReportPairing, TypeOK, fob
<1>12. CASE UNCHANGED vars
  BY <1>12 DEF vars, TypeOK
<1> QED
  BY <1>1, <1>2, <1>3, <1>4, <1>5, <1>6, <1>7, <1>8, <1>9, <1>10, <1>11, <1>12, <1>13
  DEF Next, Host, Fob

(* The variables have their types, and uart_read_host_data stays within    *)
(* its packet, whatever the hosts send.                                    *)
THEOREM HostTypeCorrect == Spec => []TypeOK
  BY HostTypeInit, HostTypeStep, PTL DEF Spec

-----------------------------------------------------------------------------
(* Which indices are acknowledged: of those around the last chunk sent but *)
(* one, only its first.                                                    *)
LEMMA AckFacts ==
  ASSUME NEW m \in Nat, m >= 1, NEW i \in Nat
  PROVE  /\ i = Chunk * m - Chunk => Acked(i)
         /\ Chunk * m - 2 * Chunk < i /\ i < Chunk * m - Chunk => ~Acked(i)
         /\ Chunk * m - Chunk < i /\ i < Chunk * m => ~Acked(i)
<1>1. Chunk \in Nat \ {0}
  BY HostAssumption
<1>2. ASSUME NEW a \in Nat \ {0}, NEW q \in Int, NEW r \in 0 .. a - 1 PROVE (a * q + r) % a = r
  OBVIOUS
<1>3. ASSUME NEW q \in Int, NEW r \in 0 .. Chunk - 1, i = Chunk * q + r PROVE Acked(i) <=> r = 0
  BY <1>1, <1>2, <1>3 DEF Acked
<1>4. /\ Chunk * (m - 1) = Chunk * m - Chunk /\ Chunk * (m - 2) = Chunk * m - 2 * Chunk
      /\ m - 1 \in Int /\ m - 2 \in Int /\ Chunk * m \in Nat
  BY <1>1
<1>5. CASE i = Chunk * m - Chunk
  <2>1. i = Chunk * (m - 1) + 0 /\ 0 \in 0 .. Chunk - 1
    BY <1>1, <1>4, <1>5
  <2> QED  BY <1>1, <1>3, <1>4, <1>5, <2>1
<1>6. CASE Chunk * m - 2 * Chunk < i /\ i < Chunk * m - Chunk
  <2>1. PICK r \in Int : r = i - (Chunk * m - 2 * Chunk)
    BY <1>1, <1>4
  <2>2. r \in 0 .. Chunk - 1 /\ r # 0 /\ i = Chunk * (m - 2) + r
    BY <1>1, <1>4, <1>6, <2>1
  <2>3. ~Acked(i)
    BY <1>3, <2>2
  <2>4. i # Chunk * m - Chunk /\ ~(Chunk * m - Chunk < i)
    BY <1>1, <1>4, <1>6
  <2> QED  BY <1>6, <2>3, <2>4, Zenon
<1>7. CASE Chunk * m - Chunk < i /\ i < Chunk * m
  <2>1. PICK r \in Int : r = i - (Chunk * m - Chunk)
    BY <1>1, <1>4
  <2>2. r \in 0 .. Chunk - 1 /\ r # 0 /\ i = Chunk * (m - 1) + r
    BY <1>1, <1>4, <1>7, <2>1
  <2>3. ~Acked(i)
    BY <1>3, <2>2
  <2>4. i # Chunk * m - Chunk /\ ~(i < Chunk * m - Chunk)
    BY <1>1, <1>4, <1>7
  <2> QED  BY <1>7, <2>3, <2>4, Zenon
<1> QED  BY <1>5, <1>6, <1>7

-----------------------------------------------------------------------------
(* Why nothing is dropped.  Got bytes of the command at hand are taken,    *)
(* what follows them is under way, and the host has sent a chunk beyond    *)
(* the one the fob is reading only when that one's '*' has been written.   *)
Pending == n = Len(taken) + 1
Got == IF fPc = "read" THEN Len(packet) + 1 ELSE 0
Sent == Chunk * sent

Amount == Got + Len(fifo) + Len(line) = IF Pending THEN 1 + Sent ELSE 0
InFifo == \A p \in DOMAIN fifo : fifo[p] = [cmd |-> n, at |-> Got + p - 2]
OnLine == \A p \in DOMAIN line : line[p] = [cmd |-> n, at |-> Got + Len(fifo) + p - 2]

Turns ==
    /\ Pending \/ n = Len(taken)
    /\ Pending => /\ fPc # "handle" /\ hPc # "idle" /\ sent >= 1
                  /\ sent >= 2 \/ hPc = "answer" => fPc = "read"
    /\ hPc = "idle" => fPc \in {"store", "pair", "loop"} /\ back = 0
    /\ hPc = "recv" /\ ~Pending => sent = Chunks
    /\ fPc = "read" => Pending
ReadSoFar == fPc = "read" => \A p \in DOMAIN packet : packet[p] = [cmd |-> n, at |-> p - 1]
Credit ==
    /\ hPc = "recv" /\ Pending =>
         /\ back \in {0, 1}
         /\ fPc = "read" => Len(packet) > Sent - 2 * Chunk
         /\ back = 0 /\ fPc = "read" => Len(packet) <= Sent - Chunk
         /\ back = 1 => fPc = "read" /\ Len(packet) > Sent - Chunk
    /\ hPc = "answer" /\ Pending =>
         /\ back = 0 /\ sent = Chunks
         /\ Len(packet) > PacketLen - Chunk

AllTaken == \A i \in DOMAIN taken : i <= n /\ taken[i] = Command(i)

Orderly ==
    /\ dropped = 0 /\ AllTaken
    /\ Amount /\ InFifo /\ OnLine /\ Turns /\ ReadSoFar /\ Credit
HostInv == breaches = 0 => Orderly

LEMMA HostInit == Init => HostInv
  BY ChunkFacts
  DEF Init, HostInv, Orderly, AllTaken, Amount, InFifo, OnLine, Turns, ReadSoFar, Credit, Pending, Got

LEMMA HostTypes ==
  ASSUME TypeOK
  PROVE  /\ Len(fifo) \in Nat /\ Len(line) \in Nat /\ Len(packet) \in Nat /\ Len(taken) \in Nat
         /\ DOMAIN fifo = 1 .. Len(fifo) /\ DOMAIN line = 1 .. Len(line)
         /\ DOMAIN packet = 1 .. Len(packet) /\ DOMAIN taken = 1 .. Len(taken)
         /\ n \in Nat /\ sent \in Nat /\ sent <= Chunks /\ back \in Nat /\ Got \in Nat
         /\ Sent \in Nat /\ Sent <= PacketLen
<1>1. /\ Len(fifo) \in Nat /\ Len(line) \in Nat /\ Len(packet) \in Nat
      /\ DOMAIN fifo = 1 .. Len(fifo) /\ DOMAIN line = 1 .. Len(line)
      /\ DOMAIN packet = 1 .. Len(packet)
  BY DEF TypeOK
<1>2. Len(taken) \in Nat /\ DOMAIN taken = 1 .. Len(taken)
  BY DEF TypeOK
<1>3. n \in Nat /\ sent \in 0 .. Chunks /\ sent \in Nat /\ sent <= Chunks /\ back \in Nat
  BY ChunkFacts DEF TypeOK
<1>4. Sent \in Nat /\ Sent <= PacketLen
  BY <1>3, ChunkFacts DEF Sent
<1>5. Got \in Nat
  BY <1>1 DEF Got
<1> QED  BY <1>1, <1>2, <1>3, <1>4, <1>5

(* There is room for what is on the line.                                  *)
LEMMA RoomInFifo ==
  ASSUME TypeOK, Orderly, line # <<>>
  PROVE  Len(fifo) < FifoCap
<1>1. Len(line) >= 1
  BY DEF TypeOK
<1>2. Pending /\ Got + Len(fifo) + Len(line) = 1 + Sent
  BY <1>1, HostTypes DEF Orderly, Amount
<1>3. FifoCap \in Nat /\ FifoCap >= 2 * Chunk - 1 /\ FifoCap > Chunk
  BY HostAssumption, HostFifoAssumption
<1>4. CASE fPc = "read"
  <2>1. Got = Len(packet) + 1
    BY <1>4 DEF Got
  <2>2. Len(packet) > Sent - 2 * Chunk
    <3>1. CASE hPc = "recv"
      BY <1>2, <1>4, <3>1 DEF Orderly, Credit
    <3>2. CASE hPc = "answer"
      <4>1. Len(packet) > PacketLen - Chunk /\ Sent <= PacketLen
        BY <1>2, <3>2, HostTypes DEF Orderly, Credit
      <4> QED  BY <4>1, HostTypes, ChunkFacts
    <3> QED  BY <1>2, <3>1, <3>2 DEF Orderly, Turns, TypeOK
  <2>3. Len(packet) \in Nat /\ Len(fifo) \in Nat /\ Len(line) \in Nat /\ Sent \in Nat /\ Chunk \in Nat
    BY HostTypes, ChunkFacts
  <2> QED  BY ONLY <1>1, <1>2, <1>3, <2>1, <2>2, <2>3
<1>5. CASE fPc # "read"
  <2>1. Got = 0 /\ sent = 1 /\ Sent = Chunk
    <3>1. sent = 1
      BY <1>2, <1>5, HostTypes DEF Orderly, Turns
    <3> QED  BY <1>5, <3>1, ChunkFacts DEF Got, Sent
  <2>2. Len(fifo) \in Nat /\ Len(line) \in Nat /\ Chunk \in Nat
    BY HostTypes, ChunkFacts
  <2> QED  BY ONLY <1>1, <1>2, <1>3, <2>1, <2>2
<1> QED  BY <1>4, <1>5

(* The next byte the fob takes.                                            *)
LEMMA NextByte ==
  ASSUME TypeOK, Orderly, fifo # <<>>
  PROVE  /\ Head(fifo) = [cmd |-> n, at |-> Got - 1] /\ Pending
         /\ Len(Tail(fifo)) = Len(fifo) - 1 /\ Len(fifo) >= 1
         /\ \A p \in 1 .. Len(fifo) - 1 : Tail(fifo)[p] = fifo[p + 1]
<1>1. /\ Len(fifo) >= 1 /\ Head(fifo) = fifo[1] /\ Len(Tail(fifo)) = Len(fifo) - 1
      /\ \A p \in 1 .. Len(fifo) - 1 : Tail(fifo)[p] = fifo[p + 1]
  BY DEF TypeOK
<1>2. fifo[1] = [cmd |-> n, at |-> Got + 1 - 2]
  BY <1>1, HostTypes DEF Orderly, InFifo
<1>3. Got + 1 - 2 = Got - 1
  BY HostTypes
<1>4. Pending
  BY <1>1, HostTypes DEF Orderly, Amount
<1> QED  BY <1>1, <1>2, <1>3, <1>4

-----------------------------------------------------------------------------
LEMMA ChunkTypes ==
  /\ Chunk \in Nat /\ Chunk >= 1 /\ Chunks \in Nat /\ Chunks >= 1
  /\ PacketLen \in Nat /\ PacketLen >= Chunk
  BY ChunkFacts

LEMMA ChunkBytes ==
  ASSUME NEW c \in Nat, NEW m \in Nat, m < Chunks
  PROVE  /\ ChunkOf(c, m) \in Seq(Byte) /\ Len(ChunkOf(c, m)) = Chunk
         /\ \A p \in 1 .. Chunk : ChunkOf(c, m)[p] = [cmd |-> c, at |-> Chunk * m + p - 1]
<1> DEFINE lo == Chunk * m
<1>1. lo \in Nat /\ Chunk \in Nat
  BY ChunkFacts
<1>2. ChunkOf(c, m) = Part(c, lo, lo + Chunk - 1)
  BY DEF ChunkOf
<1> HIDE DEF lo
<1>3. PICK j \in Int : j = lo + Chunk - 1
  BY <1>1
<1>4. 1 .. j - lo + 1 = 1 .. Chunk
  BY <1>1, <1>3
<1>5. ChunkOf(c, m) = [p \in 1 .. Chunk |-> [cmd |-> c, at |-> lo + p - 1]]
  BY <1>2, <1>3, <1>4 DEF Part
<1>6. \A p \in 1 .. Chunk : ChunkOf(c, m)[p] = [cmd |-> c, at |-> lo + p - 1]
  BY <1>5
<1> QED  BY <1>6, BytesOfCommand DEF lo

LEMMA OrderlyBegin ==
  ASSUME TypeOK, TypeOK', Orderly, Begin
  PROVE  Orderly'
<1> USE ChunkTypes
<1>1. /\ hPc = "idle" /\ hPc' = "recv" /\ sent' = 1 /\ n' = n + 1
      /\ line' = line \o <<Marker(n + 1)>> \o ChunkOf(n + 1, 0)
      /\ UNCHANGED <<fifo, back, fPc, packet, taken, dropped>>
  BY DEF Begin, fob
<1>2. ~Pending /\ n = Len(taken) /\ fPc \in {"store", "pair", "loop"} /\ back = 0
  BY <1>1 DEF Orderly, Turns
<1>3. Got = 0 /\ Got' = 0
  BY <1>1, <1>2 DEF Got
<1>4. Len(fifo) = 0 /\ Len(line) = 0 /\ line \in Seq(Byte) /\ fifo \in Seq(Byte)
  BY <1>2, <1>3, HostTypes DEF Orderly, Amount, TypeOK
<1>5. n + 1 \in Nat /\ n \in Nat
  BY HostTypes
<1>6. /\ ChunkOf(n + 1, 0) \in Seq(Byte) /\ Len(ChunkOf(n + 1, 0)) = Chunk
      /\ \A p \in 1 .. Chunk : ChunkOf(n + 1, 0)[p] = [cmd |-> n + 1, at |-> p - 1]
  <2>1. Chunk * 0 = 0 /\ 0 < Chunks
    OBVIOUS
  <2>2. /\ ChunkOf(n + 1, 0) \in Seq(Byte) /\ Len(ChunkOf(n + 1, 0)) = Chunk
        /\ \A p \in 1 .. Chunk : ChunkOf(n + 1, 0)[p] = [cmd |-> n + 1, at |-> Chunk * 0 + p - 1]
    BY <1>5, <2>1, ChunkBytes
  <2>3. \A p \in 1 .. Chunk : Chunk * 0 + p - 1 = p - 1
    BY <2>1
  <2> QED  BY <2>2, <2>3
<1>7. Marker(n + 1) = [cmd |-> n + 1, at |-> -1] /\ Marker(n + 1) \in Byte
  BY <1>5, BytesOfCommand DEF Marker
<1>8. /\ Len(line') = 1 + Chunk
      /\ line'[1] = [cmd |-> n + 1, at |-> -1]
      /\ \A p \in 2 .. 1 + Chunk : line'[p] = [cmd |-> n + 1, at |-> p - 2]
  <2> DEFINE c == ChunkOf(n + 1, 0)
             mk == Marker(n + 1)
  <2>1. line = <<>>
    BY <1>4
  <2>2. line' = <<mk>> \o c
    BY <1>1, <2>1, <1>6, <1>7
  <2>3. c \in Seq(Byte) /\ Len(c) = Chunk /\ mk \in Byte
    BY <1>6, <1>7
  <2> HIDE DEF c, mk
  <2>4. /\ Len(<<mk>> \o c) = 1 + Chunk /\ (<<mk>> \o c)[1] = mk
        /\ \A p \in 2 .. 1 + Chunk : (<<mk>> \o c)[p] = c[p - 1]
    BY <2>3
  <2>5. \A p \in 2 .. 1 + Chunk : p - 1 \in 1 .. Chunk /\ p - 1 - 1 = p - 2
    OBVIOUS
  <2>6. \A p \in 2 .. 1 + Chunk : c[p - 1] = [cmd |-> n + 1, at |-> p - 2]
    BY <1>6, <2>5 DEF c
  <2>7. mk = [cmd |-> n + 1, at |-> -1]
    BY <1>7 DEF mk
  <2> QED  BY <2>2, <2>4, <2>6, <2>7
<1>9. Pending' /\ Sent' = Chunk
  BY <1>1, <1>2 DEF Pending, Sent
<1>10. Amount'
  BY <1>1, <1>3, <1>4, <1>8, <1>9 DEF Amount
<1>11. InFifo'
  BY <1>1, <1>4 DEF InFifo
<1>12. OnLine'
  <2>1. DOMAIN line' = 1 .. 1 + Chunk
    BY <1>8 DEF TypeOK
  <2>2. ASSUME NEW p \in 1 .. 1 + Chunk
        PROVE  line'[p] = [cmd |-> n', at |-> Got' + Len(fifo') + p - 2]
    <3>1. Got' + Len(fifo') + p - 2 = p - 2
      BY <1>1, <1>3, <1>4
    <3>2. CASE p = 1
      BY <1>1, <1>8, <3>1, <3>2
    <3>3. CASE p \in 2 .. 1 + Chunk
      <4>1. line'[p] = [cmd |-> n + 1, at |-> p - 2]
        BY <1>8, <3>3, Zenon
      <4> QED  BY <1>1, <3>1, <4>1
    <3>4. p = 1 \/ p \in 2 .. 1 + Chunk
      BY <2>2
    <3> QED  BY <3>2, <3>3, <3>4
  <2> QED  BY <2>1, <2>2 DEF OnLine
<1>13. Turns'
  BY <1>1, <1>2, <1>9 DEF Turns
<1>14. ReadSoFar' /\ Credit'
  BY <1>1, <1>2 DEF ReadSoFar, Credit
<1>15. dropped' = 0 /\ AllTaken'
  <2>1. \A i \in DOMAIN taken : i <= n /\ taken[i] = Command(i)
    BY DEF Orderly, AllTaken
  <2>2. \A i \in DOMAIN taken : i <= n + 1
    BY <2>1, <1>5, HostTypes
  <2> QED  BY <1>1, <2>1, <2>2 DEF Orderly, AllTaken
<1> QED  BY <1>9, <1>10, <1>11, <1>12, <1>13, <1>14, <1>15 DEF Orderly

LEMMA OrderlyRecv ==
  ASSUME TypeOK, TypeOK', Orderly, Recv
  PROVE  Orderly'
<1> USE ChunkTypes
<1>1. /\ hPc = "recv" /\ back > 0 /\ back' = back - 1
      /\ UNCHANGED <<n, fifo, fPc, packet, taken, dropped>>
      /\ \/ sent < Chunks /\ line' = line \o ChunkOf(n, sent) /\ sent' = sent + 1 /\ hPc' = "recv"
         \/ ~(sent < Chunks) /\ hPc' = "answer" /\ UNCHANGED <<line, sent>>
  BY DEF Recv, fob
<1>2. Got' = Got /\ (Pending' <=> Pending) /\ AllTaken' /\ dropped' = 0 /\ InFifo' /\ ReadSoFar'
  BY <1>1 DEF Got, Pending, AllTaken, Orderly, InFifo, ReadSoFar
<1>3. CASE ~(sent < Chunks)
  <2>0. sent = Chunks /\ Chunk * Chunks = PacketLen
    BY <1>3, HostTypes, ChunkFacts
  <2>1. hPc' = "answer" /\ UNCHANGED <<line, sent>> /\ sent = Chunks /\ Sent = PacketLen /\ Sent' = Sent
    BY <1>1, <1>3, <2>0 DEF Sent
  <2>2. Amount' /\ OnLine'
    BY <1>1, <1>2, <2>1 DEF Orderly, Amount, OnLine
  <2>3. Pending => back = 1 /\ fPc = "read" /\ Len(packet) > PacketLen - Chunk
    BY <1>1, <2>1 DEF Orderly, Credit
  <2>4. Turns'
    BY <1>1, <1>2, <2>1, <2>3 DEF Orderly, Turns
  <2>5. Credit'
    BY <1>1, <1>2, <2>1, <2>3 DEF Credit
  <2> QED  BY <1>2, <2>2, <2>4, <2>5 DEF Orderly
<1>4. CASE sent < Chunks
  <2>1. line' = line \o ChunkOf(n, sent) /\ sent' = sent + 1 /\ hPc' = "recv"
    BY <1>1, <1>4
  <2>2. Pending
    BY <1>1, <1>4, HostTypes DEF Orderly, Turns
  <2>3. back = 1 /\ fPc = "read" /\ Len(packet) > Sent - Chunk
    BY <1>1, <2>2 DEF Orderly, Credit
  <2>4. Sent' = Sent + Chunk
    BY <2>1, HostTypes, ChunkFacts DEF Sent
  <2>5. /\ ChunkOf(n, sent) \in Seq(Byte) /\ Len(ChunkOf(n, sent)) = Chunk
        /\ \A p \in 1 .. Chunk : ChunkOf(n, sent)[p] = [cmd |-> n, at |-> Sent + p - 1]
    BY <1>4, HostTypes, ChunkBytes DEF Sent
  <2>6. line \in Seq(Byte)
    BY DEF TypeOK
  <2>7. /\ Len(line') = Len(line) + Chunk
        /\ \A p \in 1 .. Len(line) : line'[p] = line[p]
        /\ \A p \in Len(line) + 1 .. Len(line) + Chunk : line'[p] = ChunkOf(n, sent)[p - Len(line)]
    <3> DEFINE c == ChunkOf(n, sent)
    <3>1. c \in Seq(Byte) /\ Len(c) = Chunk /\ line' = line \o c
      BY <2>1, <2>5
    <3> HIDE DEF c
    <3>a. Chunk \in Nat /\ line \in Seq(Byte) /\ c \in Seq(Byte) /\ Len(c) = Chunk
      BY <2>6, <3>1
    <3>2. /\ Len(line \o c) = Len(line) + Chunk
          /\ \A p \in 1 .. Len(line) : (line \o c)[p] = line[p]
          /\ \A p \in Len(line) + 1 .. Len(line) + Chunk : (line \o c)[p] = c[p - Len(line)]
      BY ONLY <3>a
    <3> QED  BY <3>1, <3>2 DEF c
  <2>8. Got + Len(fifo) + Len(line) = 1 + Sent
    BY <2>2 DEF Orderly, Amount
  <2>9. Amount'
    <3>1. /\ Got \in Nat /\ Len(fifo) \in Nat /\ Len(line) \in Nat
          /\ Sent \in Nat /\ Chunk \in Nat
      BY HostTypes
    <3>2. Got + Len(fifo) + (Len(line) + Chunk) = 1 + (Sent + Chunk)
      BY ONLY <2>8, <3>1
    <3> QED  BY <1>1, <1>2, <2>2, <2>4, <2>7, <3>2 DEF Amount
  <2>10. OnLine'
    <3>1. DOMAIN line' = 1 .. Len(line) + Chunk
      BY <2>7 DEF TypeOK
    <3>2. ASSUME NEW p \in 1 .. Len(line) + Chunk
          PROVE  line'[p] = [cmd |-> n, at |-> Got + Len(fifo) + p - 2]
      <4>1. CASE p <= Len(line)
        <5>1. p \in 1 .. Len(line) /\ DOMAIN line = 1 .. Len(line)
          BY <4>1, HostTypes
        <5> QED  BY <2>7, <5>1 DEF Orderly, OnLine
      <4>2. CASE p > Len(line)
        <5>0. /\ Got \in Nat /\ Len(fifo) \in Nat /\ Len(line) \in Nat
              /\ Sent \in Nat /\ Chunk \in Nat /\ p \in 1 .. Len(line) + Chunk
          BY HostTypes
        <5>1. p - Len(line) \in 1 .. Chunk /\ p \in Len(line) + 1 .. Len(line) + Chunk
          BY ONLY <4>2, <5>0
        <5>2. Sent + (p - Len(line)) - 1 = Got + Len(fifo) + p - 2
          BY ONLY <2>8, <5>0
        <5> QED  BY <2>5, <2>7, <5>1, <5>2
      <4> QED  BY <4>1, <4>2, HostTypes
    <3> QED  BY <1>1, <1>2, <3>1, <3>2 DEF OnLine
  <2>11. Turns'
    BY <1>1, <1>2, <2>1, <2>2, <2>3, HostTypes DEF Orderly, Turns
  <2>12. Credit'
    <3>1. Got = Len(packet) + 1
      BY <2>3 DEF Got
    <3>2. /\ Got \in Nat /\ Len(fifo) \in Nat /\ Len(line) \in Nat /\ Len(packet) \in Nat
          /\ Sent \in Nat /\ Chunk \in Nat
      BY HostTypes
    <3>3. Len(packet) > Sent - Chunk
      BY <2>3
    <3>4. Len(packet) <= (Sent + Chunk) - Chunk /\ Len(packet) > (Sent + Chunk) - 2 * Chunk
      BY ONLY <2>8, <3>1, <3>2, <3>3
    <3>5. Len(packet) <= Sent' - Chunk /\ Len(packet) > Sent' - 2 * Chunk
      BY <2>4, <3>4
    <3>6. back' = 0
      BY <1>1, <2>3
    <3>7. back' \in {0, 1} /\ back' # 1
      BY ONLY <3>6
    <3>8. packet' = packet
      BY <1>1
    <3> QED  BY ONLY <2>1, <3>5, <3>7, <3>8 DEF Credit
  <2> QED  BY <1>2, <2>9, <2>10, <2>11, <2>12 DEF Orderly
<1> QED  BY <1>3, <1>4

LEMMA OrderlyAnswer ==
  ASSUME TypeOK, TypeOK', Orderly, Answer
  PROVE  Orderly'
<1> USE ChunkTypes
<1>1. /\ hPc = "answer" /\ line = <<>> /\ fifo = <<>> /\ fPc \in {"store", "pair", "loop"}
      /\ hPc' = "idle" /\ back' = 0
      /\ UNCHANGED <<sent, n, line, fifo, fPc, packet, taken, dropped>>
  BY DEF Answer, fob
<1>2. ~Pending
  BY <1>1 DEF Orderly, Turns
<1>3. Got' = Got /\ ~Pending' /\ AllTaken' /\ dropped' = 0 /\ InFifo' /\ OnLine' /\ ReadSoFar'
  BY <1>1, <1>2 DEF Got, Pending, AllTaken, Orderly, InFifo, OnLine, ReadSoFar
<1>4. Amount'
  BY <1>1, <1>2, <1>3 DEF Orderly, Amount
<1>5. Turns'
  BY <1>1, <1>2, <1>3 DEF Orderly, Turns, Pending
<1>6. Credit'
  BY <1>3 DEF Credit
<1> QED  BY <1>3, <1>4, <1>5, <1>6 DEF Orderly

LEMMA OrderlyArrive ==
  ASSUME TypeOK, TypeOK', Orderly, Arrive
  PROVE  Orderly'
<1> USE ChunkTypes
<1>1. /\ line # <<>> /\ line' = Tail(line) /\ fifo' = Append(fifo, Head(line))
      /\ UNCHANGED <<hPc, sent, n, back, fPc, packet, taken, dropped>>
  BY RoomInFifo DEF Arrive, host, fob
<1>2. Got' = Got /\ (Pending' <=> Pending) /\ Sent' = Sent
  BY <1>1 DEF Got, Pending, Sent
<1>3. AllTaken' /\ dropped' = 0 /\ ReadSoFar' /\ Turns'
  BY <1>1, <1>2 DEF AllTaken, Orderly, ReadSoFar, Turns, Pending
<1>4. Credit'
  BY <1>1, <1>2 DEF Orderly, Credit
<1>5. /\ Len(line) >= 1 /\ Head(line) = line[1] /\ Len(line') = Len(line) - 1
      /\ \A p \in 1 .. Len(line) - 1 : line'[p] = line[p + 1]
      /\ Head(line) \in Byte
  BY <1>1 DEF TypeOK
<1>6. /\ Len(fifo') = Len(fifo) + 1 /\ fifo'[Len(fifo) + 1] = line[1]
      /\ \A p \in 1 .. Len(fifo) : fifo'[p] = fifo[p]
  BY <1>1, <1>5 DEF TypeOK
<1>7. /\ Len(fifo) \in Nat /\ Len(line) \in Nat /\ Got \in Nat
      /\ DOMAIN fifo = 1 .. Len(fifo) /\ DOMAIN line = 1 .. Len(line)
      /\ DOMAIN fifo' = 1 .. Len(fifo) + 1 /\ DOMAIN line' = 1 .. Len(line) - 1
  BY <1>5, <1>6, HostTypes DEF TypeOK
<1>8. Amount'
  <2>1. Got + (Len(fifo) + 1) + (Len(line) - 1) = Got + Len(fifo) + Len(line)
    BY ONLY <1>7
  <2> QED  BY <1>2, <1>5, <1>6, <2>1 DEF Orderly, Amount
<1>9. InFifo'
  <2>1. ASSUME NEW p \in 1 .. Len(fifo) + 1
        PROVE  fifo'[p] = [cmd |-> n, at |-> Got + p - 2]
    <3>1. CASE p \in 1 .. Len(fifo)
      BY <1>6, <1>7, <3>1 DEF Orderly, InFifo
    <3>2. CASE p = Len(fifo) + 1
      <4>1. line[1] = [cmd |-> n, at |-> Got + Len(fifo) + 1 - 2]
        BY <1>5, <1>7 DEF Orderly, OnLine
      <4>2. Got + Len(fifo) + 1 - 2 = Got + p - 2
        BY ONLY <1>7, <3>2
      <4> QED  BY <1>6, <3>2, <4>1, <4>2
    <3>3. p \in 1 .. Len(fifo) \/ p = Len(fifo) + 1
      BY ONLY <1>7, p \in 1 .. Len(fifo) + 1
    <3> QED  BY <3>1, <3>2, <3>3
  <2> QED  BY <1>1, <1>2, <1>7, <2>1 DEF InFifo
<1>10. OnLine'
  <2>1. ASSUME NEW p \in 1 .. Len(line) - 1
        PROVE  line'[p] = [cmd |-> n, at |-> Got + (Len(fifo) + 1) + p - 2]
    <3>1. p + 1 \in 1 .. Len(line) /\ Got + (Len(fifo) + 1) + p - 2 = Got + Len(fifo) + (p + 1) - 2
      BY ONLY <1>7, p \in 1 .. Len(line) - 1
    <3>2. line[p + 1] = [cmd |-> n, at |-> Got + Len(fifo) + (p + 1) - 2]
      BY <1>7, <3>1 DEF Orderly, OnLine
    <3> QED  BY <1>5, <3>1, <3>2
  <2> QED  BY <1>1, <1>2, <1>6, <1>7, <2>1 DEF OnLine
<1> QED  BY <1>2, <1>3, <1>4, <1>8, <1>9, <1>10 DEF Orderly

(* What is left of the FIFO when its first byte is taken.                  *)
LEMMA TakenFromFifo ==
  ASSUME TypeOK, TypeOK', Orderly, fifo # <<>>, fifo' = Tail(fifo), Got' = Got + 1,
         UNCHANGED <<n, line>>
  PROVE  /\ InFifo' /\ OnLine'
         /\ Got' + Len(fifo') + Len(line') = Got + Len(fifo) + Len(line)
<1>1. /\ Len(fifo) \in Nat /\ Len(line) \in Nat /\ Got \in Nat
      /\ DOMAIN fifo = 1 .. Len(fifo) /\ DOMAIN line = 1 .. Len(line)
  BY HostTypes
<1>2. /\ Len(fifo') = Len(fifo) - 1 /\ Len(fifo) >= 1
      /\ \A p \in 1 .. Len(fifo) - 1 : fifo'[p] = fifo[p + 1]
      /\ DOMAIN fifo' = 1 .. Len(fifo) - 1
  BY NextByte DEF TypeOK
<1>3. InFifo'
  <2>1. ASSUME NEW p \in 1 .. Len(fifo) - 1
        PROVE  fifo'[p] = [cmd |-> n, at |-> (Got + 1) + p - 2]
    <3>1. p + 1 \in 1 .. Len(fifo) /\ (Got + 1) + p - 2 = Got + (p + 1) - 2
      BY ONLY <1>1, p \in 1 .. Len(fifo) - 1
    <3>2. fifo[p + 1] = [cmd |-> n, at |-> Got + (p + 1) - 2]
      BY <1>1, <3>1 DEF Orderly, InFifo
    <3> QED  BY <1>2, <3>1, <3>2
  <2> QED  BY <1>2, <2>1 DEF InFifo
<1>4. OnLine'
  <2>1. ASSUME NEW p \in 1 .. Len(line)
        PROVE  line[p] = [cmd |-> n, at |-> (Got + 1) + (Len(fifo) - 1) + p - 2]
    <3>1. (Got + 1) + (Len(fifo) - 1) + p - 2 = Got + Len(fifo) + p - 2
      BY ONLY <1>1, p \in 1 .. Len(line)
    <3> QED  BY <1>1, <3>1 DEF Orderly, OnLine
  <2> QED  BY <1>1, <1>2, <2>1 DEF OnLine
<1>5. (Got + 1) + (Len(fifo) - 1) + Len(line) = Got + Len(fifo) + Len(line)
  BY ONLY <1>1
<1> QED  BY <1>2, <1>3, <1>4, <1>5

LEMMA OrderlyTakeMarker ==
  ASSUME TypeOK, TypeOK', Orderly, TakeMarker
  PROVE  Orderly'
<1> USE ChunkTypes
<1>1. /\ fPc = "loop" /\ fifo # <<>> /\ fifo' = Tail(fifo) /\ packet' = <<>>
      /\ fPc' = IF IsM(Head(fifo)) THEN "read" ELSE "loop"
      /\ UNCHANGED <<hPc, sent, n, back, line, taken, dropped>>
  BY DEF TakeMarker, host
<1>2. Got = 0 /\ Pending /\ Head(fifo) = [cmd |-> n, at |-> Got - 1]
  BY <1>1, NextByte DEF Got
<1>3. fPc' = "read"
  <2>1. Head(fifo).at = -1
    BY <1>2
  <2> QED  BY <1>1, <2>1 DEF IsM
<1>4. Got' = 1 /\ Pending' /\ Sent' = Sent /\ Got' = Got + 1
  BY <1>1, <1>2, <1>3 DEF Got, Pending, Sent
<1>5. InFifo' /\ OnLine' /\ Amount'
  <2>1. InFifo' /\ OnLine' /\ Got' + Len(fifo') + Len(line') = Got + Len(fifo) + Len(line)
    BY <1>1, <1>4, TakenFromFifo
  <2> QED  BY <1>2, <1>4, <2>1 DEF Orderly, Amount
<1>6. AllTaken' /\ dropped' = 0 /\ ReadSoFar'
  BY <1>1 DEF AllTaken, Orderly, ReadSoFar
<1>7. Turns'
  BY <1>1, <1>2, <1>3, <1>4 DEF Orderly, Turns, Pending
<1>8. hPc = "recv" /\ sent = 1 /\ Sent = Chunk /\ back = 0
  <2>1. hPc # "idle" /\ sent >= 1 /\ ~(sent >= 2 \/ hPc = "answer")
    BY <1>1, <1>2 DEF Orderly, Turns
  <2>2. hPc = "recv"
    BY <2>1 DEF TypeOK
  <2>3. sent = 1
    BY <2>1, HostTypes
  <2>4. back \in {0, 1} /\ back # 1
    BY <1>1, <1>2, <2>2 DEF Orderly, Credit
  <2>5. Sent = Chunk
    BY <2>3 DEF Sent
  <2> QED  BY <2>2, <2>3, <2>4, <2>5
<1>9. Credit'
  <2>1. Len(packet') = 0 /\ 0 > Chunk - 2 * Chunk /\ 0 <= Chunk - Chunk
    BY <1>1
  <2> QED  BY <1>1, <1>4, <1>8, <2>1 DEF Credit
<1> QED  BY <1>5, <1>6, <1>7, <1>9 DEF Orderly

(* The byte taken behind the marker is the next one of its command, and    *)
(* the chunk sent last holds it or the one before does.                    *)
LEMMA ByteTaken ==
  ASSUME TypeOK, TypeOK', Orderly, TakeByte
  PROVE  /\ Pending /\ Got = Len(packet) + 1 /\ hPc \in {"recv", "answer"}
         /\ Len(packet) < Sent /\ Len(packet) < PacketLen
         /\ Len(packet') = Len(packet) + 1
         /\ \A p \in 1 .. Len(packet) + 1 : packet'[p] = [cmd |-> n, at |-> p - 1]
         /\ hPc = "recv" => back \in {0, 1}
         /\ hPc = "answer" => back = 0 /\ Len(packet) > Sent - Chunk
         /\ hPc = "recv" => Len(packet) > Sent - 2 * Chunk
         /\ hPc = "recv" /\ back = 0 => Len(packet) <= Sent - Chunk
         /\ hPc = "recv" /\ back = 1 => Len(packet) > Sent - Chunk
<1> USE ChunkTypes
<1>1. fPc = "read" /\ fifo # <<>> /\ packet' = Append(packet, Head(fifo))
  BY DEF TakeByte
<1>2. Pending /\ Got = Len(packet) + 1 /\ Head(fifo) = [cmd |-> n, at |-> Got - 1] /\ Len(fifo) >= 1
  BY <1>1, NextByte DEF Got
<1>3. hPc \in {"recv", "answer"} /\ Len(packet) < PacketLen
  BY <1>1, <1>2 DEF Orderly, Turns, TypeOK
<1>4. /\ Len(fifo) \in Nat /\ Len(line) \in Nat /\ Len(packet) \in Nat /\ Sent \in Nat
      /\ DOMAIN packet = 1 .. Len(packet)
  BY HostTypes
<1>5. Len(packet) < Sent
  <2>1. Got + Len(fifo) + Len(line) = 1 + Sent
    BY <1>2 DEF Orderly, Amount
  <2> QED  BY ONLY <1>2, <1>4, <2>1
<1>6. /\ Len(packet') = Len(packet) + 1 /\ packet'[Len(packet) + 1] = Head(fifo)
      /\ \A p \in 1 .. Len(packet) : packet'[p] = packet[p]
  <2>1. packet \in Seq(Byte) /\ Head(fifo) \in Byte
    BY <1>1 DEF TypeOK
  <2> QED  BY ONLY <1>1, <2>1
<1>7. ASSUME NEW p \in 1 .. Len(packet) + 1 PROVE packet'[p] = [cmd |-> n, at |-> p - 1]
  <2>1. CASE p \in 1 .. Len(packet)
    BY <1>1, <1>4, <1>6, <2>1 DEF Orderly, ReadSoFar
  <2>2. CASE p = Len(packet) + 1
    <3>1. Got - 1 = p - 1
      BY <1>2, <2>2
    <3> QED  BY <1>2, <1>6, <2>2, <3>1
  <2>3. p \in 1 .. Len(packet) \/ p = Len(packet) + 1
    BY ONLY <1>4, p \in 1 .. Len(packet) + 1
  <2> QED  BY <2>1, <2>2, <2>3
<1>8. /\ hPc = "recv" => back \in {0, 1}
      /\ hPc = "recv" => Len(packet) > Sent - 2 * Chunk
      /\ hPc = "recv" /\ back = 0 => Len(packet) <= Sent - Chunk
      /\ hPc = "recv" /\ back = 1 => Len(packet) > Sent - Chunk
  BY <1>1, <1>2 DEF Orderly, Credit
<1>9. hPc = "answer" => back = 0 /\ Len(packet) > Sent - Chunk
  <2>1. hPc = "answer" => back = 0 /\ sent = Chunks /\ Len(packet) > PacketLen - Chunk
    BY <1>2 DEF Orderly, Credit
  <2>2. Chunk * Chunks = PacketLen
    BY ChunkFacts
  <2> QED  BY <2>1, <2>2 DEF Sent
<1> QED  BY <1>2, <1>3, <1>5, <1>6, <1>7, <1>8, <1>9

LEMMA OrderlyTakeByte ==
  ASSUME TypeOK, TypeOK', Orderly, TakeByte
  PROVE  Orderly'
<1> USE ChunkTypes
<1>1. /\ fPc = "read" /\ fifo # <<>> /\ fifo' = Tail(fifo)
      /\ UNCHANGED <<hPc, sent, n, breaches, line, dropped>>
  BY DEF TakeByte, host
<1>2. /\ Len(packet) \in Nat /\ Sent \in Nat /\ Len(fifo) \in Nat /\ Len(line) \in Nat /\ back \in Nat
      /\ Len(taken) \in Nat /\ n \in Nat
  BY HostTypes
<1>3. Sent' = Sent
  BY <1>1 DEF Sent
<1>4. CASE Len(packet) + 1 < PacketLen
  <2>1. fPc' = "read" /\ taken' = taken /\ back' = back + (IF Acked(Len(packet)) THEN 1 ELSE 0)
    BY <1>4 DEF TakeByte
  <2>2. Got' = Got + 1 /\ Pending /\ Pending'
    BY <1>1, <1>2, <2>1, ByteTaken DEF Got, Pending
  <2>3. InFifo' /\ OnLine' /\ Amount'
    <3>1. InFifo' /\ OnLine' /\ Got' + Len(fifo') + Len(line') = Got + Len(fifo) + Len(line)
      BY <1>1, <2>2, TakenFromFifo
    <3> QED  BY <1>3, <2>2, <3>1 DEF Orderly, Amount
  <2>4. AllTaken' /\ dropped' = 0
    BY <1>1, <2>1 DEF AllTaken, Orderly
  <2>5. ReadSoFar'
    <3>1. DOMAIN packet' = 1 .. Len(packet) + 1
      BY ByteTaken DEF TypeOK
    <3> QED  BY <1>1, <3>1, ByteTaken DEF ReadSoFar
  <2>6. Turns'
    BY <1>1, <2>1, <2>2 DEF Orderly, Turns
  <2>7. ASSUME hPc = "recv" PROVE Credit'
    <3> DEFINE L == Len(packet)
    <3>1. /\ Sent \in Nat /\ L \in Nat /\ L < Sent /\ L > Sent - 2 * Chunk /\ back \in {0, 1}
          /\ back = 0 => L <= Sent - Chunk
          /\ back = 1 => L > Sent - Chunk
          /\ Len(packet') = L + 1
      BY <1>2, <2>7, ByteTaken
    <3>2. /\ L = Sent - Chunk => Acked(L)
          /\ Sent - 2 * Chunk < L /\ L < Sent - Chunk => ~Acked(L)
          /\ Sent - Chunk < L /\ L < Sent => ~Acked(L)
      <4>1. sent \in Nat /\ sent >= 1
        BY <2>2, HostTypes DEF Orderly, Turns
      <4> QED  BY <3>1, <4>1, AckFacts DEF Sent
    <3> HIDE DEF L
    <3>c. Chunk \in Nat
      OBVIOUS
    <3>3. /\ Acked(L) => back = 0 /\ L + 1 > Sent - Chunk
          /\ ~Acked(L) /\ back = 0 => L + 1 <= Sent - Chunk
          /\ back = 1 => ~Acked(L) /\ L + 1 > Sent - Chunk
          /\ L + 1 > Sent - 2 * Chunk
      BY ONLY <3>1, <3>2, <3>c
    <3>4. back' = IF Acked(L) THEN back + 1 ELSE back
      BY <1>2, <2>1 DEF L
    <3>5. /\ back' \in {0, 1}
          /\ back' = 0 => L + 1 <= Sent - Chunk
          /\ back' = 1 => L + 1 > Sent - Chunk
      BY ONLY <3>1, <3>3, <3>4
    <3>6. hPc' = "recv"
      BY <1>1, <2>7
    <3>7. /\ Len(packet') > Sent' - 2 * Chunk
          /\ back' = 0 => Len(packet') <= Sent' - Chunk
          /\ back' = 1 => Len(packet') > Sent' - Chunk
      BY ONLY <1>3, <3>1, <3>3, <3>5
    <3>8. fPc' = "read"
      BY <2>1
    <3>9. /\ back' \in {0, 1}
          /\ fPc' = "read" => Len(packet') > Sent' - 2 * Chunk
          /\ back' = 0 /\ fPc' = "read" => Len(packet') <= Sent' - Chunk
          /\ back' = 1 => fPc' = "read" /\ Len(packet') > Sent' - Chunk
      BY <3>5, <3>7, <3>8, Zenon
    <3> QED  BY ONLY <3>6, <3>9 DEF Credit
  <2>8. ASSUME hPc = "answer" PROVE Credit'
    <3>1. /\ back = 0 /\ Len(packet) > Sent - Chunk /\ Len(packet) < Sent
          /\ Len(packet') = Len(packet) + 1
      BY <2>8, ByteTaken
    <3>2. sent \in Nat /\ sent >= 1
      BY <2>2, HostTypes DEF Orderly, Turns
    <3>3. ~Acked(Len(packet))
      BY <1>2, <3>1, <3>2, AckFacts DEF Sent
    <3>4. back' = 0
      BY <2>1, <3>1, <3>3
    <3>5. sent = Chunks /\ Len(packet) > PacketLen - Chunk
      BY <2>2, <2>8 DEF Orderly, Credit
    <3>6. Len(packet') > PacketLen - Chunk
      BY <1>2, <3>1, <3>5
    <3>7. hPc' = "answer" /\ sent' = Chunks
      BY <1>1, <2>8, <3>5
    <3>8. hPc' # "recv"
      BY <3>7
    <3> QED  BY <3>4, <3>6, <3>7, <3>8, Zenon DEF Credit
  <2> QED  BY <2>2, <2>3, <2>4, <2>5, <2>6, <2>7, <2>8, ByteTaken DEF Orderly
<1>5. CASE ~(Len(packet) + 1 < PacketLen)
  <2>1. fPc' = "handle" /\ taken' = Append(taken, packet')
    BY <1>5 DEF TakeByte
  <2>2. Len(packet) + 1 = PacketLen /\ Sent = PacketLen /\ sent = Chunks
    <3>1. Len(packet) < PacketLen /\ Len(packet) < Sent /\ Sent <= PacketLen
      BY ByteTaken, HostTypes
    <3>2. Len(packet) + 1 = PacketLen /\ Sent = PacketLen
      BY <1>2, <1>5, <3>1
    <3>3. sent < Chunks => Sent + Chunk <= PacketLen
      BY HostTypes, ChunkFacts DEF Sent
    <3>4. sent \in Nat /\ sent <= Chunks
      BY HostTypes
    <3> QED  BY <3>2, <3>3, <3>4
  <2>3. Pending /\ Got + Len(fifo) + Len(line) = 1 + Sent /\ Got = Len(packet) + 1
    BY ByteTaken DEF Orderly, Amount
  <2>4. Len(fifo') = 0 /\ Len(line) = 0
    <3>1. Len(fifo') = Len(fifo) - 1 /\ Len(fifo) >= 1
      BY <1>1, NextByte
    <3> QED  BY ONLY <1>2, <2>2, <2>3, <3>1
  <2>5. Got' = 0
    BY <2>1 DEF Got
  <2>6. Len(taken') = Len(taken) + 1 /\ n = Len(taken) + 1 /\ taken'[Len(taken) + 1] = packet'
        /\ \A i \in 1 .. Len(taken) : taken'[i] = taken[i]
    <3>1. taken \in Seq(Seq(Byte)) /\ packet' \in Seq(Byte)
      BY DEF TypeOK
    <3>2. n = Len(taken) + 1
      BY <2>3 DEF Pending
    <3> QED  BY ONLY <2>1, <3>1, <3>2
  <2>7. ~Pending' /\ n' = Len(taken')
    BY <1>1, <1>2, <2>6 DEF Pending
  <2>8. packet' = Command(n)
    <3>1. packet' = [p \in 1 .. PacketLen |-> packet'[p]]
      <4>1. packet' \in Seq(Byte)
        BY DEF TypeOK
      <4>2. Len(packet') = PacketLen
        BY <2>2, ByteTaken
      <4> QED  BY ONLY <4>1, <4>2
    <3>2. \A p \in 1 .. PacketLen : packet'[p] = [cmd |-> n, at |-> 0 + p - 1]
      BY <2>2, ByteTaken
    <3>3. packet' = [p \in 1 .. PacketLen |-> [cmd |-> n, at |-> 0 + p - 1]]
      BY <3>1, <3>2
    <3>4. 1 .. (PacketLen - 1) - 0 + 1 = 1 .. PacketLen
      OBVIOUS
    <3> QED  BY <3>3, <3>4 DEF Command, Part
  <2>9. AllTaken' /\ dropped' = 0
    <3>1. DOMAIN taken' = 1 .. Len(taken) + 1 /\ DOMAIN taken = 1 .. Len(taken)
      BY <2>6, HostTypes DEF TypeOK
    <3>2. ASSUME NEW i \in 1 .. Len(taken) + 1 PROVE i <= n /\ taken'[i] = Command(i)
      <4>1. CASE i \in 1 .. Len(taken)
        BY <2>6, <3>1, <4>1 DEF Orderly, AllTaken
      <4>2. CASE i = n
        BY <1>2, <2>6, <2>8, <4>2
      <4>3. i \in 1 .. Len(taken) \/ i = n
        BY ONLY <1>2, <2>6, i \in 1 .. Len(taken) + 1
      <4> QED  BY <4>1, <4>2, <4>3
    <3> QED  BY <1>1, <3>1, <3>2 DEF Orderly, AllTaken
  <2>10. Amount' /\ InFifo' /\ OnLine'
    <3>1. DOMAIN fifo' = {} /\ DOMAIN line' = {}
      BY <1>1, <2>4 DEF TypeOK
    <3> QED  BY <1>1, <2>4, <2>5, <2>7, <3>1 DEF Amount, InFifo, OnLine
  <2>11. Turns'
    BY <1>1, <2>1, <2>2, <2>7, ByteTaken DEF Turns
  <2>12. ReadSoFar' /\ Credit'
    BY <2>1, <2>7 DEF ReadSoFar, Credit
  <2> QED  BY <2>9, <2>10, <2>11, <2>12 DEF Orderly
<1> QED  BY <1>4, <1>5

LEMMA OrderlyAround ==
  ASSUME TypeOK, TypeOK', Orderly, Speak \/ Return \/ PairSent \/ UNCHANGED vars
  PROVE  Orderly'
<1> USE ChunkTypes
<1>1. CASE Speak \/ Return \/ PairSent
  <2>1. /\ UNCHANGED <<hPc, sent, n, line, fifo, packet, taken, dropped>>
        /\ \/ fPc = "handle" /\ fPc' \in {"store", "pair"}
           \/ fPc \in {"store", "pair"} /\ fPc' = "loop" /\ back' = back
    BY <1>1 DEF Speak, Return, PairSent, host
  <2>2. Got' = Got /\ (Pending' <=> Pending) /\ Sent' = Sent
    BY <2>1 DEF Got, Pending, Sent
  <2>3. AllTaken' /\ dropped' = 0 /\ Amount' /\ InFifo' /\ OnLine' /\ ReadSoFar'
    BY <2>1, <2>2 DEF AllTaken, Orderly, Amount, InFifo, OnLine, ReadSoFar
  <2>4. Turns'
    BY <2>1, <2>2 DEF Orderly, Turns
  <2>5. Credit'
    <3>1. fPc = "handle" => ~Pending
      BY DEF Orderly, Turns
    <3> QED  BY <2>1, <2>2, <3>1 DEF Orderly, Credit
  <2> QED  BY <2>3, <2>4, <2>5 DEF Orderly
<1>2. CASE UNCHANGED vars
  BY <1>2 DEF vars, Orderly, AllTaken, Amount, InFifo, OnLine, Turns, ReadSoFar, Credit, Pending, Got, Sent
<1> QED  BY <1>1, <1>2

LEMMA HostStep == TypeOK /\ TypeOK' /\ HostInv /\ [Next]_vars => HostInv'
<1> SUFFICES ASSUME TypeOK, TypeOK', HostInv, [Next]_vars, breaches' = 0 PROVE Orderly'
  BY DEF HostInv
<1>1. breaches = 0
  <2>1. breaches' = breaches \/ breaches' = breaches + 1
    BY DEF Next, Host, Fob, Begin, BeginUnmarked, Recv, Answer, Quit, GoOn, Arrive,
           TakeMarker, TakeByte, Speak, Return, PairSent, ReportPairing, host, vars
  <2> QED  BY <2>1 DEF TypeOK
<1>2. Orderly
  BY <1>1 DEF HostInv
<1>3. ~BeginUnmarked /\ ~Quit /\ ~GoOn /\ ~ReportPairing
  BY <1>1 DEF BeginUnmarked, Quit, GoOn, ReportPairing
<1>4. \/ Begin \/ Recv \/ Answer \/ Arrive \/ TakeMarker \/ TakeByte
      \/ Speak \/ Return \/ PairSent \/ UNCHANGED vars
  BY <1>3 DEF Next, Host, Fob
<1> QED
  BY <1>2, <1>4, OrderlyBegin, OrderlyRecv, OrderlyAnswer, OrderlyArrive,
     OrderlyTakeMarker, OrderlyTakeByte, OrderlyAround

LEMMA HostInvariant == Spec => [](TypeOK /\ HostInv)
<1>1. Init => TypeOK /\ HostInv
  BY HostTypeInit, HostInit
<1>2. TypeOK /\ HostInv /\ [Next]_vars => TypeOK' /\ HostInv'
  BY HostTypeStep, HostStep
<1> QED  BY <1>1, <1>2, PTL DEF Spec

(* With hosts that see dev_send through and read the answers, the '*'      *)
(* after every Chunk-th byte is enough flow control for any FIFO that      *)
(* takes two chunks less one byte, however slow the fob is to read.        *)
THEOREM EnoughFlowControl == Spec => []NoOverrun
<1>1. HostInv => NoOverrun
  BY DEF HostInv, Orderly, NoOverrun
<1> QED  BY <1>1, HostInvariant, PTL

(* Then the commands the fob handles are those sent, byte for byte and in  *)
(* order, whatever bytes they contain.                                     *)
THEOREM CommandsIntact == Spec => []TakenAsSent
<1>1. HostInv => TakenAsSent
  BY DEF HostInv, Orderly, AllTaken, TakenAsSent
<1> QED  BY <1>1, HostInvariant, PTL

-----------------------------------------------------------------------------
(* Why no command is handled twice, whatever the hosts do.  The bytes on   *)
(* their way are in the order in which they were sent, the FIFO only       *)
(* leaves some out, and the fob takes one byte, the one that looks like a  *)
(* marker, and PacketLen more of them: too many for one command.           *)
Before(a, b) == a.cmd < b.cmd \/ (a.cmd = b.cmd /\ a.at < b.at)
Bytes(f, l) == {f[p] : p \in DOMAIN f} \cup {l[p] : p \in DOMAIN l}
Sorted(s) == \A p, q \in DOMAIN s : p < q => Before(s[p], s[q])
InOrder(f, l) == Sorted(f) /\ Sorted(l) /\ \A p \in DOMAIN f, q \in DOMAIN l : Before(f[p], l[q])

SentSoFar ==
    \A b \in Bytes(fifo, line) : b.cmd <= n /\ (hPc = "recv" /\ b.cmd = n => b.at < Sent)

(* What is under way, or sent later, is not before index k of command c.   *)
From(c, k) ==
    /\ c <= n
    /\ \A b \in Bytes(fifo, line) : c < b.cmd \/ (c = b.cmd /\ k <= b.at)
    /\ hPc = "recv" /\ n = c => k <= Sent

Last == taken[Len(taken)]
Spent ==
    /\ packet # <<>> => From(packet[1].cmd, packet[1].at + Len(packet))
    /\ taken # <<>> /\ packet = <<>> => From(Last[1].cmd, PacketLen)
    /\ fPc = "read" /\ packet # <<>> /\ taken # <<>> => Last[1].cmd < packet[1].cmd
    /\ fPc # "read" /\ packet # <<>> => taken # <<>> /\ packet = Last /\ Len(packet) = PacketLen
    /\ \A i \in DOMAIN taken : taken[i] # <<>>

OrderInv == InOrder(fifo, line) /\ SentSoFar /\ Spent /\ HandledOnce

LEMMA BytesTyped ==
  ASSUME NEW f \in Seq(Byte), NEW l \in Seq(Byte), NEW b \in Bytes(f, l)
  PROVE  b \in Byte /\ b.cmd \in Nat /\ b.at \in Int /\ b.at >= -1 /\ b.at <= PacketLen - 1
<1>1. b \in Byte
  BY DEF Bytes
<1> QED  BY <1>1, ChunkTypes DEF Byte

(* The bytes of a part of a command are in order.                          *)
LEMMA PartSorted ==
  ASSUME NEW c \in Nat, NEW i \in Nat, NEW j \in Nat, j - i + 1 \in Nat
  PROVE  /\ Sorted(Part(c, i, j))
         /\ \A p \in DOMAIN Part(c, i, j) : /\ Part(c, i, j)[p].cmd = c
                                            /\ i <= Part(c, i, j)[p].at /\ Part(c, i, j)[p].at <= j
<1>1. DOMAIN Part(c, i, j) = 1 .. j - i + 1
  BY DEF Part
<1>2. ASSUME NEW p \in 1 .. j - i + 1
      PROVE  Part(c, i, j)[p].cmd = c /\ Part(c, i, j)[p].at = i + p - 1
  BY DEF Part
<1>3. ASSUME NEW p \in 1 .. j - i + 1, NEW q \in 1 .. j - i + 1, p < q
      PROVE  Before(Part(c, i, j)[p], Part(c, i, j)[q])
  <2>1. i + p - 1 < i + q - 1
    BY <1>3
  <2> QED  BY <1>2, <2>1 DEF Before
<1>4. ASSUME NEW p \in 1 .. j - i + 1
      PROVE  i <= Part(c, i, j)[p].at /\ Part(c, i, j)[p].at <= j
  <2>1. i <= i + p - 1 /\ i + p - 1 <= j
    OBVIOUS
  <2> QED  BY <1>2, <2>1
<1> QED  BY <1>1, <1>2, <1>3, <1>4 DEF Sorted

LEMMA ChunkSorted ==
  ASSUME NEW c \in Nat, NEW m \in Nat, m < Chunks
  PROVE  /\ Sorted(ChunkOf(c, m)) /\ ChunkOf(c, m) \in Seq(Byte)
         /\ \A p \in DOMAIN ChunkOf(c, m) :
              /\ ChunkOf(c, m)[p].cmd = c
              /\ Chunk * m <= ChunkOf(c, m)[p].at /\ ChunkOf(c, m)[p].at < Chunk * m + Chunk
<1> DEFINE lo == Chunk * m
<1>1. lo \in Nat /\ Chunk \in Nat /\ Chunk >= 1
  BY ChunkFacts
<1>2. ChunkOf(c, m) = Part(c, lo, lo + Chunk - 1)
  BY DEF ChunkOf
<1>3. ChunkOf(c, m) \in Seq(Byte)
  BY BytesOfCommand
<1> HIDE DEF lo
<1>4. PICK j \in Nat : j = lo + Chunk - 1
  BY <1>1
<1>5. j - lo + 1 \in Nat
  BY <1>1, <1>4
<1>6. /\ Sorted(Part(c, lo, j))
      /\ \A p \in DOMAIN Part(c, lo, j) : /\ Part(c, lo, j)[p].cmd = c
                                          /\ lo <= Part(c, lo, j)[p].at /\ Part(c, lo, j)[p].at <= j
  BY <1>1, <1>5, PartSorted
<1>7. ASSUME NEW p \in DOMAIN ChunkOf(c, m) PROVE ChunkOf(c, m)[p].at \in Int
  <2>1. ChunkOf(c, m)[p] \in Byte
    BY <1>3
  <2> QED  BY <2>1, ChunkTypes DEF Byte
<1>8. \A x \in Int : x <= j => x < lo + Chunk
  BY <1>1, <1>4
<1> QED  BY <1>2, <1>3, <1>4, <1>6, <1>7, <1>8 DEF lo

(* Sending what comes behind everything under way keeps the order.         *)
LEMMA SendInOrder ==
  ASSUME NEW f \in Seq(Byte), NEW l \in Seq(Byte), NEW s \in Seq(Byte),
         InOrder(f, l), Sorted(s),
         \A b \in Bytes(f, l), q \in DOMAIN s : Before(b, s[q])
  PROVE  /\ InOrder(f, l \o s) /\ l \o s \in Seq(Byte)
         /\ \A b \in Bytes(f, l \o s) : b \in Bytes(f, l) \/ \E q \in DOMAIN s : b = s[q]
<1> DEFINE t == l \o s
<1>1. /\ Len(l) \in Nat /\ Len(s) \in Nat /\ DOMAIN f = 1 .. Len(f)
      /\ DOMAIN l = 1 .. Len(l) /\ DOMAIN s = 1 .. Len(s)
      /\ t \in Seq(Byte) /\ DOMAIN t = 1 .. Len(l) + Len(s)
      /\ \A p \in 1 .. Len(l) : t[p] = l[p]
      /\ \A p \in Len(l) + 1 .. Len(l) + Len(s) : t[p] = s[p - Len(l)]
  OBVIOUS
<1> HIDE DEF t
<1>2. ASSUME NEW p \in DOMAIN t
      PROVE  \/ p \in DOMAIN l /\ t[p] = l[p]
             \/ p > Len(l) /\ p - Len(l) \in DOMAIN s /\ t[p] = s[p - Len(l)]
  <2>1. p \in 1 .. Len(l) + Len(s)
    BY <1>1
  <2>2. p \in 1 .. Len(l) \/ (p > Len(l) /\ p \in Len(l) + 1 .. Len(l) + Len(s) /\ p - Len(l) \in 1 .. Len(s))
    BY ONLY <1>1, <2>1
  <2> QED  BY <1>1, <2>2
<1>3. Sorted(t)
  <2> SUFFICES ASSUME NEW p \in DOMAIN t, NEW q \in DOMAIN t, p < q PROVE Before(t[p], t[q])
    BY DEF Sorted
  <2>1. CASE p \in DOMAIN l /\ q \in DOMAIN l
    BY <1>1, <2>1 DEF InOrder, Sorted
  <2>2. CASE p \in DOMAIN l /\ q > Len(l)
    <3>1. q - Len(l) \in DOMAIN s /\ t[q] = s[q - Len(l)]
      BY <1>1, <1>2, <2>2
    <3>2. t[p] = l[p] /\ l[p] \in Bytes(f, l)
      BY <1>1, <2>2 DEF Bytes
    <3> QED  BY <3>1, <3>2
  <2>3. CASE p > Len(l) /\ q > Len(l)
    <3>1. /\ q - Len(l) \in DOMAIN s /\ t[q] = s[q - Len(l)]
          /\ p - Len(l) \in DOMAIN s /\ t[p] = s[p - Len(l)]
      BY <1>1, <1>2, <2>3
    <3>2. p - Len(l) < q - Len(l)
      BY <1>1
    <3> QED  BY <3>1, <3>2 DEF Sorted
  <2>4. p \in DOMAIN l \/ p > Len(l)
    BY <1>2
  <2>5. q \in DOMAIN l \/ q > Len(l)
    BY <1>2
  <2>6. ~(p > Len(l) /\ q \in DOMAIN l)
    BY <1>1
  <2> QED  BY <2>1, <2>2, <2>3, <2>4, <2>5, <2>6
<1>4. ASSUME NEW p \in DOMAIN f, NEW q \in DOMAIN t PROVE Before(f[p], t[q])
  <2>1. f[p] \in Bytes(f, l)
    BY DEF Bytes
  <2> QED  BY <1>2, <2>1 DEF InOrder
<1>5. ASSUME NEW b \in Bytes(f, t) PROVE b \in Bytes(f, l) \/ \E q \in DOMAIN s : b = s[q]
  BY <1>2 DEF Bytes
<1> QED  BY <1>1, <1>3, <1>4, <1>5 DEF InOrder, t

(* The fob takes the first byte, and the rest comes after it.              *)
LEMMA TakeInOrder ==
  ASSUME NEW f \in Seq(Byte), NEW l \in Seq(Byte), f # <<>>, InOrder(f, l)
  PROVE  /\ InOrder(Tail(f), l) /\ Head(f) \in Bytes(f, l)
         /\ \A b \in Bytes(Tail(f), l) : b \in Bytes(f, l) /\ Before(Head(f), b)
<1> DEFINE t == Tail(f)
<1>1. /\ Len(f) \in Nat /\ Len(f) >= 1 /\ DOMAIN f = 1 .. Len(f) /\ Head(f) = f[1]
      /\ DOMAIN t = 1 .. Len(f) - 1 /\ \A p \in 1 .. Len(f) - 1 : t[p] = f[p + 1]
  OBVIOUS
<1> HIDE DEF t
<1>2. ASSUME NEW p \in DOMAIN t
      PROVE  p \in Int /\ p + 1 \in DOMAIN f /\ 1 < p + 1 /\ 1 \in DOMAIN f /\ t[p] = f[p + 1]
  BY <1>1
<1>3. Sorted(t)
  <2> SUFFICES ASSUME NEW p \in DOMAIN t, NEW q \in DOMAIN t, p < q PROVE Before(t[p], t[q])
    BY DEF Sorted
  <2>1. p + 1 < q + 1
    BY <1>2
  <2> QED  BY <1>2, <2>1 DEF InOrder, Sorted
<1>4. ASSUME NEW p \in DOMAIN t, NEW q \in DOMAIN l PROVE Before(t[p], l[q])
  BY <1>2 DEF InOrder
<1>5. ASSUME NEW b \in Bytes(t, l) PROVE b \in Bytes(f, l) /\ Before(Head(f), b)
  <2>1. CASE \E p \in DOMAIN t : b = t[p]
    BY <1>1, <1>2, <2>1 DEF InOrder, Sorted, Bytes
  <2>2. CASE \E p \in DOMAIN l : b = l[p]
    <3>1. 1 \in DOMAIN f
      BY <1>1
    <3> QED  BY <1>1, <2>2, <3>1 DEF InOrder, Bytes
  <2> QED  BY <2>1, <2>2 DEF Bytes
<1>6. Head(f) \in Bytes(f, l)
  BY <1>1 DEF Bytes
<1> QED  BY <1>3, <1>4, <1>5, <1>6 DEF InOrder, t

(* A byte arrives or is dropped.                                           *)
LEMMA ArriveInOrder ==
  ASSUME NEW f \in Seq(Byte), NEW l \in Seq(Byte), l # <<>>, InOrder(f, l)
  PROVE  /\ InOrder(Append(f, Head(l)), Tail(l)) /\ InOrder(f, Tail(l))
         /\ \A b \in Bytes(Append(f, Head(l)), Tail(l)) : b \in Bytes(f, l)
         /\ \A b \in Bytes(f, Tail(l)) : b \in Bytes(f, l)
<1> DEFINE t == Tail(l)
           g == Append(f, Head(l))
<1>1. /\ Len(l) \in Nat /\ Len(l) >= 1 /\ DOMAIN l = 1 .. Len(l) /\ Head(l) = l[1]
      /\ DOMAIN t = 1 .. Len(l) - 1 /\ \A p \in 1 .. Len(l) - 1 : t[p] = l[p + 1]
  OBVIOUS
<1>2. /\ Len(f) \in Nat /\ DOMAIN f = 1 .. Len(f) /\ DOMAIN g = 1 .. Len(f) + 1
      /\ g[Len(f) + 1] = l[1] /\ \A p \in 1 .. Len(f) : g[p] = f[p]
  <2>1. Head(l) \in Byte
    OBVIOUS
  <2> QED  BY <1>1, <2>1
<1> HIDE DEF t, g
<1>3. ASSUME NEW p \in DOMAIN t
      PROVE  p \in Int /\ p + 1 \in DOMAIN l /\ 1 < p + 1 /\ 1 \in DOMAIN l /\ t[p] = l[p + 1]
  BY <1>1
<1>4. ASSUME NEW p \in DOMAIN g
      PROVE  \/ p \in DOMAIN f /\ g[p] = f[p]
             \/ p = Len(f) + 1 /\ g[p] = l[1] /\ 1 \in DOMAIN l
  BY <1>1, <1>2
<1>5. Sorted(t)
  <2> SUFFICES ASSUME NEW p \in DOMAIN t, NEW q \in DOMAIN t, p < q PROVE Before(t[p], t[q])
    BY DEF Sorted
  <2>1. p + 1 < q + 1
    BY <1>3
  <2> QED  BY <1>3, <2>1 DEF InOrder, Sorted
<1>6. Sorted(g)
  <2> SUFFICES ASSUME NEW p \in DOMAIN g, NEW q \in DOMAIN g, p < q PROVE Before(g[p], g[q])
    BY DEF Sorted
  <2>1. p \in DOMAIN f /\ g[p] = f[p]
    BY <1>2
  <2> QED  BY <1>4, <2>1 DEF InOrder, Sorted
<1>7. ASSUME NEW p \in DOMAIN g, NEW q \in DOMAIN t PROVE Before(g[p], t[q])
  BY <1>3, <1>4 DEF InOrder, Sorted
<1>8. ASSUME NEW p \in DOMAIN f, NEW q \in DOMAIN t PROVE Before(f[p], t[q])
  BY <1>3 DEF InOrder
<1>9. ASSUME NEW b \in Bytes(g, t) PROVE b \in Bytes(f, l)
  BY <1>3, <1>4 DEF Bytes
<1>10. ASSUME NEW b \in Bytes(f, t) PROVE b \in Bytes(f, l)
  BY <1>3 DEF Bytes
<1> QED  BY <1>5, <1>6, <1>7, <1>8, <1>9, <1>10 DEF InOrder, t, g

-----------------------------------------------------------------------------
New(b) ==
    /\ b.cmd = n'
    /\ n' = n + 1 \/ (n' = n /\ hPc = "recv" /\ Sent <= b.at)
    /\ hPc' = "recv" => b.at < Sent'

LEMMA FlowStep ==
  ASSUME TypeOK, TypeOK', InOrder(fifo, line), SentSoFar, [Next]_vars
  PROVE  /\ InOrder(fifo', line')
         /\ \A b \in Bytes(fifo', line') : b \in Bytes(fifo, line) \/ New(b)
<1> USE ChunkTypes
<1>0. /\ fifo \in Seq(Byte) /\ line \in Seq(Byte) /\ n \in Nat /\ n + 1 \in Nat
      /\ sent \in Nat /\ Sent \in Nat
  BY HostTypes DEF TypeOK
<1>1. ASSUME NEW b \in Bytes(fifo, line)
      PROVE  /\ b.cmd \in Nat /\ b.at \in Int /\ b.cmd <= n /\ b.cmd < n + 1 /\ b.at <= PacketLen - 1
             /\ hPc = "recv" /\ b.cmd = n => b.at < Sent
  <2>1. b.cmd \in Nat /\ b.at \in Int /\ b.at <= PacketLen - 1
    BY <1>0, BytesTyped
  <2>2. b.cmd <= n /\ (hPc = "recv" /\ b.cmd = n => b.at < Sent)
    BY DEF SentSoFar
  <2> QED  BY <1>0, <2>1, <2>2
<1>2. CASE Begin
  <2> DEFINE mk == <<Marker(n + 1)>>
             ch == ChunkOf(n + 1, 0)
  <2>1. /\ Sorted(mk) /\ mk \in Seq(Byte) /\ DOMAIN mk = {1}
        /\ mk[1].cmd = n + 1 /\ mk[1].at = -1
    <3>1. Marker(n + 1) \in Byte
      BY <1>0, BytesOfCommand
    <3>2. DOMAIN mk = {1} /\ mk[1] = Marker(n + 1) /\ mk \in Seq(Byte)
      BY <3>1
    <3>3. \A p, q \in {1} : ~(p < q)
      OBVIOUS
    <3> QED  BY <3>2, <3>3 DEF Sorted, Marker
  <2>2. /\ Sorted(ch) /\ ch \in Seq(Byte)
        /\ \A p \in DOMAIN ch : ch[p].cmd = n + 1 /\ 0 <= ch[p].at /\ ch[p].at < Chunk
    <3>1. Chunk * 0 = 0 /\ Chunk * 0 + Chunk = Chunk /\ 0 < Chunks
      OBVIOUS
    <3>2. /\ Sorted(ch) /\ ch \in Seq(Byte)
          /\ \A p \in DOMAIN ch : /\ ch[p].cmd = n + 1
                                  /\ Chunk * 0 <= ch[p].at /\ ch[p].at < Chunk * 0 + Chunk
      BY <1>0, <3>1, ChunkSorted
    <3> QED  BY <3>1, <3>2
  <2>3. line' = (line \o mk) \o ch /\ fifo' = fifo /\ n' = n + 1 /\ sent' = 1 /\ hPc = "idle"
    BY <1>2 DEF Begin
  <2>4. Sent' = Chunk
    BY <2>3 DEF Sent
  <2> HIDE DEF mk, ch
  <2>5. ASSUME NEW b \in Bytes(fifo, line) PROVE Before(b, mk[1])
    BY <1>1, <2>1 DEF Before
  <2>6. /\ InOrder(fifo, line \o mk) /\ line \o mk \in Seq(Byte)
        /\ \A b \in Bytes(fifo, line \o mk) : b \in Bytes(fifo, line) \/ b = mk[1]
    <3>1. \A b \in Bytes(fifo, line), q \in DOMAIN mk : Before(b, mk[q])
      BY <2>1, <2>5
    <3>2. /\ InOrder(fifo, line \o mk) /\ line \o mk \in Seq(Byte)
          /\ \A b \in Bytes(fifo, line \o mk) : b \in Bytes(fifo, line) \/ \E q \in DOMAIN mk : b = mk[q]
      BY <1>0, <2>1, <3>1, SendInOrder
    <3> QED  BY <2>1, <3>2
  <2>7. ASSUME NEW b \in Bytes(fifo, line \o mk), NEW q \in DOMAIN ch PROVE Before(b, ch[q])
    <3>1. ch[q] \in Byte
      BY <2>2
    <3>2. ch[q].cmd = n + 1 /\ 0 <= ch[q].at /\ ch[q].at \in Int
      BY <2>2, <3>1 DEF Byte
    <3>3. CASE b \in Bytes(fifo, line)
      BY <1>1, <3>2, <3>3 DEF Before
    <3>4. CASE b = mk[1]
      BY <2>1, <3>2, <3>4 DEF Before
    <3> QED  BY <2>6, <3>3, <3>4
  <2>8. /\ InOrder(fifo, (line \o mk) \o ch)
        /\ \A b \in Bytes(fifo, (line \o mk) \o ch) :
              b \in Bytes(fifo, line \o mk) \/ \E q \in DOMAIN ch : b = ch[q]
    BY <1>0, <2>2, <2>6, <2>7, SendInOrder
  <2>9. ASSUME NEW b \in Bytes(fifo', line') PROVE b \in Bytes(fifo, line) \/ New(b)
    <3>1. b \in Bytes(fifo, line) \/ b = mk[1] \/ \E q \in DOMAIN ch : b = ch[q]
      BY <2>3, <2>6, <2>8
    <3>2. -1 < Chunk
      OBVIOUS
    <3> QED  BY <2>1, <2>2, <2>3, <2>4, <3>1, <3>2 DEF New
  <2> QED  BY <2>3, <2>8, <2>9
<1>3. CASE BeginUnmarked
  <2> DEFINE c == Command(n + 1)
  <2>1. c \in Seq(Byte)
    BY <1>0, BytesOfCommand
  <2>2. Sorted(c) /\ \A p \in DOMAIN c : c[p].cmd = n + 1
    <3>1. PICK j \in Nat : j = PacketLen - 1
      OBVIOUS
    <3>2. j - 0 + 1 \in Nat /\ c = Part(n + 1, 0, j)
      BY <3>1 DEF Command
    <3>3. /\ Sorted(Part(n + 1, 0, j))
          /\ \A p \in DOMAIN Part(n + 1, 0, j) : Part(n + 1, 0, j)[p].cmd = n + 1
      <4>1. 0 \in Nat /\ n + 1 \in Nat
        BY <1>0
      <4> QED  BY <3>2, <4>1, PartSorted
    <3> HIDE DEF c
    <3> QED  BY <3>2, <3>3
  <2>3. line' = line \o c /\ fifo' = fifo /\ n' = n + 1 /\ hPc' = "answer"
    BY <1>3 DEF BeginUnmarked
  <2> HIDE DEF c
  <2>4. \A b \in Bytes(fifo, line), q \in DOMAIN c : Before(b, c[q])
    BY <1>1, <2>2 DEF Before
  <2>5. /\ InOrder(fifo, line \o c)
        /\ \A b \in Bytes(fifo, line \o c) : b \in Bytes(fifo, line) \/ \E q \in DOMAIN c : b = c[q]
    BY <1>0, <2>1, <2>2, <2>4, SendInOrder
  <2> QED  BY <2>2, <2>3, <2>5 DEF New
<1>4. CASE Recv /\ sent < Chunks
  <2> DEFINE ch == ChunkOf(n, sent)
  <2>1. /\ Sorted(ch) /\ ch \in Seq(Byte)
        /\ \A p \in DOMAIN ch : ch[p].cmd = n /\ Sent <= ch[p].at /\ ch[p].at < Sent + Chunk
    BY <1>0, <1>4, ChunkSorted DEF Sent
  <2>2. line' = line \o ch /\ fifo' = fifo /\ n' = n /\ sent' = sent + 1 /\ hPc = "recv"
    BY <1>4 DEF Recv
  <2>3. Sent' = Sent + Chunk
    BY <2>2, <1>0, ChunkFacts DEF Sent
  <2> HIDE DEF ch
  <2>4. ASSUME NEW b \in Bytes(fifo, line), NEW q \in DOMAIN ch PROVE Before(b, ch[q])
    <3>1. ch[q] \in Byte
      BY <2>1
    <3>2. ch[q].cmd = n /\ Sent <= ch[q].at /\ ch[q].at \in Int
      BY <2>1, <3>1 DEF Byte
    <3>3. b.cmd \in Nat /\ b.at \in Int /\ b.cmd <= n /\ (b.cmd = n => b.at < Sent)
      BY <1>1, <2>2
    <3> QED  BY <1>0, <3>2, <3>3 DEF Before
  <2>5. /\ InOrder(fifo, line \o ch)
        /\ \A b \in Bytes(fifo, line \o ch) : b \in Bytes(fifo, line) \/ \E q \in DOMAIN ch : b = ch[q]
    BY <1>0, <2>1, <2>4, SendInOrder
  <2> QED  BY <2>1, <2>2, <2>3, <2>5 DEF New
<1>5. CASE Arrive
  <2>1. line # <<>> /\ line' = Tail(line) /\ (fifo' = fifo \/ fifo' = Append(fifo, Head(line)))
    BY <1>5 DEF Arrive
  <2> QED  BY <1>0, <2>1, ArriveInOrder
<1>6. CASE TakeMarker \/ TakeByte
  <2>1. fifo # <<>> /\ fifo' = Tail(fifo) /\ line' = line
    BY <1>6 DEF TakeMarker, TakeByte
  <2> QED  BY <1>0, <2>1, TakeInOrder
<1>7. CASE UNCHANGED <<line, fifo>>
  BY <1>7
<1>8. (Answer \/ Quit \/ GoOn \/ Speak \/ Return \/ PairSent \/ ReportPairing
       \/ (Recv /\ ~(sent < Chunks)) \/ UNCHANGED vars)
        => UNCHANGED <<line, fifo>>
  BY DEF Answer, Quit, GoOn, Speak, Return, PairSent, ReportPairing, Recv, vars
<1> QED
  BY <1>2, <1>3, <1>4, <1>5, <1>6, <1>7, <1>8 DEF Next, Host, Fob

LEMMA HostMoves ==
  ASSUME TypeOK, [Next]_vars
  PROVE  /\ n' = n \/ n' = n + 1
         /\ hPc' = "recv" /\ n' = n => hPc = "recv" /\ Sent <= Sent'
<1> USE ChunkTypes
<1>1. Sent \in Nat /\ sent \in Nat /\ n \in Nat
  BY HostTypes
<1>2. CASE Recv
  <2>1. n' = n /\ hPc = "recv" /\ (sent' = sent \/ sent' = sent + 1)
    BY <1>2 DEF Recv
  <2>2. Sent' = Sent \/ Sent' = Sent + Chunk
    BY <1>1, <2>1, ChunkFacts DEF Sent
  <2> QED  BY <1>1, <2>1, <2>2
<1>3. CASE Begin \/ BeginUnmarked
  <2>1. n' = n + 1
    BY <1>3 DEF Begin, BeginUnmarked
  <2> QED  BY <1>1, <2>1
<1>4. CASE Answer \/ Quit \/ GoOn
  <2>1. n' = n /\ hPc' = "idle"
    BY <1>4 DEF Answer, Quit, GoOn
  <2> QED  BY <2>1
<1>5. CASE UNCHANGED <<hPc, sent, n>>
  <2>1. Sent' = Sent
    BY <1>5 DEF Sent
  <2> QED  BY <1>1, <1>5, <2>1
<1>6. Arrive \/ Fob \/ PairSent \/ ReportPairing \/ UNCHANGED vars => UNCHANGED <<hPc, sent, n>>
  BY DEF Arrive, Fob, TakeMarker, TakeByte, Speak, Return, PairSent, ReportPairing, host, vars
<1> QED  BY <1>2, <1>3, <1>4, <1>5, <1>6 DEF Next, Host

LEMMA SentNext == TypeOK' => Sent' \in Nat /\ n' \in Nat
<1> SUFFICES ASSUME TypeOK' PROVE Sent' \in Nat /\ n' \in Nat
  OBVIOUS
<1>1. n' \in Nat /\ sent' \in 0 .. Chunks
  BY DEF TypeOK
<1>2. \A x \in 0 .. Chunks : Chunk * x \in Nat
  BY ChunkTypes
<1>3. Chunk * sent' \in Nat
  BY <1>1, <1>2, Zenon
<1> QED  BY <1>1, <1>3 DEF Sent

LEMMA SentStep ==
  ASSUME TypeOK, TypeOK', InOrder(fifo, line), SentSoFar, [Next]_vars
  PROVE  SentSoFar'
<1> SUFFICES ASSUME NEW b \in Bytes(fifo', line')
             PROVE  b.cmd <= n' /\ (hPc' = "recv" /\ b.cmd = n' => b.at < Sent')
  BY DEF SentSoFar
<1>1. n \in Nat /\ Sent \in Nat
  BY HostTypes
<1>2. Sent' \in Nat /\ n' \in Nat
  BY SentNext
<1>3. CASE New(b)
  BY <1>1, <1>2, <1>3 DEF New
<1>4. CASE b \in Bytes(fifo, line)
  <2>1. b.cmd <= n /\ (hPc = "recv" /\ b.cmd = n => b.at < Sent)
    BY <1>4 DEF SentSoFar
  <2>2. b.cmd \in Nat /\ b.at \in Int
    BY <1>4, BytesTyped DEF TypeOK
  <2>3. n' = n \/ n' = n + 1
    BY HostMoves
  <2>4. hPc' = "recv" /\ n' = n => hPc = "recv" /\ Sent <= Sent'
    BY HostMoves
  <2> QED  BY ONLY <1>1, <1>2, <2>1, <2>2, <2>3, <2>4
<1> QED  BY <1>3, <1>4, FlowStep

LEMMA FromStep ==
  ASSUME TypeOK, TypeOK', InOrder(fifo, line), SentSoFar, [Next]_vars,
         NEW c \in Nat, NEW k \in Int, From(c, k)
  PROVE  From(c, k)'
<1>1. n \in Nat /\ Sent \in Nat
  BY HostTypes
<1>2. Sent' \in Nat /\ n' \in Nat
  BY SentNext
<1>3. n' = n \/ n' = n + 1
  BY HostMoves
<1>4. hPc' = "recv" /\ n' = n => hPc = "recv" /\ Sent <= Sent'
  BY HostMoves
<1>5. c <= n /\ (hPc = "recv" /\ n = c => k <= Sent)
  BY DEF From
<1>6. c <= n'
  BY ONLY <1>1, <1>3, <1>5, c \in Nat
<1>7. hPc' = "recv" /\ n' = c => k <= Sent'
  BY ONLY <1>1, <1>2, <1>3, <1>4, <1>5, c \in Nat, k \in Int
<1>8. ASSUME NEW b \in Bytes(fifo', line') PROVE c < b.cmd \/ (c = b.cmd /\ k <= b.at)
  <2>1. CASE b \in Bytes(fifo, line)
    BY <2>1 DEF From
  <2>2. CASE New(b)
    <3>1. b.cmd = n' /\ (n' = n + 1 \/ (n' = n /\ hPc = "recv" /\ Sent <= b.at))
      BY <2>2 DEF New
    <3>2. b.at \in Int
      BY BytesTyped DEF TypeOK
    <3> QED  BY ONLY <1>1, <1>5, <3>1, <3>2, c \in Nat, k \in Int
  <2> QED  BY <2>1, <2>2, FlowStep
<1> QED  BY <1>6, <1>7, <1>8 DEF From

(* Taking a byte moves the bound behind it.                                *)
LEMMA TakeFrom ==
  ASSUME TypeOK, TypeOK', InOrder(fifo, line), SentSoFar,
         fifo # <<>>, fifo' = Tail(fifo), UNCHANGED <<line, hPc, sent, n>>,
         NEW c \in Nat, NEW k \in Int, From(c, k)
  PROVE  From(c, k + 1)'
<1> DEFINE h == Head(fifo)
<1>0. n \in Nat /\ Sent \in Nat /\ Sent' = Sent
  BY HostTypes DEF Sent
<1>1. /\ h \in Bytes(fifo, line)
      /\ \A b \in Bytes(fifo', line') : b \in Bytes(fifo, line) /\ Before(h, b)
  BY TakeInOrder DEF TypeOK
<1>2. h.cmd \in Nat /\ h.at \in Int
  BY <1>1, BytesTyped DEF TypeOK
<1> HIDE DEF h
<1>3. h.cmd <= n /\ (hPc = "recv" /\ h.cmd = n => h.at < Sent)
  BY <1>1 DEF SentSoFar
<1>4. c <= n /\ (c < h.cmd \/ (c = h.cmd /\ k <= h.at))
  BY <1>1 DEF From
<1>5. ASSUME NEW b \in Bytes(fifo', line') PROVE c < b.cmd \/ (c = b.cmd /\ k + 1 <= b.at)
  <2>1. b.cmd \in Nat /\ b.at \in Int
    BY BytesTyped DEF TypeOK
  <2>2. h.cmd < b.cmd \/ (h.cmd = b.cmd /\ h.at < b.at)
    BY <1>1 DEF Before
  <2> QED  BY ONLY <1>2, <1>4, <2>1, <2>2, c \in Nat, k \in Int
<1>6. hPc = "recv" /\ n = c => k + 1 <= Sent
  BY ONLY <1>0, <1>2, <1>3, <1>4, c \in Nat, k \in Int
<1> QED  BY <1>0, <1>4, <1>5, <1>6 DEF From

LEMMA FirstTyped ==
  ASSUME NEW s \in Seq(Byte), s # <<>>
  PROVE  s[1].cmd \in Nat /\ s[1].at \in Int /\ s[1].at >= -1
<1>1. s[1] \in Byte
  OBVIOUS
<1> QED  BY <1>1, ChunkTypes DEF Byte

LEMMA SpentQuiet ==
  ASSUME TypeOK, TypeOK', InOrder(fifo, line), SentSoFar, Spent, [Next]_vars,
         UNCHANGED <<packet, taken>>, fPc' = "read" <=> fPc = "read"
  PROVE  Spent'
<1>1. packet # <<>> => From(packet[1].cmd, packet[1].at + Len(packet))'
  <2> SUFFICES ASSUME packet # <<>>
               PROVE  From(packet[1].cmd, packet[1].at + Len(packet))'
    OBVIOUS
  <2>1. packet[1].cmd \in Nat /\ packet[1].at + Len(packet) \in Int
    BY FirstTyped DEF TypeOK
  <2>2. PICK c \in Nat, k \in Int : c = packet[1].cmd /\ k = packet[1].at + Len(packet)
    BY <2>1
  <2>3. From(c, k)
    BY <2>2 DEF Spent
  <2>4. From(c, k)'
    BY <2>3, FromStep
  <2> QED  BY <2>2, <2>4
<1>2. taken # <<>> /\ packet = <<>> => From(Last[1].cmd, PacketLen)'
  <2> SUFFICES ASSUME taken # <<>>, packet = <<>>
               PROVE  From(Last[1].cmd, PacketLen)'
    OBVIOUS
  <2>1. Last \in Seq(Byte) /\ Last # <<>>
    BY DEF TypeOK, Spent, Last
  <2>2. PICK c \in Nat : c = Last[1].cmd
    BY <2>1, FirstTyped
  <2>3. From(c, PacketLen)
    BY <2>2 DEF Spent
  <2>4. From(c, PacketLen)'
    BY <2>3, FromStep, ChunkTypes
  <2>5. Last' = Last
    BY DEF Last
  <2> QED  BY <2>2, <2>4, <2>5
<1>3. Last' = Last
  BY DEF Last
<1> QED  BY <1>1, <1>2, <1>3 DEF Spent

LEMMA SpentTakeMarker ==
  ASSUME TypeOK, TypeOK', InOrder(fifo, line), SentSoFar, Spent, TakeMarker
  PROVE  Spent'
<1>1. /\ fPc = "loop" /\ fifo # <<>> /\ fifo' = Tail(fifo) /\ packet' = <<>> /\ taken' = taken
      /\ UNCHANGED <<line, hPc, sent, n>>
  BY DEF TakeMarker, host
<1>2. Last' = Last
  BY <1>1 DEF Last
<1>3. ASSUME taken # <<>> PROVE From(Last[1].cmd, PacketLen)'
  <2>1. Last \in Seq(Byte) /\ Last # <<>>
    BY <1>3 DEF TypeOK, Spent, Last
  <2>2. PICK c \in Nat : c = Last[1].cmd
    BY <2>1, FirstTyped
  <2>3. PICK k \in Int : k >= PacketLen - 1 /\ From(c, k)
    <3>1. CASE packet = <<>>
      <4>1. From(c, PacketLen) /\ PacketLen \in Int /\ PacketLen >= PacketLen - 1
        BY <1>3, <2>2, <3>1, ChunkTypes DEF Spent
      <4> QED  BY <4>1
    <3>2. CASE packet # <<>>
      <4>1. packet = Last /\ Len(packet) = PacketLen /\ From(packet[1].cmd, packet[1].at + Len(packet))
        BY <1>1, <3>2 DEF Spent
      <4>2. packet[1].at \in Int /\ packet[1].at >= -1
        BY <3>2, FirstTyped DEF TypeOK
      <4>3. PICK a \in Int : a = packet[1].at /\ a >= -1
        BY <4>2
      <4>4. From(c, a + PacketLen) /\ a + PacketLen \in Int /\ a + PacketLen >= PacketLen - 1
        BY <2>2, <4>1, <4>3, ChunkTypes
      <4> QED  BY <4>4
    <3> QED  BY <3>1, <3>2
  <2>4. From(c, k + 1)'
    BY <1>1, <2>3, TakeFrom
  <2>5. PacketLen <= k + 1
    BY <2>3, ChunkTypes
  <2>6. Sent' \in Nat
    BY SentNext
  <2>7. \A b \in Bytes(fifo', line') : b.at \in Int
    BY BytesTyped DEF TypeOK
  <2>8. From(c, PacketLen)'
    <3>1. \A x \in Int : k + 1 <= x => PacketLen <= x
      BY <2>5, ChunkTypes
    <3>2. /\ c <= n'
          /\ \A b \in Bytes(fifo', line') : c < b.cmd \/ (c = b.cmd /\ k + 1 <= b.at)
          /\ hPc' = "recv" /\ n' = c => k + 1 <= Sent'
      BY <2>4 DEF From
    <3> QED  BY <2>6, <2>7, <3>1, <3>2 DEF From
  <2> QED  BY <1>2, <2>2, <2>8
<1>4. \A i \in DOMAIN taken' : taken'[i] # <<>>
  BY <1>1 DEF Spent
<1> QED  BY <1>1, <1>2, <1>3, <1>4 DEF Spent

LEMMA SpentTakeByte ==
  ASSUME TypeOK, TypeOK', InOrder(fifo, line), SentSoFar, Spent, HandledOnce, TakeByte
  PROVE  Spent' /\ HandledOnce'
<1> DEFINE h == Head(fifo)
<1>1. /\ fPc = "read" /\ fifo # <<>> /\ fifo' = Tail(fifo) /\ packet' = Append(packet, h)
      /\ UNCHANGED <<line, hPc, sent, n>>
  BY DEF TakeByte, host
<1>2. /\ h \in Bytes(fifo, line)
      /\ \A b \in Bytes(fifo', line') : b \in Bytes(fifo, line) /\ Before(h, b)
  BY <1>1, TakeInOrder DEF TypeOK
<1>3. h \in Byte /\ h.cmd \in Nat /\ h.at \in Int /\ h.at <= PacketLen - 1
  BY <1>2, BytesTyped DEF TypeOK
<1> HIDE DEF h
<1>4. packet \in Seq(Byte) /\ Len(packet) \in Nat
  BY DEF TypeOK
<1>5. /\ Len(packet') = Len(packet) + 1 /\ packet' # <<>>
      /\ packet = <<>> => packet'[1] = h
      /\ packet # <<>> => packet'[1] = packet[1]
  BY <1>1, <1>3, <1>4
<1>6. From(packet[1].cmd, packet[1].at + Len(packet))'
  <2>1. CASE packet = <<>>
    <3>1. PICK c \in Nat, a \in Int : c = h.cmd /\ a = h.at
      BY <1>3
    <3>2. packet'[1].cmd = c /\ packet'[1].at = a /\ Len(packet') = 1
      BY <1>5, <2>1, <3>1
    <3>3. c <= n /\ (hPc = "recv" /\ c = n => a < Sent)
      BY <1>2, <3>1 DEF SentSoFar
    <3>4. Sent' = Sent /\ Sent \in Nat
      BY <1>1, HostTypes DEF Sent
    <3>5. ASSUME NEW b \in Bytes(fifo', line') PROVE c < b.cmd \/ (c = b.cmd /\ a + 1 <= b.at)
      <4>1. c < b.cmd \/ (c = b.cmd /\ a < b.at)
        BY <1>2, <3>1 DEF Before
      <4>2. b.at \in Int
        BY BytesTyped DEF TypeOK
      <4> QED  BY <4>1, <4>2
    <3>6. From(c, a + 1)'
      <4>1. hPc' = "recv" /\ n' = c => a + 1 <= Sent'
        BY <1>1, <3>3, <3>4
      <4> QED  BY <1>1, <3>3, <3>5, <4>1 DEF From
    <3> QED  BY <3>2, <3>6
  <2>2. CASE packet # <<>>
    <3>1. packet[1].cmd \in Nat /\ packet[1].at \in Int
      BY <1>4, <2>2, FirstTyped
    <3>2. PICK c \in Nat, a \in Int : c = packet[1].cmd /\ a = packet[1].at
      BY <3>1
    <3>3. PICK k \in Int : k = a + Len(packet)
      BY <1>4
    <3>4. From(c, k)
      BY <2>2, <3>2, <3>3 DEF Spent
    <3>5. From(c, k + 1)'
      BY <1>1, <3>4, TakeFrom
    <3>6. packet'[1].cmd = c /\ packet'[1].at + Len(packet') = k + 1
      BY <1>4, <1>5, <2>2, <3>2, <3>3
    <3> QED  BY <3>5, <3>6
  <2> QED  BY <2>1, <2>2
<1>7. ASSUME taken # <<>> PROVE Last[1].cmd < packet'[1].cmd
  <2>1. CASE packet = <<>>
    <3>1. From(Last[1].cmd, PacketLen)
      BY <1>7, <2>1 DEF Spent
    <3>2. Last[1].cmd < h.cmd \/ PacketLen <= h.at
      BY <1>2, <3>1 DEF From
    <3>3. ~(PacketLen <= h.at)
      BY <1>3, ChunkTypes
    <3> QED  BY <1>5, <2>1, <3>2, <3>3
  <2>2. CASE packet # <<>>
    BY <1>1, <1>5, <1>7, <2>2 DEF Spent
  <2> QED  BY <2>1, <2>2
<1>8. CASE Len(packet) + 1 < PacketLen
  <2>1. fPc' = "read" /\ taken' = taken
    BY <1>8 DEF TakeByte
  <2>2. Last' = Last
    BY <2>1 DEF Last
  <2>3. HandledOnce'
    BY <2>1 DEF HandledOnce
  <2>4. \A i \in DOMAIN taken' : taken'[i] # <<>>
    BY <2>1 DEF Spent
  <2> QED  BY <1>5, <1>6, <1>7, <2>1, <2>2, <2>3, <2>4 DEF Spent
<1>9. CASE ~(Len(packet) + 1 < PacketLen)
  <2>1. fPc' = "handle" /\ taken' = Append(taken, packet')
    BY <1>9 DEF TakeByte
  <2>2. Len(packet') = PacketLen
    <3>1. Len(packet) < PacketLen
      BY <1>1 DEF TypeOK
    <3> QED  BY <1>4, <1>5, <1>9, <3>1, ChunkTypes
  <2>3. /\ Len(taken) \in Nat /\ Len(taken') = Len(taken) + 1
        /\ DOMAIN taken = 1 .. Len(taken) /\ DOMAIN taken' = 1 .. Len(taken) + 1
        /\ taken'[Len(taken) + 1] = packet'
        /\ \A i \in 1 .. Len(taken) : taken'[i] = taken[i] /\ taken[i] \in Seq(Byte)
    <3>1. taken \in Seq(Seq(Byte)) /\ packet' \in Seq(Byte)
      BY DEF TypeOK
    <3> QED  BY ONLY <2>1, <3>1
  <2>4. Last' = packet' /\ taken' # <<>>
    BY <2>3 DEF Last
  <2>5. ASSUME NEW i \in DOMAIN taken' PROVE taken'[i] # <<>>
    <3>1. i \in 1 .. Len(taken) \/ i = Len(taken) + 1
      BY <2>3
    <3> QED  BY <1>5, <2>3, <3>1 DEF Spent
  <2>6. HandledOnce'
    <3> SUFFICES ASSUME NEW i \in DOMAIN taken', NEW j \in DOMAIN taken', i < j
                 PROVE  taken'[i][1].cmd < taken'[j][1].cmd
      BY DEF HandledOnce
    <3>1. /\ i \in 1 .. Len(taken) + 1 /\ j \in 1 .. Len(taken) + 1
      BY <2>3
    <3>2. CASE j \in 1 .. Len(taken)
      <4>1. i \in 1 .. Len(taken)
        BY <2>3, <3>1, <3>2
      <4> QED  BY <2>3, <3>2, <4>1 DEF HandledOnce
    <3>3. CASE j = Len(taken) + 1
      <4>1. i \in 1 .. Len(taken) /\ taken # <<>> /\ Len(taken) \in DOMAIN taken
        BY <2>3, <3>1, <3>3
      <4>2. /\ taken[i] \in Seq(Byte) /\ taken[i] # <<>>
            /\ taken[Len(taken)] \in Seq(Byte) /\ taken[Len(taken)] # <<>>
        BY <2>3, <4>1 DEF Spent
      <4>3. taken[i][1].cmd \in Nat /\ Last[1].cmd \in Nat
        BY <4>2, FirstTyped DEF Last
      <4>4. taken[i][1].cmd <= Last[1].cmd
        <5>1. CASE i = Len(taken)
          BY <4>3, <5>1 DEF Last
        <5>2. CASE i < Len(taken)
          <6>1. taken[i][1].cmd < Last[1].cmd
            BY <2>3, <4>1, <5>2 DEF HandledOnce, Last
          <6> QED  BY <4>3, <6>1
        <5> QED  BY <2>3, <4>1, <5>1, <5>2
      <4>5. packet'[1].cmd \in Nat
        BY <1>5, FirstTyped DEF TypeOK
      <4>6. Last[1].cmd < packet'[1].cmd
        BY <1>7, <4>1
      <4>7. taken[i][1].cmd < packet'[1].cmd
        BY ONLY <4>3, <4>4, <4>5, <4>6
      <4> QED  BY <2>3, <3>3, <4>1, <4>7
    <3> QED  BY <2>3, <3>1, <3>2, <3>3
  <2> QED  BY <1>5, <1>6, <2>1, <2>2, <2>4, <2>5, <2>6 DEF Spent
<1> QED  BY <1>8, <1>9

LEMMA OrderStep == TypeOK /\ TypeOK' /\ OrderInv /\ [Next]_vars => OrderInv'
<1> SUFFICES ASSUME TypeOK, TypeOK', OrderInv, [Next]_vars PROVE OrderInv'
  OBVIOUS
<1>1. InOrder(fifo, line) /\ SentSoFar /\ Spent /\ HandledOnce
  BY DEF OrderInv
<1>2. InOrder(fifo', line') /\ SentSoFar'
  BY <1>1, FlowStep, SentStep
<1>3. Spent' /\ HandledOnce'
  <2>1. CASE TakeMarker
    <3>1. taken' = taken
      BY <2>1 DEF TakeMarker
    <3>2. HandledOnce'
      BY <1>1, <3>1 DEF HandledOnce
    <3> QED  BY <1>1, <2>1, <3>2, SpentTakeMarker
  <2>2. CASE TakeByte
    BY <1>1, <2>2, SpentTakeByte
  <2>3. CASE UNCHANGED <<packet, taken>> /\ (fPc' = "read" <=> fPc = "read")
    <3>1. HandledOnce'
      BY <1>1, <2>3 DEF HandledOnce
    <3> QED  BY <1>1, <2>3, <3>1, SpentQuiet
  <2>4. (Host \/ Quit \/ GoOn \/ Arrive \/ Speak \/ Return \/ PairSent
         \/ ReportPairing \/ UNCHANGED vars)
          => UNCHANGED <<packet, taken>> /\ (fPc' = "read" <=> fPc = "read")
    BY DEF Host, Begin, BeginUnmarked, Recv, Answer, Quit, GoOn, Arrive, Speak, Return,
           PairSent, ReportPairing, vars, fob
  <2> QED  BY <2>1, <2>2, <2>3, <2>4 DEF Next, Fob
<1> QED  BY <1>2, <1>3 DEF OrderInv

LEMMA OrderInit == Init => OrderInv
<1> SUFFICES ASSUME Init PROVE OrderInv
  OBVIOUS
<1>1. fifo = <<>> /\ line = <<>> /\ packet = <<>> /\ taken = <<>>
  BY DEF Init
<1>2. DOMAIN fifo = {} /\ DOMAIN line = {} /\ DOMAIN taken = {}
  BY <1>1
<1>3. InOrder(fifo, line) /\ Bytes(fifo, line) = {}
  BY <1>2 DEF InOrder, Sorted, Bytes
<1> QED  BY <1>1, <1>2, <1>3 DEF OrderInv, SentSoFar, Spent, HandledOnce

(* No command is handled twice, and none in the place of a later one,      *)
(* however hosts quit, overrun the FIFO and send without dev_send.         *)
THEOREM HandledInOrder == Spec => []HandledOnce
<1>1. Init => TypeOK /\ OrderInv
  BY HostTypeInit, OrderInit
<1>2. TypeOK /\ OrderInv /\ [Next]_vars => TypeOK' /\ OrderInv'
  BY HostTypeStep, OrderStep
<1>3. OrderInv => HandledOnce
  BY DEF OrderInv
<1> QED  BY <1>1, <1>2, <1>3, PTL DEF Spec

-----------------------------------------------------------------------------
(* The liveness of dev_send and the fob's loop, while hosts keep to        *)
(* dev_send.  First: as long as a command is being sent, read or handled,  *)
(* the host, the UART or the fob has a step to take.                       *)
HostCanGo ==
    \/ hPc = "recv" /\ back > 0
    \/ hPc = "answer" /\ line = <<>> /\ fifo = <<>> /\ fPc \in {"store", "pair", "loop"}
ArriveCanGo == line # <<>>
FobCanGo == fPc \in {"handle", "store"} \/ (fPc \in {"loop", "read"} /\ fifo # <<>>)
SomebodyCanGo == HostCanGo \/ ArriveCanGo \/ FobCanGo

(* A '*' or the handler's text is waiting for a host whose command has     *)
(* been taken and which is still in dev_send.                              *)
LastByteWaits == breaches = 0 /\ hPc = "recv" /\ ~Pending => back > 0

(* dev_send's recv(1), the fob's UARTCharGet of the first loop and the     *)
(* polls of the second never wait for each other: when none of host, UART  *)
(* and fob has a step to take, every command that was begun is handled,    *)
(* the host is behind its answer and the fob in its loop -- or the fob     *)
(* waits for another fob, in the uart_send_message of a pair request.      *)
NobodyWaits ==
    breaches = 0 /\ ~SomebodyCanGo =>
      fPc = "pair" \/ (hPc = "idle" /\ fPc = "loop" /\ Len(taken) = n)

LEMMA LastByteStep ==
    TypeOK /\ TypeOK' /\ HostInv /\ LastByteWaits /\ [Next]_vars => LastByteWaits'
<1> SUFFICES ASSUME TypeOK, TypeOK', HostInv, LastByteWaits, [Next]_vars,
                    breaches' = 0, hPc' = "recv", ~Pending'
             PROVE  back' > 0
  BY DEF LastByteWaits
<1>t. /\ back \in Nat /\ back' \in Nat /\ n \in Nat /\ Len(taken) \in Nat /\ breaches \in Nat
  BY HostTypes DEF TypeOK
<1>1. breaches = 0
  BY <1>t DEF Next, Host, Fob, Begin, BeginUnmarked, Recv, Answer, Quit, GoOn, Arrive, TakeMarker,
              TakeByte, Speak, Return, PairSent, ReportPairing, vars, host
<1>2. Turns /\ Credit
  BY <1>1 DEF HostInv, Orderly
<1>3. CASE Begin
  <2>1. hPc = "idle" /\ n' = n + 1 /\ taken' = taken
    BY <1>3 DEF Begin, fob
  <2>2. n = Len(taken)
    BY <1>2, <2>1 DEF Turns
  <2> QED  BY <1>t, <2>1, <2>2 DEF Pending
<1>4. CASE Recv
  <2>1. hPc = "recv" /\ n' = n /\ taken' = taken /\ sent < Chunks
    BY <1>4 DEF Recv, fob
  <2>2. sent # Chunks /\ ~Pending
    BY <1>t, <2>1, ChunkFacts DEF Pending, TypeOK
  <2> QED  BY <1>2, <2>1, <2>2 DEF Turns
<1>5. CASE TakeByte
  <2>1. taken' = taken \/ (taken' # taken /\ back' >= back + 4)
    BY <1>t, <1>5 DEF TakeByte
  <2>2. CASE taken' = taken
    <3>1. ~Pending /\ hPc = "recv" /\ back' >= back
      BY <1>t, <1>5, <2>2 DEF TakeByte, Pending, host
    <3> QED  BY <1>1, <1>t, <3>1 DEF LastByteWaits
  <2> QED  BY <1>t, <2>1, <2>2
<1>6. CASE Speak
  <2>1. hPc = "recv" /\ ~Pending
    BY <1>6 DEF Speak, Pending, host
  <2>2. back' >= back
    BY <1>t, <1>6, HostAssumption DEF Speak
  <2> QED  BY <1>1, <1>t, <2>1, <2>2 DEF LastByteWaits
<1>7. CASE ~Begin /\ ~Recv /\ ~TakeByte /\ ~Speak
  <2>1. hPc = "recv" /\ ~Pending /\ back' = back
    BY <1>7, <1>1 DEF Next, Host, Fob, BeginUnmarked, Answer, Quit, GoOn, Arrive, TakeMarker, Return,
                      PairSent, ReportPairing, vars, host, fob, Pending
  <2> QED  BY <1>1, <2>1 DEF LastByteWaits
<1> QED  BY <1>3, <1>4, <1>5, <1>6, <1>7

(* dev_send and uart_read_host_data never wait for each other.             *)
THEOREM CommandsGoOn == Spec => []NobodyWaits
<1>1. Init => LastByteWaits
  BY DEF Init, LastByteWaits
<1>2. TypeOK /\ HostInv /\ LastByteWaits => NobodyWaits
  <2> SUFFICES ASSUME TypeOK, HostInv, LastByteWaits, breaches = 0, ~SomebodyCanGo, fPc # "pair"
               PROVE  hPc = "idle" /\ fPc = "loop" /\ Len(taken) = n
    BY DEF NobodyWaits
  <2>t. /\ n \in Nat /\ Len(taken) \in Nat /\ Len(packet) \in Nat /\ back \in Nat
        /\ sent \in Nat /\ Sent \in Nat /\ Chunk \in Nat \ {0}
    BY HostTypes, HostAssumption
  <2>1. fifo = <<>> /\ line = <<>> /\ fPc \in {"loop", "read"}
    BY DEF SomebodyCanGo, ArriveCanGo, FobCanGo, TypeOK
  <2>2. Len(fifo) = 0 /\ Len(line) = 0
    BY <2>1
  <2>3. Amount /\ Turns /\ Credit
    BY DEF HostInv, Orderly
  <2>4. Got = IF Pending THEN 1 + Sent ELSE 0
    BY <2>2, <2>3, <2>t DEF Amount, Got
  <2>5. ~Pending
    <3> SUFFICES ASSUME Pending PROVE FALSE
      OBVIOUS
    <3>1. fPc = "read" /\ Len(packet) = Sent
      BY <2>t, <2>4 DEF Got
    <3>2. CASE hPc = "recv"
      <4>1. back = 0
        BY <2>t, <3>2 DEF SomebodyCanGo, HostCanGo
      <4> QED  BY <2>3, <2>t, <3>1, <3>2, <4>1 DEF Credit
    <3>3. CASE hPc = "answer"
      <4>1. Sent = PacketLen
        BY <2>3, <3>3 DEF Credit, Sent, PacketLen
      <4> QED  BY <2>t, <3>1, <4>1 DEF TypeOK
    <3> QED  BY <2>3, <3>2, <3>3 DEF Turns, TypeOK
  <2>6. fPc = "loop" /\ n = Len(taken)
    BY <2>1, <2>3, <2>4, <2>5, <2>t DEF Got, Turns
  <2>7. hPc = "idle"
    BY <2>1, <2>5, <2>6 DEF SomebodyCanGo, HostCanGo, LastByteWaits, TypeOK
  <2> QED  BY <2>6, <2>7
<1> QED  BY <1>1, <1>2, LastByteStep, HostInvariant, PTL DEF Spec

(* Second: what is left to do, with the commands not begun, is a number    *)
(* that every step lowers until a host departs from the protocol; a byte   *)
(* counts twice for the UART and the fob and leaves room for what the      *)
(* handler does, a chunk counts as its bytes on the line and a step.       *)
ChunkWork == 4 * Chunk + 1
HostWork == IF hPc = "idle" THEN 0 ELSE IF hPc = "answer" THEN 1
            ELSE ChunkWork * (Chunks - sent) + 2
FobWork == IF fPc = "handle" THEN 2 ELSE IF fPc \in {"store", "pair"} THEN 1 ELSE 0
NotBegun == IF n <= MaxCommands THEN MaxCommands - n ELSE 0
CommandWork == ChunkWork * Chunks + 6
Left ==
    IF breaches > 0 THEN 0
    ELSE CommandWork * NotBegun + HostWork + 4 * Len(line) + 3 * Len(fifo) + FobWork

LeftTyped ==
    /\ HostWork \in Nat /\ FobWork \in Nat /\ NotBegun \in Nat /\ CommandWork * NotBegun \in Nat
    /\ Len(line) \in Nat /\ Len(fifo) \in Nat /\ Left \in Nat

LEMMA WorkUnits == ChunkWork \in Nat /\ CommandWork \in Nat /\ ChunkWork * Chunks \in Nat
<1>1. ChunkWork \in Nat /\ Chunks \in Nat
  BY HostAssumption DEF ChunkWork
<1> HIDE DEF ChunkWork
<1>2. ChunkWork * Chunks \in Nat
  BY <1>1
<1> QED  BY <1>1, <1>2 DEF CommandWork

LEMMA LeftTypes == TypeOK => LeftTyped
<1> SUFFICES ASSUME TypeOK PROVE LeftTyped
  OBVIOUS
<1>1. ChunkWork \in Nat /\ Chunks \in Nat /\ MaxCommands \in Nat
  BY HostAssumption, WorkUnits
<1>2. CommandWork \in Nat /\ NotBegun \in Nat
  BY <1>1, WorkUnits DEF NotBegun, TypeOK
<1>3. HostWork \in Nat
  <2> HIDE DEF ChunkWork
  <2>1. Chunks - sent \in Nat
    BY <1>1, HostTypes
  <2>2. ChunkWork * (Chunks - sent) \in Nat
    BY <1>1, <2>1
  <2> QED  BY <2>2 DEF HostWork
<1>4. FobWork \in Nat
  BY DEF FobWork
<1>5. CommandWork * NotBegun \in Nat
  <2> HIDE DEF CommandWork, NotBegun
  <2> QED  BY <1>2
<1>6. Len(line) \in Nat /\ Len(fifo) \in Nat
  BY HostTypes
<1>7. Left \in Nat
  <2> DEFINE C == CommandWork * NotBegun
             L == 4 * Len(line)
             F == 3 * Len(fifo)
  <2>1. Left = 0 \/ Left = C + HostWork + L + F + FobWork
    BY DEF Left
  <2>2. C \in Nat /\ L \in Nat /\ F \in Nat
    BY <1>5, <1>6
  <2> HIDE DEF C, L, F
  <2> QED  BY <1>3, <1>4, <2>1, <2>2
<1> QED  BY <1>2, <1>3, <1>4, <1>5, <1>6, <1>7 DEF LeftTyped

LEMMA LenConcat ==
  ASSUME NEW S, NEW s \in Seq(S), NEW t \in Seq(S)
  PROVE  s \o t \in Seq(S) /\ Len(s \o t) = Len(s) + Len(t)
  OBVIOUS

LEMMA LeftShrinks == TypeOK /\ TypeOK' /\ [Next]_vars /\ breaches' = 0 => [Left' < Left]_vars
<1> SUFFICES ASSUME TypeOK, TypeOK', Next, breaches' = 0 PROVE Left' < Left
  OBVIOUS
<1>0. breaches = 0
  BY DEF Next, Host, Fob, Begin, BeginUnmarked, Recv, Answer, Quit, GoOn, Arrive, TakeMarker,
         TakeByte, Speak, Return, PairSent, ReportPairing, host, TypeOK
<1> DEFINE C == CommandWork * NotBegun
<1>l. LeftTyped /\ LeftTyped'
  BY LeftTypes, PTL
<1>t. /\ ChunkWork \in Nat /\ CommandWork \in Nat /\ HostWork \in Nat /\ FobWork \in Nat
      /\ C \in Nat /\ Len(line) \in Nat /\ Len(fifo) \in Nat
      /\ HostWork' \in Nat /\ FobWork' \in Nat /\ Len(line') \in Nat /\ Len(fifo') \in Nat
      /\ C' \in Nat /\ NotBegun \in Nat /\ NotBegun' \in Nat
      /\ Chunk \in Nat \ {0} /\ Chunks \in Nat \ {0} /\ sent \in Nat /\ sent <= Chunks
      /\ n \in Nat /\ MaxCommands \in Nat /\ ChunkWork * Chunks \in Nat
  BY <1>l, WorkUnits, HostTypes, HostAssumption DEF LeftTyped
<1>1. /\ Left = C + HostWork + 4 * Len(line) + 3 * Len(fifo) + FobWork
      /\ Left' = C' + HostWork' + 4 * Len(line') + 3 * Len(fifo') + FobWork'
  BY <1>0 DEF Left
<1>2. n' = n => C' = C
  BY DEF NotBegun, CommandWork, ChunkWork
<1>3. UNCHANGED <<hPc, sent>> => HostWork' = HostWork
  BY DEF HostWork, ChunkWork
<1>4. UNCHANGED fPc => FobWork' = FobWork
  BY DEF FobWork
<1>c. C = CommandWork * NotBegun /\ C' = CommandWork * NotBegun'
  BY DEF CommandWork, ChunkWork
<1> HIDE DEF C, Left, HostWork, FobWork, NotBegun, ChunkWork, CommandWork
<1>5. CASE Begin
  <2>1. /\ hPc = "idle" /\ hPc' = "recv" /\ sent' = 1 /\ n < MaxCommands /\ n' = n + 1
        /\ UNCHANGED <<fifo, fPc>> /\ line' = (line \o <<Marker(n + 1)>>) \o ChunkOf(n + 1, 0)
    BY <1>5 DEF Begin, fob
  <2>2. Len(line') = Len(line) + 1 + Chunk
    <3>1. line \in Seq(Byte) /\ <<Marker(n + 1)>> \in Seq(Byte) /\ Len(<<Marker(n + 1)>>) = 1
      <4>1. Marker(n + 1) \in Byte
        BY <1>t, ChunkFacts DEF Marker, Byte
      <4> QED  BY <4>1 DEF TypeOK
    <3>2. ChunkOf(n + 1, 0) \in Seq(Byte) /\ Len(ChunkOf(n + 1, 0)) = Chunk
      <4>1. n + 1 \in Nat /\ 0 \in Nat /\ 0 < Chunks
        BY <1>t
      <4> QED  BY <4>1, ChunkBytes
    <3>3. /\ Len(line \o <<Marker(n + 1)>>) = Len(line) + 1
          /\ line \o <<Marker(n + 1)>> \in Seq(Byte)
      BY <3>1, LenConcat
    <3>4. Len(line') = Len(line \o <<Marker(n + 1)>>) + Len(ChunkOf(n + 1, 0))
      BY <2>1, <3>2, <3>3, LenConcat
    <3> QED  BY <1>t, <3>2, <3>3, <3>4
  <2>3. NotBegun' = NotBegun - 1 /\ NotBegun \in Nat \ {0}
    BY <1>t, <2>1 DEF NotBegun
  <2>4. C' = C - CommandWork
    <3>1. CommandWork * (NotBegun - 1) = CommandWork * NotBegun - CommandWork
      BY <1>t
    <3> QED  BY <1>c, <2>3, <3>1
  <2>5. HostWork = 0 /\ HostWork' = ChunkWork * Chunks - ChunkWork + 2
    <3>1. HostWork' = ChunkWork * (Chunks - 1) + 2
      BY <2>1 DEF HostWork, ChunkWork
    <3>2. HostWork = 0
      BY <2>1 DEF HostWork
    <3> QED  BY <1>t, <3>1, <3>2
  <2>6. /\ CommandWork = ChunkWork * Chunks + 6 /\ ChunkWork = 4 * Chunk + 1
        /\ ChunkWork * Chunks \in Nat
    BY <1>t DEF CommandWork, ChunkWork
  <2> QED  BY <1>1, <1>4, <1>t, <2>1, <2>2, <2>4, <2>5, <2>6
<1>6. CASE Recv
  <2>1. hPc = "recv" /\ n' = n /\ UNCHANGED <<fifo, fPc>>
    BY <1>6 DEF Recv, fob
  <2>2. CASE sent < Chunks
    <3>1. hPc' = "recv" /\ sent' = sent + 1 /\ line' = line \o ChunkOf(n, sent)
      BY <1>6, <2>1, <2>2 DEF Recv
    <3>2. Len(line') = Len(line) + Chunk
      <4>1. ChunkOf(n, sent) \in Seq(Byte) /\ Len(ChunkOf(n, sent)) = Chunk
        BY <1>t, <2>2, ChunkBytes, ChunkFacts
      <4>2. line \in Seq(Byte)
        BY DEF TypeOK
      <4> QED  BY <3>1, <4>1, <4>2, LenConcat
    <3>3. /\ HostWork = ChunkWork * (Chunks - sent) + 2
          /\ HostWork' = ChunkWork * (Chunks - (sent + 1)) + 2
      BY <2>1, <3>1 DEF HostWork, ChunkWork
    <3>4. HostWork' = HostWork - ChunkWork
      BY <1>t, <3>3
    <3>5. ChunkWork = 4 * Chunk + 1
      BY DEF ChunkWork
    <3> QED  BY <1>1, <1>2, <1>4, <1>t, <2>1, <3>2, <3>4, <3>5
  <2>3. CASE ~(sent < Chunks)
    <3>1. hPc' = "answer" /\ UNCHANGED <<line, sent>> /\ sent = Chunks
      BY <1>t, <1>6, <2>3 DEF Recv
    <3>2. HostWork' = 1 /\ HostWork = 2
      <4>1. HostWork = ChunkWork * 0 + 2
        BY <1>t, <2>1, <3>1 DEF HostWork
      <4> QED  BY <1>t, <3>1, <4>1 DEF HostWork
    <3> QED  BY <1>1, <1>2, <1>4, <1>t, <2>1, <3>1, <3>2
  <2> QED  BY <2>2, <2>3
<1>7. CASE Answer
  <2>1. HostWork = 1 /\ HostWork' = 0 /\ n' = n /\ UNCHANGED <<line, fifo, fPc>>
    BY <1>7 DEF Answer, HostWork, fob
  <2> QED  BY <1>1, <1>2, <1>4, <1>t, <2>1
<1>8. CASE Arrive
  <2>1. /\ line # <<>> /\ line' = Tail(line) /\ UNCHANGED <<n, hPc, sent, fPc>>
        /\ fifo' = fifo \/ fifo' = Append(fifo, Head(line))
    BY <1>8 DEF Arrive, host, fob
  <2>2. Len(line') = Len(line) - 1 /\ Len(line) > 0
    BY <2>1 DEF TypeOK
  <2>3. Len(fifo') = Len(fifo) \/ Len(fifo') = Len(fifo) + 1
    BY <2>1, <2>2 DEF TypeOK
  <2> QED  BY <1>1, <1>2, <1>3, <1>4, <1>t, <2>1, <2>2, <2>3
<1>9. CASE TakeMarker \/ TakeByte
  <2>1. /\ fifo # <<>> /\ fifo' = Tail(fifo) /\ UNCHANGED <<n, hPc, sent, line>>
        /\ fPc \in {"loop", "read"}
    BY <1>9 DEF TakeMarker, TakeByte, host
  <2>2. Len(fifo') = Len(fifo) - 1 /\ Len(fifo) > 0
    BY <2>1 DEF TypeOK
  <2>3. FobWork = 0 /\ FobWork' <= 2
    BY <2>1 DEF FobWork
  <2> QED  BY <1>1, <1>2, <1>3, <1>t, <2>1, <2>2, <2>3
<1>10. CASE Speak \/ Return \/ PairSent
  <2>1. FobWork' = FobWork - 1 /\ UNCHANGED <<n, hPc, sent, line, fifo>>
    BY <1>10 DEF Speak, Return, PairSent, FobWork, host
  <2> QED  BY <1>1, <1>2, <1>3, <1>t, <2>1
<1>11. ~BeginUnmarked /\ ~Quit /\ ~GoOn /\ ~ReportPairing
  BY <1>0 DEF BeginUnmarked, Quit, GoOn, ReportPairing
<1> QED  BY <1>5, <1>6, <1>7, <1>8, <1>9, <1>10, <1>11 DEF Next, Host, Fob

(* Two things the provers do not know are hypotheses of the next theorem,  *)
(* and no behaviour of Spec is without them: an action is ENABLED when its *)
(* guard holds (GuardsEnable), and a natural number that never grows is    *)
(* the same from some time on (LeftSettles).                               *)
GuardsEnable ==
    /\ HostCanGo => ENABLED <<Recv \/ Answer>>_vars
    /\ ArriveCanGo => ENABLED <<Arrive>>_vars
    /\ FobCanGo => ENABLED <<Fob>>_vars
LeftSettles == [](Left \in Nat) /\ [][Left' <= Left]_vars => <>[][Left' = Left]_vars

(* While there are no breaches and every pair request the fob sends gets   *)
(* its acknowledgements, every command that is begun is handled and its    *)
(* answer read, and the fob comes back to its button and its car:          *)
(* CommandsEnd and FobReturns.  (FairSpec does not make PairSent fair.)    *)
THEOREM CommandsAreServed ==
    FairSpec /\ []GuardsEnable /\ LeftSettles => CommandsEnd /\ FobReturns
<1>1. TypeOK => Left \in Nat
  BY LeftTypes DEF LeftTyped
<1>2. TypeOK /\ TypeOK' /\ [Next]_vars => [Left' <= Left]_vars
  <2> SUFFICES ASSUME TypeOK, TypeOK', Next PROVE Left' <= Left
    OBVIOUS
  <2>l. LeftTyped /\ LeftTyped'
    BY LeftTypes, PTL
  <2>1. breaches' \in Nat /\ Left \in Nat /\ (Left \in Nat)'
    BY <2>l DEF TypeOK, LeftTyped
  <2>2. CASE breaches' = 0
    <3>1. [Left' < Left]_vars
      BY <2>2, LeftShrinks
    <3>2. UNCHANGED vars => Left' = Left
      BY DEF vars, Left, NotBegun, HostWork, FobWork, ChunkWork, CommandWork
    <3> HIDE DEF Left
    <3> QED  BY <2>1, <3>1, <3>2
  <2>3. CASE breaches' > 0
    <3>1. Left' = 0
      BY <2>3 DEF Left
    <3> HIDE DEF Left
    <3> QED  BY <2>1, <3>1
  <2> QED  BY <2>1, <2>2, <2>3
<1>3. TypeOK /\ TypeOK' /\ [Next]_vars /\ [Left' = Left]_vars => [breaches' # 0]_vars
  <2> SUFFICES ASSUME TypeOK, TypeOK', Next, Left' = Left, breaches' = 0 PROVE UNCHANGED vars
    OBVIOUS
  <2>1. Left \in Nat /\ [Left' < Left]_vars
    BY LeftTypes, LeftShrinks DEF LeftTyped
  <2> HIDE DEF Left
  <2> QED  BY <2>1
<1>4. TypeOK => (breaches = 0 \/ breaches > 0)
  BY DEF TypeOK
<1>5. [FALSE]_vars => /\ HostCanGo => HostCanGo'
                      /\ ArriveCanGo => ArriveCanGo'
                      /\ FobCanGo => FobCanGo'
  BY DEF vars, HostCanGo, ArriveCanGo, FobCanGo
<1>6. NobodyWaits /\ breaches = 0 => \/ HostCanGo \/ ArriveCanGo \/ FobCanGo
                                     \/ fPc = "pair"
                                     \/ hPc = "idle" /\ fPc = "loop" /\ Len(taken) = n
  BY DEF NobodyWaits, SomebodyCanGo
<1>7. [breaches' # 0]_vars /\ (breaches = 0)' => [FALSE]_vars
  OBVIOUS
<1>8. Spec => [](Left \in Nat) /\ [][Left' <= Left]_vars
  BY <1>1, <1>2, HostTypeCorrect, PTL DEF Spec
<1>9. Spec /\ LeftSettles => <>[][breaches' # 0]_vars
  BY <1>3, <1>8, HostTypeCorrect, PTL DEF Spec, LeftSettles
<1>10. Spec /\ LeftSettles /\ <>[](breaches = 0) => <>[][FALSE]_vars
  BY <1>7, <1>9, PTL
<1>11. FairSpec /\ []GuardsEnable /\ LeftSettles /\ <>[](breaches = 0)
         => <>[](~HostCanGo /\ ~ArriveCanGo /\ ~FobCanGo)
  BY <1>5, <1>10, PTL DEF FairSpec, GuardsEnable
<1>12. FairSpec /\ []GuardsEnable /\ LeftSettles /\ <>[](breaches = 0)
         => <>[](fPc = "pair" \/ (hPc = "idle" /\ fPc = "loop" /\ Len(taken) = n))
  BY <1>6, <1>11, CommandsGoOn, PTL DEF FairSpec
<1>13. [FALSE]_vars => (fPc # "pair" => (fPc # "pair")')
  BY DEF vars
<1>14. FairSpec /\ []GuardsEnable /\ LeftSettles /\ PairRequestsGetOut
         => ([]<>~(breaches = 0) \/ <>[](hPc = "idle" /\ fPc = "loop" /\ Len(taken) = n))
  <2>1. fPc # "pair" => ~(fPc = "pair")
    OBVIOUS
  <2> QED  BY <1>10, <1>12, <1>13, <2>1, PTL DEF FairSpec, PairRequestsGetOut
<1>15. TypeOK => (~(breaches = 0) => breaches > 0 \/ (hPc = "idle" /\ Len(taken) = n))
                 /\ (~(breaches = 0) => breaches > 0 \/ fPc = "loop")
  BY <1>4
<1>16. /\ hPc = "idle" /\ fPc = "loop" /\ Len(taken) = n
             => breaches > 0 \/ (hPc = "idle" /\ Len(taken) = n)
       /\ hPc = "idle" /\ fPc = "loop" /\ Len(taken) = n => breaches > 0 \/ fPc = "loop"
  OBVIOUS
<1>17. FairSpec /\ []GuardsEnable /\ LeftSettles /\ PairRequestsGetOut
         => (hPc = "recv" ~> (breaches > 0 \/ (hPc = "idle" /\ Len(taken) = n)))
  BY <1>14, <1>15, <1>16, HostTypeCorrect, PTL DEF FairSpec
<1>18. FairSpec /\ []GuardsEnable /\ LeftSettles /\ PairRequestsGetOut
         => (fPc # "loop" ~> (breaches > 0 \/ fPc = "loop"))
  BY <1>14, <1>15, <1>16, HostTypeCorrect, PTL DEF FairSpec
<1> QED  BY <1>17, <1>18 DEF CommandsEnd, FobReturns

=============================================================================
