------------------------------ MODULE UartLink ------------------------------
(***************************************************************************)
(* One direction of the device UART, byte by byte: uart_send_message on    *)
(* one side, main's poll and uart_read_message on the other (car/src/uart.c *)
(* and fob/src/uart.c).  A message is a header of HdrLen magic bytes and   *)
(* the MsgLen bytes of the struct; the sender waits for an acknowledgement *)
(* after every struct byte whose index is a multiple of AckEvery, and the  *)
(* reader sends one after reading such a byte.  The receive FIFO of the    *)
(* UART holds FifoCap bytes and drops what arrives when it is full.        *)
(*                                                                         *)
(* A byte is represented by its position in its message: 0..HdrLen-1 are   *)
(* the magic bytes in order, HdrLen+i is struct byte i.  The code has      *)
(* HdrLen = 4, MsgLen = sizeof(Message) = 472, AckEvery = 8, FifoCap = 16. *)
(***************************************************************************)
EXTENDS Integers, Sequences

CONSTANTS HdrLen, MsgLen, AckEvery, FifoCap,
          MaxMsgs,   \* bound: messages sent
          MaxLoss    \* bound: bytes lost to noise

ASSUME LengthsAssumption ==
    /\ HdrLen \in Nat \ {0} /\ MsgLen \in Nat \ {0}
    /\ AckEvery \in Nat \ {0} /\ FifoCap \in Nat
    /\ MaxMsgs \in Nat /\ MaxLoss \in Nat

(* The receive FIFO has room for a header, for the struct bytes up to the  *)
(* first acknowledgement and for what follows the last one.                *)
ASSUME FifoAssumption == FifoCap >= HdrLen + AckEvery

VARIABLES
    sPc,       \* sender: "idle", "hdr", "put" (a struct byte), "get" (an ack)
    sI,        \* sender's loop counter i
    line,      \* bytes written to the UART and not yet arrived
    fifo,      \* the reader's receive FIFO
    acks,      \* 'A' bytes written by the reader and not yet taken
    rPc,       \* reader: "main", "hdr", "body"
    rI,        \* reader's loop counter, j in the header and i in the body
    intact,    \* every struct byte stored so far was the one sent for its place
    started,   \* messages the sender has begun
    received,  \* messages the reader has completed
    overruns,  \* bytes dropped because the FIFO was full
    lost       \* bytes lost to noise

vars == <<sPc, sI, line, fifo, acks, rPc, rI, intact, started, received, overruns, lost>>
sender == <<sPc, sI, started>>
reader == <<rPc, rI, intact, received>>

Bytes == 0 .. HdrLen + MsgLen - 1

Init ==
    /\ sPc = "idle" /\ sI = 0 /\ started = 0
    /\ line = <<>> /\ fifo = <<>> /\ acks = 0
    /\ rPc = "main" /\ rI = 0 /\ intact = TRUE /\ received = 0
    /\ overruns = 0 /\ lost = 0

-----------------------------------------------------------------------------
(* uart_send_message.                                                      *)
StartSend ==
    /\ sPc = "idle" /\ started < MaxMsgs
    /\ sPc' = "hdr" /\ sI' = 0 /\ started' = started + 1
    /\ UNCHANGED <<line, fifo, acks, reader, overruns, lost>>

(* The header loop: UARTCharPut of one magic byte.                         *)
PutHeader ==
    /\ sPc = "hdr"
    /\ line' = Append(line, sI)
    /\ IF sI + 1 < HdrLen THEN sPc' = "hdr" /\ sI' = sI + 1
                          ELSE sPc' = "put" /\ sI' = 0
    /\ UNCHANGED <<started, fifo, acks, reader, overruns, lost>>

(* Where the sender's loop goes after struct byte i.                       *)
AfterByte(i) ==
    IF i + 1 < MsgLen THEN sPc' = "put" /\ sI' = i + 1
                      ELSE sPc' = "idle" /\ sI' = 0

(* Slip: the sender counts from one when it decides to wait.               *)
PutByteOffByOne ==
    /\ sPc = "put" /\ line = <<>>
    /\ line' = <<HdrLen + sI>>
    /\ IF (sI + 1) % AckEvery = 0 THEN sPc' = "get" /\ sI' = sI
                                  ELSE AfterByte(sI)
    /\ UNCHANGED <<started, fifo, acks, reader, overruns, lost>>

(* UARTBusy has turned false; UARTCharPut of struct byte sI.               *)
PutByte ==
    /\ sPc = "put" /\ line = <<>>
    /\ line' = <<HdrLen + sI>>
    /\ IF sI % AckEvery = 0 THEN sPc' = "get" /\ sI' = sI
                            ELSE AfterByte(sI)
    /\ UNCHANGED <<started, fifo, acks, reader, overruns, lost>>

(* Slip: UARTCharGetNonBlocking in its place.                              *)
GetAckNonBlocking ==
    /\ sPc = "get"
    /\ acks' = IF acks > 0 THEN acks - 1 ELSE 0
    /\ AfterByte(sI)
    /\ UNCHANGED <<started, line, fifo, reader, overruns, lost>>

(* UARTCharGet, which blocks until some byte is there, returns.            *)
GetAck ==
    /\ sPc = "get" /\ acks > 0
    /\ acks' = acks - 1
    /\ AfterByte(sI)
    /\ UNCHANGED <<started, line, fifo, reader, overruns, lost>>

-----------------------------------------------------------------------------
(* The UART: a byte arrives, and is dropped when the FIFO is full.         *)
Arrive ==
    /\ line # <<>>
    /\ line' = Tail(line)
    /\ IF Len(fifo) < FifoCap
       THEN fifo' = Append(fifo, Head(line)) /\ UNCHANGED overruns
       ELSE overruns' = overruns + 1 /\ UNCHANGED fifo
    /\ UNCHANGED <<sender, acks, reader, lost>>

(* Noise: a byte does not arrive.                                          *)
Lose ==
    /\ line # <<>> /\ lost < MaxLoss
    /\ line' = Tail(line)
    /\ lost' = lost + 1
    /\ UNCHANGED <<sender, fifo, acks, reader, overruns>>

-----------------------------------------------------------------------------
(* main: UARTCharsAvail, then parse_inc_message calls uart_read_message.   *)
Poll ==
    /\ rPc = "main" /\ fifo # <<>>
    /\ rPc' = "hdr" /\ rI' = 0
    /\ UNCHANGED <<sender, line, fifo, acks, intact, received, overruns, lost>>

(* The header loop takes a byte: the next magic byte, or j starts again.   *)
(* A struct byte may happen to have the value of any magic byte.           *)
IsMagic(b, j) == IF b < HdrLen THEN {b = j} ELSE BOOLEAN

ReadHeader ==
    /\ rPc = "hdr" /\ fifo # <<>>
    /\ fifo' = Tail(fifo)
    /\ \E match \in IsMagic(Head(fifo), rI) :
         \/ ~match /\ rPc' = "hdr" /\ rI' = 0
         \/ match /\ rI + 1 < HdrLen /\ rPc' = "hdr" /\ rI' = rI + 1
         \/ match /\ rI + 1 = HdrLen /\ rPc' = "body" /\ rI' = 0
    /\ UNCHANGED <<sender, line, acks, intact, received, overruns, lost>>

HeaderNeverTimesOut == FALSE   \* slip: the header loop has no timeout either

(* The header loop times out.  TIMEOUT_THRESHOLD polls of an empty FIFO    *)
(* take far longer than a byte, so this happens only when none is coming.  *)
HeaderTimeout ==
    /\ rPc = "hdr" /\ fifo = <<>>
    /\ line = <<>> /\ sPc \notin {"hdr", "put"}
    /\ rPc' = "main" /\ rI' = 0
    /\ UNCHANGED <<sender, line, fifo, acks, intact, received, overruns, lost>>

(* What a turn of the body loop does with the byte and with its counter.   *)
StoreByte ==
    /\ rPc = "body" /\ fifo # <<>>
    /\ fifo' = Tail(fifo)
    /\ intact' = (intact /\ Head(fifo) = HdrLen + rI)
    /\ UNCHANGED <<sender, line, overruns, lost>>
AckWhen(due) == acks' = IF due THEN acks + 1 ELSE acks
LoopWhile(more) ==
    \/ more /\ rPc' = "body" /\ rI' = rI + 1 /\ UNCHANGED received
    \/ ~more /\ rPc' = "main" /\ rI' = 0 /\ received' = received + 1

(* Slips: every byte is acknowledged; the reader counts from one; the loop *)
(* runs once too often.                                                    *)
ReadBodyAcksEach == StoreByte /\ AckWhen(TRUE) /\ LoopWhile(rI + 1 < MsgLen)
ReadBodyOffByOne == StoreByte /\ AckWhen((rI + 1) % AckEvery = 0) /\ LoopWhile(rI + 1 < MsgLen)
ReadBodyOneMore == StoreByte /\ AckWhen(rI % AckEvery = 0) /\ LoopWhile(rI < MsgLen)

(* The body loop stores struct byte rI and acknowledges it when due; after *)
(* the last one the message is handed to verify_message and main's loop    *)
(* comes round again.  This loop has no timeout.                           *)
ReadBody == StoreByte /\ AckWhen(rI % AckEvery = 0) /\ LoopWhile(rI + 1 < MsgLen)

-----------------------------------------------------------------------------
Send == PutHeader \/ PutByte \/ GetAck
Read == Poll \/ ReadHeader \/ HeaderTimeout \/ ReadBody

Next == StartSend \/ Send \/ Arrive \/ Lose \/ Read

Spec == Init /\ [][Next]_vars

(* Both loops run and the UART shifts; nobody has to send, no byte has to  *)
(* be lost.                                                                *)
FairSpec == Spec /\ WF_vars(Send) /\ WF_vars(Arrive) /\ WF_vars(Read)

-----------------------------------------------------------------------------
(* The variables have their types, and the loop counters stay inside       *)
(* uart_magic and the message struct they index.                           *)
TypeOK ==
    /\ sPc \in {"idle", "hdr", "put", "get"} /\ sI \in Nat
    /\ sPc = "hdr" => sI < HdrLen
    /\ sPc \in {"put", "get"} => sI < MsgLen
    /\ rPc \in {"main", "hdr", "body"} /\ rI \in Nat
    /\ rPc = "hdr" => rI < HdrLen
    /\ rPc = "body" => rI < MsgLen
    /\ line \in Seq(Bytes) /\ fifo \in Seq(Bytes)
    /\ acks \in Nat
    /\ intact \in BOOLEAN
    /\ started \in Nat /\ received \in Nat
    /\ overruns \in Nat /\ lost \in Nat

(* Acknowledging every AckEvery-th byte is enough flow control for the     *)
(* UART's FIFO: no byte is ever dropped by the hardware, however slow the  *)
(* reader, even when the next message follows at once and even when noise  *)
(* has put the two loops out of step (a question the comment above         *)
(* uart_read_message leaves open).                                         *)
NoOverrun == overruns = 0

(* Without noise, whatever the reader stores is the message sent, byte for *)
(* byte: nothing is dropped and the two loops never get out of step.       *)
ExactDelivery == lost = 0 => intact /\ overruns = 0

(* Without noise, uart_send_message returns only when all but the tail of  *)
(* the message has been read, so a device is never more than one message   *)
(* ahead of its peer, and no acknowledgement is left for the next message. *)
InStep ==
    lost = 0 =>
        /\ received <= started /\ started <= received + 2
        /\ sPc = "idle" => started <= received + 1 /\ acks = 0
        /\ acks <= 1

(* Noise tears messages and joins the parts of two, but never makes more   *)
(* messages than were sent, and never leaves two acknowledgements waiting, *)
(* so a torn message cannot let the sender run ahead of its reader.        *)
NothingInvented == received <= started /\ acks <= 1

(* A call of uart_send_message returns when no byte is lost.               *)
SendReturns == (sPc # "idle" /\ lost = 0) ~> (sPc = "idle" \/ lost > 0)

(* What the reader has begun to read it hands on when no byte is lost.     *)
ReadReturns == (rPc # "main" /\ lost = 0) ~> (rPc = "main" \/ lost > 0)

(* The search for the magic header always ends, by a header or by the      *)
(* timeout, whatever noise does to the bytes.                              *)
HeaderReadEnds == rPc = "hdr" ~> rPc # "hdr"
=============================================================================
