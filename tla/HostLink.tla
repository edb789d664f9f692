------------------------------ MODULE HostLink ------------------------------
(***************************************************************************)
(* Commands from a host tool to a fob, byte by byte: dev_send of           *)
(* enable_tool on one side, main's poll of the host UART, handle_host_msg  *)
(* and uart_read_host_data on the other.  A command is the marker 'M' and  *)
(* Chunks times Chunk bytes; the fob writes a '*' when it has read a byte  *)
(* whose index is a multiple of Chunk, and dev_send reads one byte, of     *)
(* whatever kind, after each chunk.  The answer of the fob's handler goes  *)
(* the same way: "abcd", and the handler's text before it is done.  The    *)
(* bytes the fob writes when it starts and when it has been paired go that *)
(* way as well, and dev_send takes them for acknowledgements.              *)
(* The fob's receive FIFO drops what arrives when it is full.              *)
(*                                                                         *)
(* The code has Chunk = 8, Chunks = 16, FifoCap = 16.                      *)
(***************************************************************************)
EXTENDS Integers, Sequences

CONSTANTS
    Chunk, Chunks, FifoCap,
    Looks,         \* the indices of a command's bytes that have the value 'M'
    Texts,         \* the lengths of the handlers' texts
    Unasked,       \* the lengths of what the fob writes unasked; the code has
                   \* 4000000 at every start and 12 when it is paired
    MaxCommands,   \* bounds: commands sent,
    MaxBreaches    \*   and breaches (see below)

PacketLen == Chunk * Chunks

ASSUME HostAssumption ==
    /\ Chunk \in Nat \ {0} /\ Chunks \in Nat \ {0} /\ FifoCap \in Nat
    /\ Looks \subseteq 0 .. PacketLen - 1 /\ Texts \subseteq Nat /\ Texts # {}
    /\ Unasked \subseteq Nat
    /\ MaxCommands \in Nat /\ MaxBreaches \in Nat

(* The receive FIFO has room for the rest of a chunk, of which one byte is *)
(* read, and the next one; and for the marker and the first chunk.         *)
ASSUME HostFifoAssumption == FifoCap >= 2 * Chunk - 1 /\ FifoCap > Chunk

VARIABLES
    hPc,      \* host: "idle", "recv" in dev_send, "answer" behind it
    sent,     \* chunks of the command sent
    n,        \* commands begun
    line,     \* bytes on their way to the fob
    fifo,     \* the fob's receive FIFO
    back,     \* bytes written by the fob and not read by the host
    fPc,      \* fob: "loop", "read", "handle", "store", "pair"
    packet,   \* what uart_read_host_data has read of the command
    taken,    \* history: the packets handled
    dropped,  \* history: bytes dropped by the FIFO
    breaches  \* history: commands a host gave up, sent without dev_send, or
              \*   whose answer it did not wait for or read to the end, and
              \*   bytes the fob wrote unasked

vars == <<hPc, sent, n, line, fifo, back, fPc, packet, taken, dropped, breaches>>
host == <<hPc, sent, n, breaches>>
fob == <<fPc, packet, taken>>

(* A byte is known by its command and its index in it, the marker by -1.   *)
Byte == [cmd: Nat, at: -1 .. PacketLen - 1]
Marker(c) == [cmd |-> c, at |-> -1]
Part(c, i, j) == [p \in 1 .. j - i + 1 |-> [cmd |-> c, at |-> i + p - 1]]
ChunkOf(c, m) == Part(c, Chunk * m, Chunk * m + Chunk - 1)
Command(c) == Part(c, 0, PacketLen - 1)

(* The fob has started.  Whether the host tool is connected to what main   *)
(* writes to HOST_UART first depends on the bridge.                        *)
Init ==
    /\ hPc = "idle" /\ sent = 0 /\ n = 0
    /\ \/ back = 0 /\ breaches = 0
       \/ back \in Unasked /\ breaches = 1
    /\ line = <<>> /\ fifo = <<>>
    /\ fPc = "loop" /\ packet = <<>> /\ taken = <<>>
    /\ dropped = 0

-----------------------------------------------------------------------------
(* dev_send: the marker and the first chunk.                               *)
Begin ==
    /\ hPc = "idle" /\ n < MaxCommands
    /\ hPc' = "recv" /\ sent' = 1 /\ n' = n + 1
    /\ line' = line \o <<Marker(n + 1)>> \o ChunkOf(n + 1, 0)
    /\ UNCHANGED <<fifo, back, fob, dropped, breaches>>

(* pair_tool: 128 bytes at once, then it reads 12 or times out.            *)
BeginUnmarked ==
    /\ hPc = "idle" /\ n < MaxCommands /\ breaches < MaxBreaches
    /\ hPc' = "answer" /\ sent' = Chunks /\ n' = n + 1
    /\ breaches' = breaches + 1
    /\ line' = line \o Command(n + 1)
    /\ UNCHANGED <<fifo, back, fob, dropped>>

(* recv(1) returns a byte; the next chunk is sent.                         *)
Recv ==
    /\ hPc = "recv" /\ back > 0
    /\ back' = back - 1
    /\ IF sent < Chunks THEN /\ line' = line \o ChunkOf(n, sent)
                             /\ sent' = sent + 1 /\ UNCHANGED hPc
                        ELSE hPc' = "answer" /\ UNCHANGED <<line, sent>>
    /\ UNCHANGED <<n, breaches, fifo, fob, dropped>>

(* A host that reads the whole answer, which is complete when the fob's    *)
(* handler has no more to say.                                             *)
Answer ==
    /\ hPc = "answer"
    /\ line = <<>> /\ fifo = <<>> /\ fPc \in {"store", "pair", "loop"}
    /\ hPc' = "idle" /\ back' = 0
    /\ UNCHANGED <<sent, n, breaches, line, fifo, fob, dropped>>

(* The host is stopped in dev_send, or its socket times out.  The bridge   *)
(* may keep what the fob wrote for the host that connects next.            *)
Quit ==
    /\ hPc = "recv" /\ breaches < MaxBreaches
    /\ hPc' = "idle" /\ breaches' = breaches + 1
    /\ back' \in {0, back}
    /\ UNCHANGED <<sent, n, line, fifo, fob, dropped>>

(* The tools of the repository do not: enable_tool sends its query without *)
(* having read the answer to the upload, reads 11 bytes of an answer of 15 *)
(* and waits for 11 when there are 4; pair_tool waits for 12.              *)
GoOn ==
    /\ hPc = "answer" /\ breaches < MaxBreaches
    /\ hPc' = "idle" /\ breaches' = breaches + 1
    /\ back' \in 0 .. back
    /\ UNCHANGED <<sent, n, line, fifo, fob, dropped>>

-----------------------------------------------------------------------------
(* The UART: a byte arrives, and is dropped when the FIFO is full.         *)
Arrive ==
    /\ line # <<>>
    /\ line' = Tail(line)
    /\ IF Len(fifo) < FifoCap
       THEN fifo' = Append(fifo, Head(line)) /\ UNCHANGED dropped
       ELSE dropped' = dropped + 1 /\ UNCHANGED fifo
    /\ UNCHANGED <<host, back, fob>>

IsM(b) == b.at = -1 \/ b.at \in Looks

(* Slip: i is static and not set back.                                     *)
TakeMarkerOnly ==
    /\ fPc = "loop" /\ fifo # <<>>
    /\ fifo' = Tail(fifo)
    /\ fPc' = IF IsM(Head(fifo)) THEN "read" ELSE "loop"
    /\ UNCHANGED <<host, line, back, packet, taken, dropped>>

(* main's UARTCharsAvail, and the first loop of uart_read_host_data: one   *)
(* byte is taken, and the call goes on behind an 'M' and returns otherwise. *)
TakeMarker ==
    /\ fPc = "loop" /\ fifo # <<>>
    /\ fifo' = Tail(fifo)
    /\ fPc' = IF IsM(Head(fifo)) THEN "read" ELSE "loop"
    /\ packet' = <<>>
    /\ UNCHANGED <<host, line, back, taken, dropped>>

AckedEach(i) == TRUE   \* slip: every byte is acknowledged
AckedNotFirst(i) == i > 0 /\ i % Chunk = 0   \* slip: the first byte is not
Acked(i) == i % Chunk = 0

(* A turn of its second loop; behind it, "abcd".                           *)
TakeByte ==
    /\ fPc = "read" /\ fifo # <<>>
    /\ fifo' = Tail(fifo)
    /\ packet' = Append(packet, Head(fifo))
    /\ LET ack == IF Acked(Len(packet)) THEN 1 ELSE 0
       IN  IF Len(packet) + 1 < PacketLen
           THEN back' = back + ack /\ UNCHANGED <<fPc, taken>>
           ELSE /\ back' = back + ack + 4 /\ fPc' = "handle"
                /\ taken' = Append(taken, packet')
    /\ UNCHANGED <<host, line, dropped>>

(* The handler works on the packet.  handle_query_features and the two     *)
(* uploads write a text, if any, and the EEPROM; send_pair_request calls   *)
(* uart_send_message on the other UART.                                    *)
Speak ==
    /\ fPc = "handle"
    /\ \/ fPc' = "store" /\ \E t \in Texts : back' = back + t
       \/ fPc' = "pair" /\ UNCHANGED back
    /\ UNCHANGED <<host, line, fifo, packet, taken, dropped>>

Return ==
    /\ fPc = "store"
    /\ fPc' = "loop"
    /\ UNCHANGED <<host, line, fifo, back, packet, taken, dropped>>

(* The paired fob has acknowledged the last chunk of the pair request.     *)
(* Nothing makes it: uart_send_message waits for ever.                     *)
PairSent ==
    /\ fPc = "pair"
    /\ fPc' = "loop"
    /\ UNCHANGED <<host, line, fifo, back, packet, taken, dropped>>

(* handle_pair_resp, called from main's loop, reports to the host.         *)
ReportPairing ==
    /\ fPc = "loop" /\ breaches < MaxBreaches
    /\ \E t \in Unasked : back' = back + t
    /\ breaches' = breaches + 1
    /\ UNCHANGED <<hPc, sent, n, line, fifo, fob, dropped>>

-----------------------------------------------------------------------------
Host == Begin \/ BeginUnmarked \/ Recv \/ Answer
Fob == TakeMarker \/ TakeByte \/ Speak \/ Return

Next == Host \/ Quit \/ GoOn \/ Arrive \/ Fob \/ PairSent \/ ReportPairing

Spec == Init /\ [][Next]_vars

(* The fob runs, the UART shifts, and a host that has begun a command goes *)
(* on with it unless it gives up.  Of the other fob nothing is assumed:    *)
(* PairSent may never happen.                                              *)
FairSpec == Spec /\ WF_vars(Recv \/ Answer) /\ WF_vars(Arrive) /\ WF_vars(Fob)

-----------------------------------------------------------------------------
(* The variables have their types, and uart_read_host_data stays within    *)
(* its packet.                                                             *)
TypeOK ==
    /\ hPc \in {"idle", "recv", "answer"} /\ sent \in 0 .. Chunks /\ n \in Nat
    /\ line \in Seq(Byte) /\ fifo \in Seq(Byte) /\ back \in Nat
    /\ fPc \in {"loop", "read", "handle", "store", "pair"}
    /\ packet \in Seq(Byte) /\ Len(packet) <= PacketLen
    /\ fPc = "read" => Len(packet) < PacketLen
    /\ taken \in Seq(Seq(Byte))
    /\ dropped \in Nat /\ breaches \in Nat

(* With hosts that see dev_send through and read the answers, and no byte  *)
(* written unasked, the '*' after every eighth byte is enough flow control *)
(* for the FIFO, although the fob may be slow to read and may still be     *)
(* writing its EEPROM, or waiting for the other fob, when the next command *)
(* comes.                                                                  *)
NoOverrun == breaches = 0 => dropped = 0

(* Then the commands the fob handles are those sent, byte for byte and in  *)
(* order, whatever bytes they contain.                                     *)
TakenAsSent == breaches = 0 => \A i \in DOMAIN taken : i <= n /\ taken[i] = Command(i)

(* No command is handled twice, and none in the place of a later one,      *)
(* however hosts quit and packets are filled up with the bytes of the next *)
(* command.                                                                *)
HandledOnce ==
    \A i, j \in DOMAIN taken : i < j => taken[i][1].cmd < taken[j][1].cmd

(* A command that is begun is handled, and the fob comes back to its       *)
(* button and its car, while there are no breaches -- if every pair        *)
(* request the fob sends gets its acknowledgements.  Without that the fob  *)
(* stays in send_pair_request, and takes no command and no message.        *)
PairRequestsGetOut == []<>(fPc # "pair")
CommandsEnd ==
    PairRequestsGetOut =>
      (hPc = "recv" ~> (breaches > 0 \/ (hPc = "idle" /\ Len(taken) = n)))
FobReturns == PairRequestsGetOut => (fPc # "loop" ~> (breaches > 0 \/ fPc = "loop"))
=============================================================================
