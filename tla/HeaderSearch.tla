---------------------------- MODULE HeaderSearch ----------------------------
(***************************************************************************)
(* The first loop of uart_read_message (fob/src/uart.c and car/src/uart.c): *)
(* the search for the magic header "0ops" in whatever bytes the UART has,  *)
(* garbage and pieces of messages included.  On a mismatch the matcher     *)
(* starts again from 0 and does not look at the same byte once more.       *)
(***************************************************************************)
EXTENDS Integers, Sequences

CONSTANTS
    Magic,     \* uart_magic; the code has the four bytes "0ops"
    Values,    \* the byte values that occur
    MaxBytes   \* bound: bytes taken in one call of uart_read_message

ASSUME HeaderAssumption ==
    /\ Magic \in Seq(Values) /\ Len(Magic) > 0
    /\ MaxBytes \in Nat

VARIABLES
    pc,    \* "main", "search" in the header loop, "found" behind it
    j,     \* the loop counter: bytes of the magic matched so far
    seen   \* history: the bytes this call has taken

vars == <<pc, j, seen>>

Init == pc = "main" /\ j = 0 /\ seen = <<>>

(* Slip: j is static and keeps what an earlier call had matched.           *)
CallKeepsJ ==
    /\ pc = "main"
    /\ pc' = "search" /\ seen' = <<>> /\ UNCHANGED j

(* Slip: j is static, and set back only where a header was found.          *)
CallAfterTimeout ==
    /\ pc = "main"
    /\ pc' = "search" /\ seen' = <<>>
    /\ j' = IF j = Len(Magic) THEN 0 ELSE j

(* parse_inc_message calls uart_read_message.                              *)
Call ==
    /\ pc = "main"
    /\ pc' = "search" /\ j' = 0 /\ seen' = <<>>

(* Slip: a mismatch leaves j where it is.                                  *)
TakeByteKeepsJ ==
    /\ pc = "search" /\ Len(seen) < MaxBytes
    /\ \E c \in Values :
         /\ seen' = Append(seen, c)
         /\ j' = IF Magic[j + 1] = c THEN j + 1 ELSE j
    /\ pc' = IF j' < Len(Magic) THEN "search" ELSE "found"

(* One turn of while(j < 4) with a byte in the FIFO.                       *)
TakeByte ==
    /\ pc = "search" /\ Len(seen) < MaxBytes
    /\ \E c \in Values :
         /\ seen' = Append(seen, c)
         /\ j' = IF Magic[j + 1] = c THEN j + 1 ELSE 0
    /\ pc' = IF j' < Len(Magic) THEN "search" ELSE "found"

(* No byte for TIMEOUT_THRESHOLD polls: the call returns false.            *)
Timeout ==
    /\ pc = "search"
    /\ pc' = "main" /\ UNCHANGED <<j, seen>>

(* The struct behind the header is read and the message handled.           *)
ReadStruct ==
    /\ pc = "found"
    /\ pc' = "main" /\ UNCHANGED <<j, seen>>

Next == Call \/ TakeByte \/ Timeout \/ ReadStruct

Spec == Init /\ [][Next]_vars

-----------------------------------------------------------------------------
(* The loop counter stays within the magic it indexes.                     *)
TypeOK ==
    /\ pc \in {"main", "search", "found"}
    /\ j \in 0 .. Len(Magic)
    /\ pc = "search" => j < Len(Magic)
    /\ pc = "found" => j = Len(Magic)
    /\ seen \in Seq(Values)

(* The last skip bytes aside, the bytes taken end with the first k of the  *)
(* magic.                                                                  *)
EndsWith(k, skip) ==
    /\ k + skip <= Len(seen)
    /\ \A n \in 1 .. k : seen[Len(seen) - skip - k + n] = Magic[n]

(* A message is only ever read behind a complete header, however the bytes *)
(* of it were mixed with garbage, timeouts and earlier calls before.       *)
FoundIsHeader == pc = "found" => EndsWith(Len(Magic), 0)

(* What the restart costs: a header is missed only when the bytes directly *)
(* before it are the beginning of a header themselves.                     *)
CleanHeaderFound ==
    pc = "search" /\ EndsWith(Len(Magic), 0)
        => \E k \in 1 .. Len(Magic) - 1 : EndsWith(k, Len(Magic))
=============================================================================
