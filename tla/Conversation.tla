---------------------------- MODULE Conversation ----------------------------
(***************************************************************************)
(* The unlock conversation between a car and its paired fob               *)
(* (car/src/authentication.c, fob/src/authentication.c and the main loops  *)
(* of both firmware.c), over the device UART at the grain of whole         *)
(* messages:                                                               *)
(*                                                                         *)
(*     fob --HELLO--> car --CHALL--> fob --SOLVE--> car --END--> fob       *)
(*                                                                         *)
(* Each device is one thread.  mode[d] says where that thread is:          *)
(*   "off"    no power;      "spin"  in the endless loop of rand_init      *)
(*   "loop"   polling in main's while(true)                                *)
(*   "read"   in uart_read_message, taking the bytes of the peer's message *)
(*   "torn"   in uart_read_message, and the rest of that message is lost   *)
(*   "parse"  the message is read; verify_message and a handler come next  *)
(*   "send"   in uart_send_message; the peer can still read the message    *)
(*   "cut"    in uart_send_message, and the peer has lost some of its bytes *)
(*   "host"   the fob, in handle_end's uart_send_message(HOST_UART)        *)
(* msg[d] is current_msg, the one buffer a device both sends and receives  *)
(* with; conv[d] holds its conversation variables.                         *)
(***************************************************************************)
EXTENDS Naturals, Sequences

CONSTANTS
    Features,         \* the optional features, bits of feature_flags
    SpinsInRandInit,  \* TRUE: the fob as committed, which never leaves rand_init
    MaxPress,         \* bounds: button presses,
    MaxUpload,        \*   host commands that write the fob's feature block,
    MaxPowerOff,      \*   power cuts,
    MaxNoise          \*   messages hit by line noise

ASSUME ConstantsAssumption ==
    /\ SpinsInRandInit \in BOOLEAN
    /\ MaxPress \in Nat /\ MaxUpload \in Nat
    /\ MaxPowerOff \in Nat /\ MaxNoise \in Nat

VARIABLES
    mode,     \* where each device's thread is
    msg,      \* current_msg of each device
    conv,     \* next_packet_type, nonces and challenges of each device
    block,    \* the CommandUnlock block in the fob's EEPROM
    fresh,    \* every random value drawn so far is below it
    budget,   \* what is left of the four bounds
    pressed,  \* history: the c_nonce of every press served
    solved,   \* history: the nonce pairs the fob answered with a SOLVE
    unlocks,  \* history: what the car announced to its host, in order
    tries     \* history: undisturbed presses since the last unlock

vars == <<mode, msg, conv, block, fresh, budget, pressed, solved, unlocks, tries>>
history == <<pressed, solved, unlocks>>

Devices == {"car", "fob"}
Peer(d) == IF d = "car" THEN "fob" ELSE "car"

Modes == {"off", "spin", "loop", "read", "torn", "parse", "send", "cut", "host"}
Limited == {"press", "upload", "power", "noise"}
Magics == {"HELLO", "CHALL", "SOLVE", "END"}

(***************************************************************************)
(* Messages.  A random value is a number never drawn before (0 is the      *)
(* zeroed buffer); a digest is the tuple of what was hashed.  A feature    *)
(* block holds flags, the features whose 32 data bytes are the factory's   *)
(* for this car (the others are erased or torn), and the set of features   *)
(* that signature_multi was made for ({} when it is erased or damaged).    *)
(* "P" is the magic of pairing; "other" is any other payload size.         *)
(***************************************************************************)
Digest == Nat \X Nat \X Nat \X Nat
Command == [flags: SUBSET Features, data: SUBSET Features, sig: SUBSET Features]
NoCommand == [flags |-> {}, data |-> {}, sig |-> {}]

Message == [target: Devices \cup {"none", "junk"},
            magic: Magics \cup {"P", "none", "junk"},
            cn: Nat, sn: Nat,
            size: {"zero", "exact", "other"},
            chal: Nat, resp: Digest, cmd: Command,
            mac: {"none", "good", "bad", "pointer"}]
Zeroed == [target |-> "none", magic |-> "none", cn |-> 0, sn |-> 0, size |-> "zero",
           chal |-> 0, resp |-> <<0, 0, 0, 0>>, cmd |-> NoCommand, mac |-> "none"]

Conv == [next: Magics \cup {"none"}, cn: Nat, sn: Nat, chal: Nat, chalResp: Nat]
NoConv == [next |-> "none", cn |-> 0, sn |-> 0, chal |-> 0, chalResp |-> 0]

(* reset_state with the two nonces it draws. *)
ResetConv(f) == [next |-> "HELLO", cn |-> f, sn |-> f + 1, chal |-> 0, chalResp |-> 0]

(* init_message, the magic and the target, for a sender d with variables c. *)
NewMessage(d, magic, c) ==
    [Zeroed EXCEPT !.target = Peer(d), !.magic = magic, !.cn = c.cn, !.sn = c.sn]

(* message_sign_payload: the size is set and the HMAC computed. *)
Signed(m) == [m EXCEPT !.size = "exact", !.mac = "good"]

(* The last test of verify_message compares the message's HMAC with one    *)
(* taken over the bytes of its own pointer variable, and rejects the       *)
(* message when they are EQUAL ("pointer"); no sender computes that one.   *)
MacAccepted(m) == m.mac # "pointer"

(* Slip: verify_message without the comparison of s_nonce.                 *)
VerifyOneNonce(d, m) ==
    /\ m.target = d
    /\ m.magic # "HELLO" => m.cn = conv[d].cn
    /\ m.size # "zero"
    /\ conv[d].next = m.magic
    /\ MacAccepted(m)

VerifyMessage(d, m) ==
    /\ m.target = d
    /\ m.magic # "HELLO" => m.cn = conv[d].cn
    /\ m.magic \notin {"HELLO", "CHALL"} => m.sn = conv[d].sn
    /\ m.size # "zero"
    /\ conv[d].next = m.magic
    /\ MacAccepted(m)

(* What gen_solution and handle_solution hash; car_secret is the same on   *)
(* both sides.                                                             *)
Solution(c) == <<c.chal, c.chalResp, c.cn, c.sn>>

(* Slip: the signature covers the flags only, and car_id is not looked at. *)
FlagsSignedOnly(cmd) == cmd.flags = {} \/ cmd.sig = cmd.flags

(* Slip: the signature is not verified, car_id in the data is looked for   *)
(* in one feature only.                                                    *)
SomeFeatureValid(cmd) == cmd.flags = {} \/ cmd.flags \cap cmd.data # {}

(* The feature part of handle_solution: car_id in the data of every        *)
(* flagged feature, and the factory's signature over flags and all data.   *)
CommandValid(cmd) ==
    \/ cmd.flags = {}
    \/ /\ cmd.flags \subseteq cmd.data
       /\ cmd.sig = cmd.flags
       /\ cmd.data = cmd.flags

-----------------------------------------------------------------------------
Quiet == \A d \in Devices : mode[d] = "loop"
Dirty == MaxPress + 1   \* tries when something disturbed the devices since

Init ==
    /\ mode = [d \in Devices |-> "off"]
    /\ msg = [d \in Devices |-> Zeroed]
    /\ conv = [d \in Devices |-> NoConv]
    /\ block = NoCommand
    /\ fresh = 1
    /\ budget = [w \in Limited |-> CASE w = "press" -> MaxPress [] w = "upload" -> MaxUpload
                                     [] w = "power" -> MaxPowerOff [] w = "noise" -> MaxNoise]
    /\ pressed = {} /\ solved = {} /\ unlocks = <<>>
    /\ tries = Dirty

Spend(what) ==
    /\ budget[what] > 0
    /\ budget' = [budget EXCEPT ![what] = @ - 1]

(* The thread of d ends in main's loop, with variables c and nothing to    *)
(* send.                                                                   *)
BackToLoop(d, c) ==
    /\ mode' = [mode EXCEPT ![d] = "loop"]
    /\ msg' = [msg EXCEPT ![d] = Zeroed]
    /\ conv' = [conv EXCEPT ![d] = c]

(* send_next_message with a message ready: d is in uart_send_message, and  *)
(* cannot finish if nothing is there to read.                              *)
Transmit(d, m, c) ==
    /\ mode' = [mode EXCEPT ![d] = IF mode[Peer(d)] = "off" THEN "cut" ELSE "send"]
    /\ msg' = [msg EXCEPT ![d] = m]
    /\ conv' = [conv EXCEPT ![d] = c]

-----------------------------------------------------------------------------
(* What the four gen_ functions put into current_msg, and the variables    *)
(* the devices then have.  gen_hello and gen_chall draw a new challenge,   *)
(* handle_hello a new s_nonce.                                             *)
GenHello(c) == Signed([NewMessage("fob", "HELLO", c) EXCEPT !.chal = c.chal])
GenChall(c) == Signed([NewMessage("car", "CHALL", c) EXCEPT !.chal = c.chal])
GenSolution(c) == Signed([NewMessage("fob", "SOLVE", c) EXCEPT !.resp = Solution(c), !.cmd = block])
SignedEnd(c) == Signed(NewMessage("car", "END", c))   \* slip: END is signed too
GenEnd(c) == NewMessage("car", "END", c)   \* never given to message_sign_payload

Asking(f) == [ResetConv(f) EXCEPT !.next = "CHALL", !.chal = f + 2]
ChallengingSameNonce(c, m, f) ==   \* slip: s_nonce is not redrawn
    [c EXCEPT !.next = "SOLVE", !.cn = m.cn, !.chal = f + 1]
ChallengingWrongType(c, m, f) ==   \* slip: next_packet_type is given the target
    [c EXCEPT !.next = m.target, !.cn = m.cn, !.sn = f, !.chal = f + 1]
Challenging(c, m, f) == [c EXCEPT !.next = "SOLVE", !.cn = m.cn, !.sn = f, !.chal = f + 1]
Solving(c, m) == [c EXCEPT !.next = "END", !.sn = m.sn, !.chalResp = m.chal]
Opening(c) == [c EXCEPT !.next = "HELLO"]

(* Slip: start_unlock_sequence without reset_state.                        *)
PressKeepsNonce ==
    LET c == [conv["fob"] EXCEPT !.next = "CHALL", !.chal = fresh + 2]
    IN  /\ mode["fob"] = "loop"
        /\ Spend("press")
        /\ Transmit("fob", GenHello(c), c)
        /\ pressed' = pressed \cup {c.cn}
        /\ fresh' = fresh + 3
        /\ UNCHANGED <<block, solved, unlocks, tries>>

(* The fob's button: start_unlock_sequence, that is reset_state, gen_hello *)
(* and send_next_message.                                                  *)
Press ==
    /\ mode["fob"] = "loop"
    /\ Spend("press")
    /\ Transmit("fob", GenHello(Asking(fresh)), Asking(fresh))
    /\ pressed' = pressed \cup {fresh}
    /\ fresh' = fresh + 3
    /\ tries' = IF Quiet /\ CommandValid(block)
                THEN IF tries = Dirty THEN 1 ELSE tries + 1
                ELSE Dirty
    /\ UNCHANGED <<block, solved, unlocks>>

(* main's UARTCharsAvail, and uart_read_message up to the header.          *)
StartRead(d) ==
    /\ mode[d] = "loop" /\ mode[Peer(d)] = "send"
    /\ mode' = [mode EXCEPT ![d] = "read"]
    /\ msg' = [msg EXCEPT ![d] = msg[Peer(d)]]
    /\ UNCHANGED <<conv, block, fresh, budget, history, tries>>

(* The last byte of d's message: d returns from uart_send_message, its     *)
(* peer from uart_read_message.                                            *)
FinishSend(d) ==
    /\ mode[d] = "send" /\ mode[Peer(d)] = "read"
    /\ mode' = [mode EXCEPT ![d] = "loop", ![Peer(d)] = "parse"]
    /\ msg' = [msg EXCEPT ![d] = Zeroed]
    /\ UNCHANGED <<conv, block, fresh, budget, history, tries>>

-----------------------------------------------------------------------------
(* parse_inc_message after uart_read_message.                              *)

(* The cases of its switch; reset_state leaves the fob, too, waiting for a *)
(* HELLO, for which it has none.                                           *)
Cases(d) == IF d = "car" THEN {"HELLO", "SOLVE"} ELSE {"CHALL", "END"}
Accepts(d, m) == VerifyMessage(d, m) /\ m.magic \in Cases(d)

(* The fob looks for a pair request before it verifies anything.           *)
IsPairRequest(d, m) == d = "fob" /\ m.magic = "P" /\ m.target = "fob"

(* Slip: the buffer is zeroed and reset_state forgotten.                   *)
RejectKeepsState(d) ==
    /\ mode[d] = "parse" /\ ~IsPairRequest(d, msg[d]) /\ ~Accepts(d, msg[d])
    /\ BackToLoop(d, conv[d])
    /\ UNCHANGED <<block, fresh, budget, history, tries>>

(* Verification fails, or the switch comes to its default: reset_state is  *)
(* called.                                                                 *)
Reject(d) ==
    /\ mode[d] = "parse" /\ ~IsPairRequest(d, msg[d]) /\ ~Accepts(d, msg[d])
    /\ BackToLoop(d, ResetConv(fresh))
    /\ fresh' = fresh + 2
    /\ UNCHANGED <<block, budget, history, tries>>

(* What handle_pair_request answers when the PIN is not there: secrets of  *)
(* zeroes, for a fob that is not on this line.  The nonces in it are what  *)
(* the stack held; no reader of it gets past the target.                   *)
PairAnswer == [Zeroed EXCEPT !.target = "junk", !.magic = "P", !.size = "other"]

(* The fob takes a message that noise gave the magic "P" for a pair        *)
(* request.  Both calls of reset_state come after the answer is sent;      *)
(* until then nobody looks at what they change.                            *)
FobPair ==
    /\ mode["fob"] = "parse" /\ IsPairRequest("fob", msg["fob"])
    /\ Transmit("fob", PairAnswer, ResetConv(fresh + 2))
    /\ fresh' = fresh + 4
    /\ UNCHANGED <<block, budget, history, tries>>

(* The car accepts a HELLO: handle_hello, gen_chall.                       *)
CarHello ==
    LET m == msg["car"]
        c == Challenging(conv["car"], m, fresh)
    IN  /\ mode["car"] = "parse" /\ VerifyMessage("car", m) /\ m.magic = "HELLO"
        /\ m.size = "exact"
        /\ Transmit("car", GenChall(c), c)
        /\ fresh' = fresh + 2
        /\ UNCHANGED <<block, budget, history, tries>>

(* The fob accepts a CHALL: handle_chall, gen_solution.                    *)
FobChall ==
    LET m == msg["fob"]
        c == Solving(conv["fob"], m)
    IN  /\ mode["fob"] = "parse" /\ VerifyMessage("fob", m) /\ m.magic = "CHALL"
        /\ m.size = "exact"
        /\ Transmit("fob", GenSolution(c), c)
        /\ solved' = solved \cup {<<c.cn, c.sn>>}
        /\ UNCHANGED <<block, fresh, budget, pressed, unlocks, tries>>

(* handle_solution returns true.  The response is rejected when it EQUALS  *)
(* the car's own digest, whose challenge_resp is always zero.              *)
SolutionAccepted(c, m) ==
    /\ m.size = "exact"
    /\ m.resp # Solution(c)
    /\ CommandValid(m.cmd)

(* The car accepts a SOLVE: handle_solution, then gen_end, which announces *)
(* the unlock and verified_features to the host before END is sent.        *)
CarSolve ==
    LET m == msg["car"]
        c == Opening(conv["car"])
    IN  /\ mode["car"] = "parse" /\ VerifyMessage("car", m) /\ m.magic = "SOLVE"
        /\ SolutionAccepted(conv["car"], m)
        /\ Transmit("car", GenEnd(c), c)
        /\ unlocks' = Append(unlocks, [cn |-> c.cn, sn |-> c.sn, feats |-> m.cmd.flags])
        /\ tries' = 0
        /\ UNCHANGED <<block, fresh, budget, pressed, solved>>

(* A handler that returns false: parse_inc_message returns true all the    *)
(* same, changes nothing and, is_msg_ready being false, nothing is sent.   *)
HandlerRefuses(d) ==
    LET m == msg[d]
    IN  /\ mode[d] = "parse" /\ Accepts(d, m)
        /\ \/ (m.magic \in {"HELLO", "CHALL"}) /\ (m.size # "exact")
           \/ (m.magic = "SOLVE") /\ ~SolutionAccepted(conv[d], m)
        /\ BackToLoop(d, conv[d])
        /\ UNCHANGED <<block, fresh, budget, history, tries>>

(* The fob accepts an END: handle_end starts to forward it to the host.    *)
FobEnd ==
    /\ mode["fob"] = "parse" /\ VerifyMessage("fob", msg["fob"]) /\ msg["fob"].magic = "END"
    /\ mode' = [mode EXCEPT !["fob"] = "host"]
    /\ UNCHANGED <<msg, conv, block, fresh, budget, history, tries>>

(* The host happens to send the 59 bytes that uart_send_message takes for  *)
(* acknowledgements; reset_state runs in handle_end and once more in       *)
(* parse_inc_message.                                                      *)
HostAcks ==
    /\ mode["fob"] = "host"
    /\ BackToLoop("fob", ResetConv(fresh + 2))
    /\ fresh' = fresh + 4
    /\ UNCHANGED <<block, budget, history, tries>>

Parse(d) ==
    \/ Reject(d)
    \/ HandlerRefuses(d)
    \/ (d = "car") /\ (CarHello \/ CarSolve)
    \/ (d = "fob") /\ (FobPair \/ FobChall \/ FobEnd)

-----------------------------------------------------------------------------
(* The link when both ends talk, or when part of a message is missing.     *)

(* Both devices are in uart_send_message: each takes the other's bytes for *)
(* the acknowledgements it waits for, and both messages are lost.  Two     *)
(* whole messages run side by side and both calls return.  A call that was *)
(* already blocked needs fewer acknowledgements and returns first; the     *)
(* other may then be left without bytes.                                   *)
Collide ==
    /\ \E d \in Devices :
         /\ mode[d] = "send"
         /\ \/ /\ mode[Peer(d)] = "send"
               /\ mode' = [e \in Devices |-> "loop"]
               /\ msg' = [e \in Devices |-> Zeroed]
            \/ /\ mode[Peer(d)] = "cut"
               /\ \E after \in {"loop", "cut"} :
                    /\ mode' = [mode EXCEPT ![Peer(d)] = "loop", ![d] = after]
                    /\ msg' = [msg EXCEPT ![Peer(d)] = Zeroed,
                                          ![d] = IF after = "loop" THEN Zeroed ELSE @]
    /\ UNCHANGED <<conv, block, fresh, budget, history, tries>>

(* Random bytes in the place of a feature block pass for some flags, and   *)
(* for no data and no signature of the factory.                            *)
JunkCommands == [flags: SUBSET Features, data: {{}}, sig: {{}}]

(* Message m read up to some byte, and completed with bytes that belong    *)
(* elsewhere: the fields before that byte are m's.                         *)
Completions(m, f) ==
    {[m EXCEPT !.mac = "bad"],
     [m EXCEPT !.mac = "bad", !.cmd.sig = {}],
     [m EXCEPT !.mac = "bad", !.size = "other"],
     [m EXCEPT !.mac = "bad", !.size = "other", !.sn = f],
     [m EXCEPT !.mac = "bad", !.size = "other", !.sn = f, !.cn = f],
     [m EXCEPT !.mac = "bad", !.size = "other", !.sn = f, !.cn = f, !.magic = "junk"],
     [m EXCEPT !.mac = "bad", !.size = "other", !.sn = f, !.cn = f, !.magic = "junk",
               !.target = "junk"]}
    \cup {[m EXCEPT !.mac = "bad", !.chal = f, !.resp = <<f, f, f, f>>, !.cmd = k] :
              k \in JunkCommands}

(* The reader d was left in the body of an older message and takes the     *)
(* bytes of its peer's new one for the rest of it.  Unless the old message *)
(* had only its header read, d acknowledges too few bytes for its peer to  *)
(* finish.                                                                 *)
FillTorn(d) ==
    /\ mode[d] = "torn" /\ mode[Peer(d)] = "send"
    /\ \E m \in Completions(msg[d], fresh), after \in {"loop", "cut"} :
         /\ mode' = [mode EXCEPT ![d] = "parse", ![Peer(d)] = after]
         /\ msg' = [msg EXCEPT ![d] = m,
                               ![Peer(d)] = IF after = "loop" THEN Zeroed ELSE @]
    /\ fresh' = fresh + 1
    /\ UNCHANGED <<conv, block, budget, history, tries>>

(* The same, but none of the first five bytes falls where d acknowledges:  *)
(* both block.                                                             *)
StarveTorn(d) ==
    /\ mode[d] = "torn" /\ mode[Peer(d)] = "send"
    /\ mode' = [mode EXCEPT ![Peer(d)] = "cut"]
    /\ UNCHANGED <<msg, conv, block, fresh, budget, history, tries>>

-----------------------------------------------------------------------------
(* Power.  What d was sending is cut short for a reader, and what its peer *)
(* was sending to it loses bytes.                                          *)
LosePower(d) ==
    /\ Spend("power")
    /\ mode' = [mode EXCEPT ![d] = "off",
                            ![Peer(d)] = CASE @ = "send" -> "cut"
                                           [] @ = "read" -> "torn"
                                           [] OTHER -> @]
    /\ msg' = [msg EXCEPT ![d] = Zeroed]
    /\ conv' = [conv EXCEPT ![d] = NoConv]
    /\ tries' = Dirty

PowerOff(d) ==
    /\ mode[d] # "off"
    /\ LosePower(d)
    /\ UNCHANGED <<block, fresh, history>>

(* Reset to main's loop: uart_init, rand_init, secrets_init and, on the    *)
(* car, reset_state.  The fob does not call reset_state and starts with    *)
(* zeroed variables; as committed it never returns from rand_init.         *)
PowerOn(d) ==
    /\ mode[d] = "off"
    /\ mode' = [mode EXCEPT ![d] = IF d = "fob" /\ SpinsInRandInit THEN "spin" ELSE "loop"]
    /\ conv' = [conv EXCEPT ![d] = IF d = "car" THEN ResetConv(fresh) ELSE NoConv]
    /\ fresh' = fresh + 2
    /\ UNCHANGED <<msg, block, budget, history, tries>>

(* A message with another magic.  HELLO and CHALL have payloads of one     *)
(* size, so that a handler finds the size it expects if it was right       *)
(* before; payload_size zero stays zero.                                   *)
WithMagic(m, x) ==
    [m EXCEPT !.magic = x, !.mac = "bad",
              !.size = IF @ = "exact" /\ ~({m.magic, x} \subseteq {"HELLO", "CHALL"})
                       THEN "other" ELSE @]

(* Noise changes one field of a message nobody has begun to read.          *)
Garblings(m, f) ==
    {[m EXCEPT !.mac = "bad"],
     [m EXCEPT !.mac = "bad", !.cn = f],
     [m EXCEPT !.mac = "bad", !.sn = f],
     [m EXCEPT !.mac = "bad", !.chal = f],
     [m EXCEPT !.mac = "bad", !.resp = <<f, f, f, f>>],
     [m EXCEPT !.mac = "bad", !.cmd.sig = {}]}
    \cup {[m EXCEPT !.mac = "bad", !.size = z] : z \in {"zero", "exact", "other"} \ {m.size}}
    \cup {[m EXCEPT !.mac = "bad", !.cmd.flags = F] : F \in (SUBSET Features) \ {m.cmd.flags}}
    \cup {[m EXCEPT !.mac = "bad", !.target = t] : t \in (Devices \cup {"junk"}) \ {m.target}}
    \cup {WithMagic(m, x) : x \in (Magics \cup {"P", "junk"}) \ {m.magic}}

Garble(d) ==
    /\ mode[d] = "send" /\ mode[Peer(d)] = "loop"
    /\ Spend("noise")
    /\ \E m \in Garblings(msg[d], fresh) : msg' = [msg EXCEPT ![d] = m]
    /\ fresh' = fresh + 1
    /\ tries' = Dirty
    /\ UNCHANGED <<mode, conv, block, history>>

(* Noise swallows a byte of d's message: of its header, so that the reader *)
(* goes back to main's loop and d waits, or of its body, so that the       *)
(* reader is one byte short and d waits too, unless the byte was one of    *)
(* the last seven, which nobody acknowledges.                              *)
DropByte(d) ==
    /\ mode[d] = "send"
    /\ Spend("noise")
    /\ \/ /\ mode[Peer(d)] = "loop"
          /\ mode' = [mode EXCEPT ![d] = "cut"]
          /\ UNCHANGED msg
       \/ /\ mode[Peer(d)] = "read"
          /\ \E after \in {"loop", "cut"} :
               /\ mode' = [mode EXCEPT ![d] = after, ![Peer(d)] = "torn"]
               /\ msg' = [msg EXCEPT ![d] = IF after = "loop" THEN Zeroed ELSE @]
    /\ tries' = Dirty
    /\ UNCHANGED <<conv, block, fresh, history>>

-----------------------------------------------------------------------------
(* Host commands that change the feature block; the fob serves them from   *)
(* main's loop, between two messages of a conversation if need be.         *)

(* handle_upload_feature with the factory's package for feature x: the     *)
(* signature for the new set is a separate command.                        *)
UploadFeature(x) ==
    /\ mode["fob"] = "loop"
    /\ Spend("upload")
    /\ block' = [block EXCEPT !.flags = @ \cup {x}, !.data = @ \cup {x}]
    /\ tries' = Dirty
    /\ UNCHANGED <<mode, msg, conv, fresh, history>>

(* handle_upload_sig, which stores whatever signature it is given.         *)
UploadSig(S) ==
    /\ mode["fob"] = "loop"
    /\ Spend("upload")
    /\ block' = [block EXCEPT !.sig = S]
    /\ tries' = Dirty
    /\ UNCHANGED <<mode, msg, conv, fresh, history>>

(* The power fails in one of the two, before all of it is written: the     *)
(* flags come first, then the data; the signature is not a whole one.      *)
TearFeature(x) ==
    /\ mode["fob"] = "loop"
    /\ LosePower("fob")
    /\ block' = [block EXCEPT !.flags = @ \cup {x}]
    /\ UNCHANGED <<fresh, history>>

TearSignature ==
    /\ mode["fob"] = "loop"
    /\ LosePower("fob")
    /\ block' = [block EXCEPT !.sig = {}]
    /\ UNCHANGED <<fresh, history>>

-----------------------------------------------------------------------------
Next ==
    \/ Press
    \/ \E d \in Devices : StartRead(d) \/ FinishSend(d) \/ Parse(d)
    \/ Collide
    \/ HostAcks
    \/ \E d \in Devices : FillTorn(d) \/ StarveTorn(d)
    \/ \E d \in Devices : PowerOff(d) \/ PowerOn(d) \/ Garble(d) \/ DropByte(d)
    \/ \E x \in Features : UploadFeature(x) \/ TearFeature(x)
    \/ \E S \in SUBSET Features : UploadSig(S)
    \/ TearSignature

Spec == Init /\ [][Next]_vars

(* Both threads keep running and the UARTs keep shifting bytes; nothing is *)
(* assumed of the user, the host, the power supply or the noise.           *)
Fairness ==
    /\ WF_vars(StartRead("car")) /\ WF_vars(FinishSend("car")) /\ WF_vars(Parse("car"))
    /\ WF_vars(StartRead("fob")) /\ WF_vars(FinishSend("fob")) /\ WF_vars(Parse("fob"))
    /\ \A d \in Devices : WF_vars(FillTorn(d) \/ StarveTorn(d)) /\ WF_vars(PowerOn(d))
    /\ WF_vars(Collide)

FairSpec == Spec /\ Fairness
-----------------------------------------------------------------------------
(***************************************************************************)
(* Properties.                                                             *)
(***************************************************************************)

(* The variables have the types the declarations give them.                *)
TypeOK ==
    /\ mode \in [Devices -> Modes]
    /\ msg \in [Devices -> Message]
    /\ conv \in [Devices -> Conv]
    /\ block \in Command
    /\ fresh \in Nat
    /\ budget \in [Limited -> Nat]
    /\ pressed \subseteq Nat
    /\ solved \subseteq Nat \X Nat
    /\ unlocks \in Seq([cn: Nat, sn: Nat, feats: SUBSET Features])
    /\ tries \in Nat

(* One press opens the car at most once: every unlock carries the nonce of *)
(* a press of the button, and no two carry the same one, whatever is lost, *)
(* torn, repeated or garbled on the way.  The code relies on c_nonce and   *)
(* s_nonce being redrawn (start_unlock_sequence, handle_hello) and on      *)
(* gen_end going back to HELLO.                                            *)
OneUnlockPerPress ==
    /\ \A i \in DOMAIN unlocks : unlocks[i].cn \in pressed
    /\ \A i, j \in DOMAIN unlocks : unlocks[i].cn = unlocks[j].cn => i = j

(* The car opens only for a nonce pair the fob answered a challenge under: *)
(* what verify_message compares on the two sides makes them agree on both  *)
(* nonces, also when the fob has since been pressed again or lost power.   *)
UnlockAgreement ==
    \A i \in DOMAIN unlocks : <<unlocks[i].cn, unlocks[i].sn>> \in solved

(* A feature is announced only after its package was installed on the fob. *)
(* Flags reach the car in an unauthenticated message and may be damaged,   *)
(* so this rests on the signature check of handle_solution.                *)
AnnouncedAreInstalled ==
    \A i \in DOMAIN unlocks : unlocks[i].feats \subseteq block.data

(* The conversation implements the service its owner sees.                 *)
Opened == [i \in DOMAIN unlocks |-> [press |-> unlocks[i].cn, feats |-> unlocks[i].feats]]
Service == INSTANCE UnlockService WITH
               presses <- pressed, installed <- block.data, opened <- Opened
ImplementsService == Service!Spec

(* Two undisturbed presses always open the car: the first may only bring a *)
(* car that still waits for a lost SOLVE back to HELLO, the second then    *)
(* goes through.  (A press counts when it starts with both devices idle    *)
(* and a feature block the car would accept.)                              *)
TwoPressesUnlock == tries = 2 ~> tries \in {0, Dirty}

(* The two blocking calls never hang on each other: once both devices are  *)
(* up they are idle again and again, however presses collide with          *)
(* messages, until a power cut or noise disturbs them.                     *)
Disturbed == budget["power"] < MaxPowerOff \/ budget["noise"] < MaxNoise
AlwaysIdleAgain == Quiet ~> []<>(Quiet \/ Disturbed)

(* What the repository says of itself and the code does not do.            *)

(* handle_end: "this method just forwards packet data to the host UART     *)
(* interface" -- so after an unlock the fob comes to forward END.          *)
EndIsForwarded == unlocks # <<>> ~> mode["fob"] = "host"

(* verify_message returns true if "the hmac of the message is valid": a    *)
(* message whose HMAC does not match its contents is never accepted.       *)
HmacIsChecked ==
    \A d \in Devices :
        mode[d] = "parse" /\ VerifyMessage(d, msg[d]) => msg[d].mac = "good"
=============================================================================
