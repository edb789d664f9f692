------------------------------ MODULE Pairing ------------------------------
(***************************************************************************)
(* Pairing a new fob through a paired one (send_pair_request,              *)
(* handle_pair_request, handle_pair_resp and the 'P' branch of             *)
(* parse_inc_message), two fobs with the same firmware wired together:     *)
(*                                                                         *)
(*     host --PIN--> ufob --request--> pfob --response--> ufob             *)
(*                                                                         *)
(* The response carries all of dev_secrets, or zeroes if the PIN is wrong. *)
(* What a fob does depends on the type dev_secrets gives it.  Threads,     *)
(* link and line noise are at the grain of Conversation; its modes "off",  *)
(* "loop", "read", "torn", "parse", "send" and "cut" mean the same here,   *)
(* and a fob is in                                                         *)
(*   "slow"   in the delays of handle_pair_request                         *)
(*   "store"  in the eeprom_write of handle_pair_resp                      *)
(***************************************************************************)
EXTENDS Integers

CONSTANTS
    SecretWords,  \* sizeof(Secrets) / 4; the code has 10
    MaxCommand,   \* bounds: host commands,
    MaxPress,     \*   presses of a button,
    MaxPowerOff,  \*   power cuts,
    MaxNoise      \*   messages hit by line noise

Fobs == {"ufob", "pfob"}
Peer(d) == IF d = "ufob" THEN "pfob" ELSE "ufob"

ASSUME PairingAssumption ==
    /\ SecretWords \in Nat /\ SecretWords >= 3
    /\ MaxCommand \in Nat /\ MaxPress \in Nat /\ MaxPowerOff \in Nat /\ MaxNoise \in Nat

VARIABLES
    mode,     \* where each fob's thread is
    msg,      \* the message each fob sends, reads or handles
    dev,      \* dev_secrets
    eeprom,   \* the secrets in the EEPROM
    flag,     \* each fob's byte at EEPROM_PIN_FLAGS: "erased", "busy", "done"
    k,        \* the word the unpaired fob's eeprom_write is at
    long,     \* the last handle_pair_request took the long delay
    budget,   \* what is left of the four bounds
    given,    \* history: a request has had the right PIN
    leaked,   \* history: the bytes around a response held words of the secrets
    told,     \* history: what the host was told last: "nothing", "success", "failure"
    lost,     \* history: power failed in the eeprom_write of the secrets
    ended,    \* history: power failed in a handle_pair_request
    damaged,  \* history: a message was cut off in the middle or hit by noise
    asked     \* history: the last command had the right PIN, and nothing
              \*   has disturbed the fobs since

vars == <<mode, msg, dev, eeprom, flag, k, long, budget,
          given, leaked, told, lost, ended, damaged, asked>>
history == <<given, leaked, told, lost, ended, damaged>>

Modes == {"off", "loop", "read", "torn", "parse", "slow", "send", "cut", "store"}
Limited == {"command", "press", "power", "noise"}

(***************************************************************************)
(* Secrets, word by word: "own" are those the unpaired fob was built with, *)
(* "pfob" those of the paired fob, "junk" bytes that belong elsewhere and  *)
(* "typed" such bytes that happen to hold TO_P_FOB where the type is.      *)
(***************************************************************************)
Places == 1 .. SecretWords
PinPlace == SecretWords - 1
Words == {"own", "pfob", "zero", "junk", "typed"}
Secrets == [Places -> Words]
All(w) == [p \in Places |-> w]

DevType(s) == CASE s[SecretWords] = "own" -> "u"
                [] s[SecretWords] \in {"pfob", "typed"} -> "p"
                [] OTHER -> "none"

(* Both pairing messages are uninitialised variables on the stack, of      *)
(* which the code sets a few fields and sends everything: `rest' says      *)
(* whether the bytes it never set hold words of the sender's secrets,      *)
(* which earlier calls have had on the same stack.                         *)
Magics == {"P", "H", "none", "junk"}
Targets == {"p", "u", "c", "none", "junk"}
Pins == {"right", "wrong", "none", "junk"}
Rests == {"clean", "secret"}
Message == [magic: Magics, target: Targets, pin: Pins, secrets: Secrets, rest: Rests]
Zeroed == [magic |-> "none", target |-> "none", pin |-> "none", secrets |-> All("zero"),
           rest |-> "clean"]

Hello == [Zeroed EXCEPT !.magic = "H", !.target = "c"]
(* Only an unpaired fob, which has no secrets of the other's, asks.        *)
Request(pin) == [Zeroed EXCEPT !.magic = "P", !.target = "p", !.pin = pin]
ResponseBack(s, r) ==   \* slip: target
    [Zeroed EXCEPT !.magic = "P", !.target = "p", !.secrets = s, !.rest = r]
Response(s, r) == [Zeroed EXCEPT !.magic = "P", !.target = "u", !.secrets = s, !.rest = r]

-----------------------------------------------------------------------------
Quiet == \A d \in Fobs : mode[d] = "loop"

Init ==
    /\ mode = [d \in Fobs |-> "off"]
    /\ msg = [d \in Fobs |-> Zeroed]
    /\ eeprom = [d \in Fobs |-> All(IF d = "ufob" THEN "own" ELSE "pfob")]
    /\ dev = [d \in Fobs |-> All("zero")]
    /\ flag = [d \in Fobs |-> "erased"] /\ k = 1 /\ long = FALSE
    /\ budget = [w \in Limited |-> CASE w = "command" -> MaxCommand [] w = "press" -> MaxPress
                                     [] w = "power" -> MaxPowerOff [] w = "noise" -> MaxNoise]
    /\ given = FALSE /\ leaked = FALSE /\ told = "nothing" /\ lost = FALSE /\ ended = FALSE
    /\ damaged = FALSE /\ asked = FALSE

Spend(what) ==
    /\ budget[what] > 0
    /\ budget' = [budget EXCEPT ![what] = @ - 1]

BackToLoop(d) ==
    /\ mode' = [mode EXCEPT ![d] = "loop"]
    /\ msg' = [msg EXCEPT ![d] = Zeroed]

Transmit(d, m) ==
    /\ mode' = [mode EXCEPT ![d] = IF mode[Peer(d)] = "off" THEN "cut" ELSE "send"]
    /\ msg' = [msg EXCEPT ![d] = m]

-----------------------------------------------------------------------------
(* handle_host_msg with PAIR_CMD, and send_pair_request.  A fob that is    *)
(* not unpaired ignores the command.                                       *)
Command(d, pin) ==
    /\ mode[d] = "loop" /\ Spend("command")
    /\ IF DevType(dev[d]) = "u"
       THEN Transmit(d, Request(pin))
       ELSE UNCHANGED <<mode, msg>>
    /\ given' = (given \/ pin = "right")
    /\ asked' = (pin = "right" /\ d = "ufob" /\ Quiet)
    /\ UNCHANGED <<dev, eeprom, flag, k, long, leaked, told, lost, ended, damaged>>

(* The button, which only a paired fob serves: a HELLO that no fob takes.  *)
Press(d) ==
    /\ mode[d] = "loop" /\ DevType(dev[d]) = "p" /\ Spend("press")
    /\ Transmit(d, Hello)
    /\ asked' = FALSE
    /\ UNCHANGED <<dev, eeprom, flag, k, long, history>>

StartRead(d) ==
    /\ mode[d] = "loop" /\ mode[Peer(d)] = "send"
    /\ mode' = [mode EXCEPT ![d] = "read"]
    /\ msg' = [msg EXCEPT ![d] = msg[Peer(d)]]
    /\ UNCHANGED <<dev, eeprom, flag, k, long, budget, history, asked>>

FinishSend(d) ==
    /\ mode[d] = "send" /\ mode[Peer(d)] = "read"
    /\ mode' = [mode EXCEPT ![d] = "loop", ![Peer(d)] = "parse"]
    /\ msg' = [msg EXCEPT ![d] = Zeroed]
    /\ UNCHANGED <<dev, eeprom, flag, k, long, budget, history, asked>>

-----------------------------------------------------------------------------
(* parse_inc_message: the 'P' branch looks at the magic and the target     *)
(* only, and comes before verify_message.                                  *)
ForPairing(d, type) ==
    /\ mode[d] = "parse"
    /\ msg[d].magic = "P" /\ msg[d].target = type /\ DevType(dev[d]) = type

(* verify_message refuses every other message here: a HELLO is for the car. *)
Reject(d) ==
    /\ mode[d] = "parse" /\ ~ForPairing(d, "p") /\ ~ForPairing(d, "u")
    /\ BackToLoop(d)
    /\ UNCHANGED <<dev, eeprom, flag, k, long, budget, history, asked>>

(* EEPROMRead and EEPROMProgram divide a length in bytes by four, so that  *)
(* one byte of `pairing' is not written, and is read as whatever the stack *)
(* held.                                                                   *)
WordsIn(bytes) == bytes \div 4
FlagRead(d) == IF WordsIn(1) > 0 THEN {flag[d]} ELSE {"erased", "busy", "done"}
StoreFlag(d, value) == flag' = [flag EXCEPT ![d] = IF WordsIn(1) > 0 THEN value ELSE @]

(* handle_pair_request up to its delays, of which there is a longer one    *)
(* unless the last request was seen to its end.                            *)
HandleRequest(d) ==
    /\ ForPairing(d, "p")
    /\ mode' = [mode EXCEPT ![d] = "slow"]
    /\ \E pairing \in FlagRead(d) : long' = (pairing # "done")
    /\ StoreFlag(d, "busy")
    /\ UNCHANGED <<msg, dev, eeprom, k, budget, history, asked>>

(* Slip: the PIN is not looked at.                                         *)
AnyPin(d, pin) == TRUE
PinMatches(d, pin) == pin = "right" /\ dev[d][PinPlace] = "pfob"

(* handle_pair_request behind its delays.                                  *)
Respond(d) ==
    /\ mode[d] = "slow"
    /\ StoreFlag(d, "done")
    /\ \E rest \in Rests :
         /\ Transmit(d, Response(IF PinMatches(d, msg[d].pin) THEN dev[d] ELSE All("zero"), rest))
         /\ leaked' = (leaked \/ rest = "secret")
    /\ UNCHANGED <<dev, eeprom, k, long, budget, given, told, lost, ended, damaged, asked>>

(* handle_pair_resp with secrets that are no paired fob's.                 *)
RefuseResponse(d) ==
    /\ ForPairing(d, "u") /\ DevType(msg[d].secrets) # "p"
    /\ BackToLoop(d)
    /\ told' = "failure"
    /\ UNCHANGED <<dev, eeprom, flag, k, long, budget, given, leaked, lost, ended, damaged, asked>>

(* Slip: the type in the response is not looked at.                        *)
TakeAnyResponse(d) ==
    /\ ForPairing(d, "u")
    /\ mode' = [mode EXCEPT ![d] = "store"] /\ msg' = [msg EXCEPT ![d] = Zeroed]
    /\ k' = 1 /\ dev' = [dev EXCEPT ![d] = msg[d].secrets]
    /\ told' = "success"
    /\ UNCHANGED <<eeprom, flag, long, budget, given, leaked, lost, ended, damaged, asked>>

(* handle_pair_resp: the host is told before the secrets are stored.       *)
TakeResponse(d) ==
    /\ ForPairing(d, "u") /\ DevType(msg[d].secrets) = "p"
    /\ mode' = [mode EXCEPT ![d] = "store"] /\ msg' = [msg EXCEPT ![d] = Zeroed]
    /\ k' = 1 /\ dev' = [dev EXCEPT ![d] = msg[d].secrets]
    /\ told' = "success"
    /\ UNCHANGED <<eeprom, flag, long, budget, given, leaked, lost, ended, damaged, asked>>

(* Slip: the words are written from the last to the first.                 *)
StoreWordBackwards(d) ==
    /\ mode[d] = "store"
    /\ LET p == SecretWords + 1 - k IN eeprom' = [eeprom EXCEPT ![d][p] = dev[d][p]]
    /\ IF k < SecretWords THEN k' = k + 1 /\ UNCHANGED mode
                          ELSE mode' = [mode EXCEPT ![d] = "loop"] /\ UNCHANGED k
    /\ UNCHANGED <<msg, dev, flag, long, budget, history, asked>>

(* Slip: the loop over the words ends one late.                            *)
StoreWordLong(d) ==
    /\ mode[d] = "store"
    /\ eeprom' = [eeprom EXCEPT ![d][k] = dev[d][k]]
    /\ IF k <= SecretWords THEN k' = k + 1 /\ UNCHANGED mode
                           ELSE mode' = [mode EXCEPT ![d] = "loop"] /\ UNCHANGED k
    /\ UNCHANGED <<msg, dev, flag, long, budget, history, asked>>

(* The eeprom_write of handle_pair_resp, a word at a time; parse_inc_message *)
(* then goes back to the loop.                                             *)
StoreWord(d) ==
    /\ mode[d] = "store"
    /\ eeprom' = [eeprom EXCEPT ![d][k] = dev[d][k]]
    /\ IF k < SecretWords THEN k' = k + 1 /\ UNCHANGED mode
                          ELSE mode' = [mode EXCEPT ![d] = "loop"] /\ UNCHANGED k
    /\ UNCHANGED <<msg, dev, flag, long, budget, history, asked>>

Parse(d) == Reject(d) \/ HandleRequest(d) \/ RefuseResponse(d) \/ TakeResponse(d)

-----------------------------------------------------------------------------
(* Both fobs in uart_send_message, as in Conversation.                     *)
Collide ==
    /\ \E d \in Fobs :
         /\ mode[d] = "send"
         /\ \/ /\ mode[Peer(d)] = "send"
               /\ mode' = [e \in Fobs |-> "loop"]
               /\ msg' = [e \in Fobs |-> Zeroed]
            \/ /\ mode[Peer(d)] = "cut"
               /\ \E after \in {"loop", "cut"} :
                    /\ mode' = [mode EXCEPT ![Peer(d)] = "loop", ![d] = after]
                    /\ msg' = [msg EXCEPT ![Peer(d)] = Zeroed,
                                          ![d] = IF after = "loop" THEN Zeroed ELSE @]
    /\ UNCHANGED <<dev, eeprom, flag, k, long, budget, history, asked>>

(* The first t words of s, and behind them bytes of another message, where *)
(* words among its rest may come to lie in their own places.               *)
Filling(rest) == IF rest = "secret" THEN {"junk", "pfob"} ELSE {"junk"}
Mixed(s, t, rest) ==
    {[p \in Places |-> CASE p <= t -> s[p]
                         [] p > t /\ p < SecretWords -> fill
                         [] OTHER -> last] : fill \in Filling(rest), last \in Filling(rest) \cup {"typed"}}

(* m read up to some byte, and completed with the bytes of a new message:  *)
(* its header comes where the rest of m should.  Such a PIN may happen to  *)
(* be right.                                                               *)
MixedSecrets(s, rest) == UNION {Mixed(s, t, rest) : t \in 0 .. PinPlace}
Completions(m, rest) ==
    {m, [Zeroed EXCEPT !.magic = "junk", !.target = m.target],
        [Zeroed EXCEPT !.magic = "junk", !.target = "junk"]}
    \cup {[m EXCEPT !.pin = "junk", !.secrets = s] : s \in MixedSecrets(m.secrets, rest)}
    \cup {[m EXCEPT !.pin = "right", !.secrets = s] : s \in MixedSecrets(m.secrets, rest)}

FillTorn(d) ==
    /\ mode[d] = "torn" /\ mode[Peer(d)] = "send"
    /\ \E m \in Completions(msg[d], msg[Peer(d)].rest), after \in {"loop", "cut"} :
         /\ mode' = [mode EXCEPT ![d] = "parse", ![Peer(d)] = after]
         /\ msg' = [msg EXCEPT ![d] = m, ![Peer(d)] = IF after = "loop" THEN Zeroed ELSE @]
         /\ given' = (given \/ m.pin = "right")
    /\ UNCHANGED <<dev, eeprom, flag, k, long, budget, leaked, told, lost, ended, damaged, asked>>

StarveTorn(d) ==
    /\ mode[d] = "torn" /\ mode[Peer(d)] = "send"
    /\ mode' = [mode EXCEPT ![Peer(d)] = "cut"]
    /\ UNCHANGED <<msg, dev, eeprom, flag, k, long, budget, history, asked>>

PowerOff(d) ==
    /\ mode[d] # "off"
    /\ Spend("power")
    /\ mode' = [mode EXCEPT ![d] = "off",
                            ![Peer(d)] = CASE @ = "send" -> "cut"
                                           [] @ = "read" -> "torn"
                                           [] OTHER -> @]
    /\ msg' = [msg EXCEPT ![d] = Zeroed]
    /\ lost' = (lost \/ mode[d] = "store")
    /\ ended' = (ended \/ mode[d] = "slow")
    /\ damaged' = (damaged \/ mode[Peer(d)] = "read")
    /\ asked' = FALSE
    /\ UNCHANGED <<dev, eeprom, flag, k, long, given, leaked, told>>

(* Reset to main's loop; module Boot has the steps.                        *)
PowerOn(d) ==
    /\ mode[d] = "off"
    /\ mode' = [mode EXCEPT ![d] = "loop"]
    /\ dev' = [dev EXCEPT ![d] = eeprom[d]]
    /\ UNCHANGED <<msg, eeprom, flag, k, long, budget, history, asked>>

(* Noise changes one field of a message nobody has begun to read, or one   *)
(* word of its secrets.  No later check finds it: the 'P' branch of        *)
(* parse_inc_message looks at no HMAC.                                     *)
Garblings(m) ==
    {[m EXCEPT !.magic = x] : x \in Magics} \cup {[m EXCEPT !.target = x] : x \in Targets}
    \cup {[m EXCEPT !.pin = x] : x \in Pins}
    \cup {[m EXCEPT !.secrets[p] = "junk"] : p \in Places}
    \cup {[m EXCEPT !.secrets[SecretWords] = "typed"]}

Garble(d) ==
    /\ mode[d] = "send" /\ mode[Peer(d)] = "loop"
    /\ Spend("noise")
    /\ \E m \in Garblings(msg[d]) :
         /\ msg' = [msg EXCEPT ![d] = m]
         /\ given' = (given \/ m.pin = "right")
    /\ damaged' = TRUE /\ asked' = FALSE
    /\ UNCHANGED <<mode, dev, eeprom, flag, k, long, leaked, told, lost, ended>>

(* Noise swallows a byte of d's message, as in Conversation.               *)
DropByte(d) ==
    /\ mode[d] = "send"
    /\ Spend("noise")
    /\ \/ /\ mode[Peer(d)] = "loop"
          /\ mode' = [mode EXCEPT ![d] = "cut"]
          /\ UNCHANGED msg
       \/ /\ mode[Peer(d)] = "read"
          /\ \E after \in {"loop", "cut"} :
               /\ mode' = [mode EXCEPT ![d] = after, ![Peer(d)] = "torn"]
               /\ msg' = [msg EXCEPT ![d] = IF after = "loop" THEN Zeroed ELSE @]
    /\ damaged' = TRUE /\ asked' = FALSE
    /\ UNCHANGED <<dev, eeprom, flag, k, long, given, leaked, told, lost, ended>>

-----------------------------------------------------------------------------
Next ==
    \/ \E d \in Fobs : Press(d) \/ \E pin \in {"right", "wrong"} : Command(d, pin)
    \/ \E d \in Fobs : StartRead(d) \/ FinishSend(d) \/ Parse(d) \/ Respond(d) \/ StoreWord(d)
    \/ Collide
    \/ \E d \in Fobs : FillTorn(d) \/ StarveTorn(d) \/ PowerOff(d) \/ PowerOn(d)
    \/ \E d \in Fobs : Garble(d) \/ DropByte(d)

Spec == Init /\ [][Next]_vars

(* The threads run and the UARTs shift bytes; nothing is assumed of the    *)
(* host, the users, the power supply or the noise.                         *)
Fairness ==
    /\ WF_vars(StartRead("ufob")) /\ WF_vars(FinishSend("ufob")) /\ WF_vars(Parse("ufob"))
    /\ WF_vars(Respond("ufob")) /\ WF_vars(StoreWord("ufob"))
    /\ WF_vars(StartRead("pfob")) /\ WF_vars(FinishSend("pfob")) /\ WF_vars(Parse("pfob"))
    /\ WF_vars(Respond("pfob")) /\ WF_vars(StoreWord("pfob"))
    /\ WF_vars(Collide)

FairSpec == Spec /\ Fairness
-----------------------------------------------------------------------------
(* Every variable has its type, and eeprom_write stays within the secrets. *)
TypeOK ==
    /\ mode \in [Fobs -> Modes]
    /\ msg \in [Fobs -> Message]
    /\ dev \in [Fobs -> Secrets] /\ eeprom \in [Fobs -> Secrets]
    /\ flag \in [Fobs -> {"erased", "busy", "done"}]
    /\ k \in Places /\ long \in BOOLEAN
    /\ budget \in [Limited -> Nat]
    /\ given \in BOOLEAN /\ leaked \in BOOLEAN /\ told \in {"nothing", "success", "failure"}
    /\ lost \in BOOLEAN /\ ended \in BOOLEAN
    /\ damaged \in BOOLEAN /\ asked \in BOOLEAN

Paired(d) == DevType(eeprom[d]) = "p"

(* A fob that counts as paired, now or after its next reset, has all of    *)
(* the paired fob's secrets: a mixture of its own and the new ones, left   *)
(* by a power cut in the eeprom_write, never passes for a paired fob's.    *)
(* Only a message cut off in the middle or hit by noise can break this,    *)
(* and does: the 'P' branch of parse_inc_message checks no HMAC.           *)
PairedIsWhole ==
    ~damaged => \A d \in Fobs :
        /\ DevType(dev[d]) = "p" => dev[d] = All("pfob")
        /\ Paired(d) => eeprom[d] = All("pfob")

(* Without the right PIN no word of the paired fob's secrets is in the 40  *)
(* bytes a response is read from or in the other fob, whatever is cut,     *)
(* mixed or garbled.  Nothing is claimed of the rest of a response, bytes  *)
(* of the stack that may hold such words; and where some did, a reader     *)
(* that is out of step may take them for the 40 bytes.                     *)
SecretNeedsPin ==
    ~given /\ ~(leaked /\ damaged) =>
        \A p \in Places : /\ dev["ufob"][p] # "pfob" /\ eeprom["ufob"][p] # "pfob"
                          /\ \A d \in Fobs : msg[d].secrets[p] # "pfob"

(* A fob told to be paired is paired when the words are stored and stays   *)
(* so, unless power failed just then.                                      *)
SuccessIsKept ==
    told = "success" /\ ~lost /\ mode["ufob"] # "store" => Paired("ufob")

(* Pairing is final: a stored type TO_P_FOB and the secrets stored with it *)
(* are never written again, by no message, request or restart.             *)
PairingIsFinal == [][\A d \in Fobs : Paired(d) => eeprom'[d] = eeprom[d]]_vars

(* The right PIN, given while both fobs are idle and disturbed by no       *)
(* press, command, power cut or noise, pairs the fob -- also after power   *)
(* cuts, noise and collisions before.                                      *)
CommandPairs == asked ~> (Paired("ufob") \/ ~asked)

(* What the two fobs promise.                                              *)
Service == INSTANCE PairingService WITH
    copies <- {d \in Fobs : eeprom[d] = All("pfob")},
    spoilt <- {d \in Fobs : Paired(d) /\ eeprom[d] # All("pfob")}
ImplementsService == Service!Spec

(* handle_pair_request: the long delay "means a previous pair process was  *)
(* prematurely terminated".                                                *)
LongDelayMeansEnded == long => ended

(* parse_inc_message: "the function verifies that the incoming message is  *)
(* authenticated and valid" -- so what is made of a response is what the   *)
(* paired fob put into it.                                                 *)
TakenIsAuthentic == mode["ufob"] = "store" => dev["ufob"] = dev["pfob"]
=============================================================================
