------------------------- MODULE ConversationProofs -------------------------
(***************************************************************************)
(* Proofs about Conversation: for any set of features and any number of    *)
(* presses, uploads, power cuts and hits of noise, the variables keep      *)
(* their types, IInv is an invariant, and with it the safety properties of *)
(* the conversation hold.                                                  *)
(***************************************************************************)
EXTENDS Conversation, TLAPS

-----------------------------------------------------------------------------
(* Why the safety properties hold, as an inductive invariant.  (1) Random  *)
(* values are fresh: none in use reaches the next one to be drawn.         *)
AllDrawn ==
    /\ \A d \in Devices : /\ conv[d].cn < fresh /\ conv[d].sn < fresh
                          /\ msg[d].cn < fresh /\ msg[d].sn < fresh
    /\ \A n \in pressed : n < fresh
    /\ \A p \in solved : p[1] < fresh /\ p[2] < fresh
    /\ \A i \in DOMAIN unlocks : unlocks[i].sn < fresh

(* (2) A fob in the middle of a conversation was pressed for it, and       *)
(* answers one challenge per press.                                        *)
OneSolvePerPress ==
    /\ conv["fob"].next \in {"CHALL", "END"} => conv["fob"].cn \in pressed
    /\ conv["fob"].next = "CHALL" => \A p \in solved : p[1] # conv["fob"].cn
    /\ \A p \in solved : p[1] \in pressed
    /\ \A p, q \in solved : p[1] = q[1] => p = q

(* (3) Whatever the fob sent, or the car is reading, with the nonces of    *)
(* the car's outstanding challenge was made by the fob for that challenge, *)
(* however noise has changed it since (a HELLO may have become a SOLVE);   *)
(* and a challenge is outstanding for one unlock only.                     *)
ByFob(d) == IF d = "fob" THEN mode["fob"] \in {"send", "cut"}
                           ELSE mode["car"] \in {"read", "torn", "parse"}
SolveIsGenuine ==
    /\ conv["car"].next = "SOLVE" => conv["car"].sn # 0
    /\ \A d \in Devices :
          /\ ByFob(d) /\ conv["car"].next = "SOLVE"
          /\ msg[d].cn = conv["car"].cn /\ msg[d].sn = conv["car"].sn
          => <<msg[d].cn, msg[d].sn>> \in solved

OneUnlockPerChallenge ==
    /\ conv["car"].next = "SOLVE" =>
           \A i \in DOMAIN unlocks : unlocks[i].sn # conv["car"].sn
    /\ \A i, j \in DOMAIN unlocks : unlocks[i].sn = unlocks[j].sn => i = j

(* (4) Feature data in a message came from the fob's feature block.        *)
DataIsInstalled == \A d \in Devices : msg[d].cmd.data \subseteq block.data

IInv == /\ TypeOK /\ AllDrawn /\ OneSolvePerPress /\ SolveIsGenuine
        /\ OneUnlockPerChallenge /\ DataIsInstalled
        /\ UnlockAgreement /\ AnnouncedAreInstalled

-----------------------------------------------------------------------------
(* The constructors of messages and of conversation variables.             *)

LEMMA ZeroedType == Zeroed \in Message
  BY DEF Zeroed, Message, Digest, Command, NoCommand

LEMMA NoConvType == NoConv \in Conv
  BY DEF NoConv, Conv, Magics

LEMMA ResetConvType ==
  ASSUME NEW f \in Nat
  PROVE  /\ ResetConv(f) \in Conv
         /\ ResetConv(f).cn = f /\ ResetConv(f).sn = f + 1
         /\ ResetConv(f).next = "HELLO"
  BY DEF ResetConv, Conv, Magics

LEMMA NewMessageType ==
  ASSUME NEW d \in Devices, NEW magic \in Magics, NEW c \in Conv
  PROVE  /\ NewMessage(d, magic, c) \in Message
         /\ NewMessage(d, magic, c).cn = c.cn /\ NewMessage(d, magic, c).sn = c.sn
         /\ NewMessage(d, magic, c).magic = magic
         /\ NewMessage(d, magic, c).cmd.data = {}
  BY DEF NewMessage, Zeroed, NoCommand, Message, Digest, Command, Conv, Devices, Peer

LEMMA SignedType ==
  ASSUME NEW m \in Message
  PROVE  /\ Signed(m) \in Message
         /\ Signed(m).cn = m.cn /\ Signed(m).sn = m.sn
         /\ Signed(m).magic = m.magic /\ Signed(m).cmd = m.cmd
  BY DEF Signed, Message

(* Noise and torn reads: what they do to the fields the invariant is about.*)
Damaged(x, m, f) ==
    /\ x \in Message
    /\ x.cn \in {m.cn, f} /\ x.sn \in {m.sn, f}
    /\ x.cmd.data \subseteq m.cmd.data

LEMMA GarblingsDamage ==
  ASSUME NEW m \in Message, NEW f \in Nat, NEW x \in Garblings(m, f)
  PROVE  Damaged(x, m, f)
<1>1. m.cmd \in Command /\ <<f, f, f, f>> \in Digest
  BY DEF Message, Digest
<1>2. CASE x = [m EXCEPT !.mac = "bad", !.cmd.sig = {}]
  <2>1. [m.cmd EXCEPT !.sig = {}] \in Command /\ [m.cmd EXCEPT !.sig = {}].data = m.cmd.data
    BY <1>1 DEF Command
  <2>2. x = [m EXCEPT !.mac = "bad", !.cmd = [m.cmd EXCEPT !.sig = {}]]
    BY <1>2 DEF Message
  <2> QED  BY <2>1, <2>2 DEF Damaged, Message
<1>3. CASE \E F \in SUBSET Features : x = [m EXCEPT !.mac = "bad", !.cmd.flags = F]
  <2>1. PICK F \in SUBSET Features : x = [m EXCEPT !.mac = "bad", !.cmd.flags = F]
    BY <1>3
  <2>2. [m.cmd EXCEPT !.flags = F] \in Command /\ [m.cmd EXCEPT !.flags = F].data = m.cmd.data
    BY <1>1 DEF Command
  <2>3. x = [m EXCEPT !.mac = "bad", !.cmd = [m.cmd EXCEPT !.flags = F]]
    BY <2>1 DEF Message
  <2> QED  BY <2>2, <2>3 DEF Damaged, Message
<1>4. CASE x \in {[m EXCEPT !.mac = "bad"],
     [m EXCEPT !.mac = "bad", !.cn = f],
     [m EXCEPT !.mac = "bad", !.sn = f],
     [m EXCEPT !.mac = "bad", !.chal = f],
     [m EXCEPT !.mac = "bad", !.resp = <<f, f, f, f>>]}
  BY <1>1, <1>4 DEF Damaged, Message
<1>5. CASE \E z \in {"zero", "exact", "other"} : x = [m EXCEPT !.mac = "bad", !.size = z]
  BY <1>1, <1>5 DEF Damaged, Message
<1>6. CASE \E t \in Devices \cup {"junk"} : x = [m EXCEPT !.mac = "bad", !.target = t]
  BY <1>1, <1>6 DEF Damaged, Message
<1>7. CASE \E g \in Magics \cup {"P", "junk"} : x = WithMagic(m, g)
  <2>1. PICK g \in Magics \cup {"P", "junk"} : x = WithMagic(m, g)
    BY <1>7
  <2>2. PICK z \in {"zero", "exact", "other"} :
           x = [m EXCEPT !.magic = g, !.mac = "bad", !.size = z]
    BY <2>1 DEF WithMagic, Message
  <2> QED  BY <1>1, <2>2 DEF Damaged, Message
<1> QED  BY <1>2, <1>3, <1>4, <1>5, <1>6, <1>7 DEF Garblings

LEMMA CompletionsDamage ==
  ASSUME NEW m \in Message, NEW f \in Nat, NEW x \in Completions(m, f)
  PROVE  Damaged(x, m, f)
<1>1. m.cmd \in Command /\ <<f, f, f, f>> \in Digest
  BY DEF Message, Digest

<1>2. CASE x = [m EXCEPT !.mac = "bad", !.cmd.sig = {}]
  <2>1. [m.cmd EXCEPT !.sig = {}] \in Command /\ [m.cmd EXCEPT !.sig = {}].data = m.cmd.data
    BY <1>1 DEF Command
  <2>2. x = [m EXCEPT !.mac = "bad", !.cmd = [m.cmd EXCEPT !.sig = {}]]
    BY <1>2 DEF Message
  <2> QED  BY <2>1, <2>2 DEF Damaged, Message
<1>3. CASE \E k \in JunkCommands :
               x = [m EXCEPT !.mac = "bad", !.chal = f, !.resp = <<f, f, f, f>>, !.cmd = k]
  <2>1. PICK k \in JunkCommands :
               x = [m EXCEPT !.mac = "bad", !.chal = f, !.resp = <<f, f, f, f>>, !.cmd = k]
    BY <1>3
  <2>2. k \in Command /\ k.data = {}
    BY DEF JunkCommands, Command
  <2> QED  BY <1>1, <2>1, <2>2 DEF Damaged, Message
<1>4. CASE x \in {[m EXCEPT !.mac = "bad"],
     [m EXCEPT !.mac = "bad", !.size = "other"],
     [m EXCEPT !.mac = "bad", !.size = "other", !.sn = f]}
  BY <1>4 DEF Damaged, Message
<1>5. CASE x = [m EXCEPT !.mac = "bad", !.size = "other", !.sn = f, !.cn = f]
  BY <1>5 DEF Damaged, Message
<1>6. CASE x = [m EXCEPT !.mac = "bad", !.size = "other", !.sn = f, !.cn = f,
                         !.magic = "junk"]
  BY <1>6 DEF Damaged, Message
<1>7. CASE x = [m EXCEPT !.mac = "bad", !.size = "other", !.sn = f, !.cn = f,
                         !.magic = "junk", !.target = "junk"]
  BY <1>7 DEF Damaged, Message
<1> QED  BY <1>2, <1>3, <1>4, <1>5, <1>6, <1>7 DEF Completions

-----------------------------------------------------------------------------
(* Types.                                                                  *)

LEMMA TypeInit == Init => TypeOK
<1> SUFFICES ASSUME Init PROVE TypeOK
  OBVIOUS
<1>1. NoCommand \in Command
  BY DEF NoCommand, Command
<1> QED
  BY <1>1, ZeroedType, NoConvType, ConstantsAssumption
  DEF Init, TypeOK, Modes, Devices, Dirty, Limited

(* What a device's thread does at the end of a step keeps the types.       *)
LEMMA BackToLoopType ==
  ASSUME TypeOK, NEW d \in Devices, NEW c \in Conv, BackToLoop(d, c)
  PROVE  /\ mode' \in [Devices -> Modes]
         /\ msg' \in [Devices -> Message]
         /\ conv' \in [Devices -> Conv]
<1>1. "loop" \in Modes
  BY DEF Modes
<1> QED  BY <1>1, ZeroedType DEF TypeOK, BackToLoop

LEMMA TransmitType ==
  ASSUME TypeOK, NEW d \in Devices, NEW m \in Message, NEW c \in Conv, Transmit(d, m, c)
  PROVE  /\ mode' \in [Devices -> Modes]
         /\ msg' \in [Devices -> Message]
         /\ conv' \in [Devices -> Conv]
<1>1. "cut" \in Modes /\ "send" \in Modes
  BY DEF Modes
<1> QED  BY <1>1 DEF TypeOK, Transmit

LEMMA LosePowerType ==
  ASSUME TypeOK, NEW d \in Devices, LosePower(d)
  PROVE  /\ mode' \in [Devices -> Modes]
         /\ msg' \in [Devices -> Message]
         /\ conv' \in [Devices -> Conv]
         /\ budget' \in [Limited -> Nat]
         /\ tries' \in Nat
<1>1. mode' \in [Devices -> Modes]
  <2>1. {"off", "cut", "torn"} \subseteq Modes /\ Peer(d) \in Devices
    BY DEF Modes, Devices, Peer
  <2> QED  BY <2>1 DEF LosePower, TypeOK
<1>2. budget' \in [Limited -> Nat]
  <2>1. budget["power"] - 1 \in Nat
    BY DEF LosePower, Spend, TypeOK, Limited
  <2> QED  BY <2>1 DEF LosePower, Spend, TypeOK, Limited
<1>3. tries' \in Nat
  BY ConstantsAssumption DEF LosePower, Dirty
<1>4. msg' \in [Devices -> Message] /\ conv' \in [Devices -> Conv]
  BY ZeroedType, NoConvType DEF LosePower, TypeOK
<1> QED  BY <1>1, <1>2, <1>3, <1>4

LEMMA SpendType ==
  ASSUME TypeOK, NEW w \in Limited, Spend(w)
  PROVE  budget' \in [Limited -> Nat]
<1>1. budget[w] - 1 \in Nat
  BY DEF TypeOK, Spend
<1> QED  BY <1>1 DEF TypeOK, Spend

(* What the senders make of their variables.                               *)
LEMMA GenHelloType ==
  ASSUME NEW c \in Conv
  PROVE  /\ GenHello(c) \in Message
         /\ GenHello(c).cn = c.cn /\ GenHello(c).sn = c.sn
         /\ GenHello(c).magic = "HELLO" /\ GenHello(c).cmd.data = {}
<1> DEFINE n == NewMessage("fob", "HELLO", c)
           m == [n EXCEPT !.chal = c.chal]
<1>1. /\ n \in Message /\ n.cn = c.cn /\ n.sn = c.sn
      /\ n.magic = "HELLO" /\ n.cmd.data = {}
  BY NewMessageType DEF Devices, Magics
<1> HIDE DEF n
<1>2. /\ m \in Message /\ m.cn = c.cn /\ m.sn = c.sn
      /\ m.magic = "HELLO" /\ m.cmd.data = {}
  BY <1>1 DEF Message, Conv
<1> HIDE DEF m
<1>3. GenHello(c) = Signed(m)
  BY DEF GenHello, m, n
<1> QED  BY <1>2, <1>3, SignedType

LEMMA GenChallType ==
  ASSUME NEW c \in Conv
  PROVE  /\ GenChall(c) \in Message
         /\ GenChall(c).cn = c.cn /\ GenChall(c).sn = c.sn
         /\ GenChall(c).magic = "CHALL" /\ GenChall(c).cmd.data = {}
<1> DEFINE n == NewMessage("car", "CHALL", c)
           m == [n EXCEPT !.chal = c.chal]
<1>1. /\ n \in Message /\ n.cn = c.cn /\ n.sn = c.sn
      /\ n.magic = "CHALL" /\ n.cmd.data = {}
  BY NewMessageType DEF Devices, Magics
<1> HIDE DEF n
<1>2. /\ m \in Message /\ m.cn = c.cn /\ m.sn = c.sn
      /\ m.magic = "CHALL" /\ m.cmd.data = {}
  BY <1>1 DEF Message, Conv
<1> HIDE DEF m
<1>3. GenChall(c) = Signed(m)
  BY DEF GenChall, m, n
<1> QED  BY <1>2, <1>3, SignedType

LEMMA GenSolutionType ==
  ASSUME NEW c \in Conv, block \in Command
  PROVE  /\ GenSolution(c) \in Message
         /\ GenSolution(c).cn = c.cn /\ GenSolution(c).sn = c.sn
         /\ GenSolution(c).magic = "SOLVE" /\ GenSolution(c).cmd = block
<1> DEFINE n == NewMessage("fob", "SOLVE", c)
           m == [n EXCEPT !.resp = Solution(c), !.cmd = block]
<1>1. /\ n \in Message /\ n.cn = c.cn /\ n.sn = c.sn /\ n.magic = "SOLVE"
  BY NewMessageType DEF Devices, Magics
<1> HIDE DEF n
<1>4. Solution(c) \in Digest
  BY DEF Solution, Digest, Conv
<1>2. /\ m \in Message /\ m.cn = c.cn /\ m.sn = c.sn
      /\ m.magic = "SOLVE" /\ m.cmd = block
  BY <1>1, <1>4 DEF Message
<1> HIDE DEF m
<1>3. GenSolution(c) = Signed(m)
  BY DEF GenSolution, m, n
<1> QED  BY <1>2, <1>3, SignedType

LEMMA GenEndType ==
  ASSUME NEW c \in Conv
  PROVE  /\ GenEnd(c) \in Message
         /\ GenEnd(c).cn = c.cn /\ GenEnd(c).sn = c.sn
         /\ GenEnd(c).magic = "END" /\ GenEnd(c).cmd.data = {}
  BY NewMessageType DEF GenEnd, Devices, Magics

LEMMA PairAnswerType ==
  /\ PairAnswer \in Message
  /\ PairAnswer.cn = 0 /\ PairAnswer.sn = 0 /\ PairAnswer.cmd.data = {}
  BY DEF PairAnswer, Zeroed, NoCommand, Message, Digest, Command

LEMMA AskingType ==
  ASSUME NEW f \in Nat
  PROVE  /\ Asking(f) \in Conv
         /\ Asking(f).next = "CHALL" /\ Asking(f).cn = f /\ Asking(f).sn = f + 1
<1> DEFINE r == ResetConv(f)
<1>1. r \in Conv /\ r.cn = f /\ r.sn = f + 1 /\ f + 2 \in Nat
  BY ResetConvType
<1> HIDE DEF r
<1>2. Asking(f) = [r EXCEPT !.next = "CHALL", !.chal = f + 2]
  BY DEF Asking, r
<1> QED  BY <1>1, <1>2 DEF Conv, Magics

LEMMA ChallengingType ==
  ASSUME NEW c \in Conv, NEW m \in Message, NEW f \in Nat
  PROVE  /\ Challenging(c, m, f) \in Conv
         /\ Challenging(c, m, f).next = "SOLVE"
         /\ Challenging(c, m, f).cn = m.cn /\ Challenging(c, m, f).sn = f
<1>1. f + 1 \in Nat /\ m.cn \in Nat
  BY DEF Message
<1> QED  BY <1>1 DEF Challenging, Conv, Magics

LEMMA SolvingType ==
  ASSUME NEW c \in Conv, NEW m \in Message
  PROVE  /\ Solving(c, m) \in Conv
         /\ Solving(c, m).next = "END"
         /\ Solving(c, m).cn = c.cn /\ Solving(c, m).sn = m.sn
<1>1. m.sn \in Nat /\ m.chal \in Nat
  BY DEF Message
<1> QED  BY <1>1 DEF Solving, Conv, Magics

LEMMA OpeningType ==
  ASSUME NEW c \in Conv
  PROVE  /\ Opening(c) \in Conv
         /\ Opening(c).next = "HELLO"
         /\ Opening(c).cn = c.cn /\ Opening(c).sn = c.sn
  BY DEF Opening, Conv, Magics

-----------------------------------------------------------------------------
(* Every action keeps the types.                                           *)
LEMMA TypeStep == TypeOK /\ [Next]_vars => TypeOK'
<1> SUFFICES ASSUME TypeOK, [Next]_vars PROVE TypeOK'
  OBVIOUS
<1>t. /\ fresh \in Nat /\ fresh + 1 \in Nat /\ fresh + 2 \in Nat
      /\ fresh + 3 \in Nat /\ fresh + 4 \in Nat
      /\ \A d \in Devices : msg[d] \in Message /\ conv[d] \in Conv /\ Peer(d) \in Devices
      /\ "car" \in Devices /\ "fob" \in Devices
  BY DEF TypeOK, Devices, Peer
<1>m. Modes = {"off", "spin", "loop", "read", "torn", "parse", "send", "cut", "host"}
  BY DEF Modes
<1>1. CASE Press
  <2>1. /\ mode' \in [Devices -> Modes]
        /\ msg' \in [Devices -> Message]
        /\ conv' \in [Devices -> Conv]
    BY <1>1, <1>t, AskingType, GenHelloType, TransmitType DEF Press
  <2>2. budget' \in [Limited -> Nat]
    BY <1>1, SpendType DEF Press, Limited
  <2>3. tries' \in Nat
    BY <1>1, ConstantsAssumption DEF Press, TypeOK, Dirty
  <2>4. pressed' \subseteq Nat /\ fresh' \in Nat
    BY <1>1, <1>t DEF Press, TypeOK
  <2> QED  BY <1>1, <2>1, <2>2, <2>3, <2>4 DEF Press, TypeOK
<1>2. ASSUME NEW d \in Devices, StartRead(d)  PROVE TypeOK'
  BY <1>2, <1>t, <1>m DEF StartRead, TypeOK, history
<1>3. ASSUME NEW d \in Devices, FinishSend(d)  PROVE TypeOK'
  BY <1>3, <1>t, <1>m, ZeroedType DEF FinishSend, TypeOK, history
<1>4. ASSUME NEW d \in Devices, Reject(d)  PROVE TypeOK'
  BY <1>4, <1>t, ResetConvType, BackToLoopType DEF Reject, TypeOK, history
<1>5. ASSUME NEW d \in Devices, HandlerRefuses(d)  PROVE TypeOK'
  BY <1>5, <1>t, BackToLoopType DEF HandlerRefuses, TypeOK, history
<1>6. CASE CarHello
  <2> DEFINE c == Challenging(conv["car"], msg["car"], fresh)
  <2>1. c \in Conv /\ GenChall(c) \in Message
    BY <1>t, ChallengingType, GenChallType
  <2>2. Transmit("car", GenChall(c), c) /\ fresh' = fresh + 2
        /\ UNCHANGED <<block, budget, history, tries>>
    BY <1>6 DEF CarHello
  <2> HIDE DEF c
  <2> QED  BY <1>t, <2>1, <2>2, TransmitType DEF TypeOK, history
<1>7. CASE FobChall
  <2> DEFINE c == Solving(conv["fob"], msg["fob"])
  <2>1. c \in Conv
    BY <1>t, SolvingType
  <2>2. GenSolution(c) \in Message
    BY <2>1, GenSolutionType DEF TypeOK
  <2>3. /\ Transmit("fob", GenSolution(c), c)
        /\ solved' = solved \cup {<<c.cn, c.sn>>}
        /\ UNCHANGED <<block, fresh, budget, pressed, unlocks, tries>>
    BY <1>7 DEF FobChall
  <2>4. <<c.cn, c.sn>> \in Nat \X Nat
    BY <2>1 DEF Conv
  <2> HIDE DEF c
  <2> QED  BY <1>t, <2>1, <2>2, <2>3, <2>4, TransmitType DEF TypeOK
<1>8. CASE CarSolve
  <2> DEFINE c == Opening(conv["car"])
             u == [cn |-> c.cn, sn |-> c.sn, feats |-> msg["car"].cmd.flags]
  <2>1. c \in Conv /\ GenEnd(c) \in Message
    BY <1>t, OpeningType, GenEndType
  <2>2. u \in [cn: Nat, sn: Nat, feats: SUBSET Features]
    BY <1>t, <2>1 DEF Conv, Message, Command
  <2>3. /\ Transmit("car", GenEnd(c), c) /\ unlocks' = Append(unlocks, u) /\ tries' = 0
        /\ UNCHANGED <<block, fresh, budget, pressed, solved>>
    BY <1>8 DEF CarSolve
  <2> HIDE DEF c, u
  <2> QED  BY <1>t, <2>1, <2>2, <2>3, TransmitType DEF TypeOK
<1>9. CASE FobEnd
  BY <1>9, <1>t, <1>m DEF FobEnd, TypeOK, history
<1>10. CASE Collide
  <2>1. PICK d \in Devices :
           \/ /\ mode' = [e \in Devices |-> "loop"]
              /\ msg' = [e \in Devices |-> Zeroed]
           \/ \E after \in {"loop", "cut"} :
                 /\ mode' = [mode EXCEPT ![Peer(d)] = "loop", ![d] = after]
                 /\ msg' = [msg EXCEPT ![Peer(d)] = Zeroed,
                                       ![d] = IF after = "loop" THEN Zeroed ELSE @]
    BY <1>10 DEF Collide
  <2>2. mode' \in [Devices -> Modes]
    BY <2>1, <1>t, <1>m DEF TypeOK
  <2>3. msg' \in [Devices -> Message]
    BY <2>1, <1>t, ZeroedType DEF TypeOK
  <2> QED  BY <1>10, <2>2, <2>3 DEF Collide, TypeOK, history
<1>11. CASE HostAcks
  BY <1>11, <1>t, ResetConvType, BackToLoopType DEF HostAcks, TypeOK, history
<1>12. ASSUME NEW d \in Devices, FillTorn(d)  PROVE TypeOK'
  <2>1. PICK m \in Completions(msg[d], fresh), after \in {"loop", "cut"} :
           /\ mode' = [mode EXCEPT ![d] = "parse", ![Peer(d)] = after]
           /\ msg' = [msg EXCEPT ![d] = m,
                                 ![Peer(d)] = IF after = "loop" THEN Zeroed ELSE @]
    BY <1>12 DEF FillTorn
  <2>2. m \in Message
    BY <1>t, CompletionsDamage DEF Damaged
  <2>3. mode' \in [Devices -> Modes]
    BY <2>1, <1>t, <1>m DEF TypeOK
  <2>4. msg' \in [Devices -> Message]
    BY <2>1, <2>2, <1>t, ZeroedType DEF TypeOK
  <2> QED  BY <1>12, <1>t, <2>3, <2>4 DEF FillTorn, TypeOK, history
<1>13. ASSUME NEW d \in Devices, StarveTorn(d)  PROVE TypeOK'
  BY <1>13, <1>t, <1>m DEF StarveTorn, TypeOK, history
<1>14. ASSUME NEW d \in Devices, PowerOff(d)  PROVE TypeOK'
  BY <1>14, LosePowerType DEF PowerOff, TypeOK, history
<1>15. ASSUME NEW d \in Devices, PowerOn(d)  PROVE TypeOK'
  <2>1. mode' \in [Devices -> Modes]
    BY <1>15, <1>t, <1>m DEF PowerOn, TypeOK
  <2>2. conv' \in [Devices -> Conv]
    BY <1>15, <1>t, ResetConvType, NoConvType DEF PowerOn, TypeOK
  <2> QED  BY <1>15, <1>t, <2>1, <2>2 DEF PowerOn, TypeOK, history
<1>16. ASSUME NEW d \in Devices, Garble(d)  PROVE TypeOK'
  <2>1. PICK m \in Garblings(msg[d], fresh) : msg' = [msg EXCEPT ![d] = m]
    BY <1>16 DEF Garble
  <2>2. m \in Message
    BY <1>t, GarblingsDamage DEF Damaged
  <2>3. budget' \in [Limited -> Nat]
    BY <1>16, SpendType DEF Garble, Limited
  <2>4. tries' \in Nat
    BY <1>16, ConstantsAssumption DEF Garble, Dirty
  <2>5. msg' \in [Devices -> Message]
    BY <2>1, <2>2 DEF TypeOK
  <2> QED  BY <1>16, <1>t, <2>3, <2>4, <2>5 DEF Garble, TypeOK, history
<1>17. ASSUME NEW d \in Devices, DropByte(d)  PROVE TypeOK'
  <2>1. mode' \in [Devices -> Modes]
    BY <1>17, <1>t, <1>m DEF DropByte, TypeOK
  <2>2. msg' \in [Devices -> Message]
    BY <1>17, <1>t, ZeroedType DEF DropByte, TypeOK
  <2>3. budget' \in [Limited -> Nat]
    BY <1>17, SpendType DEF DropByte, Limited
  <2>4. tries' \in Nat
    BY <1>17, ConstantsAssumption DEF DropByte, Dirty
  <2> QED  BY <1>17, <2>1, <2>2, <2>3, <2>4 DEF DropByte, TypeOK, history
<1>18. ASSUME NEW x \in Features, UploadFeature(x)  PROVE TypeOK'
  <2>1. budget' \in [Limited -> Nat]
    BY <1>18, SpendType DEF UploadFeature, Limited
  <2>2. tries' \in Nat
    BY <1>18, ConstantsAssumption DEF UploadFeature, Dirty
  <2>3. block' \in Command
    BY <1>18 DEF UploadFeature, TypeOK, Command
  <2> QED  BY <1>18, <2>1, <2>2, <2>3 DEF UploadFeature, TypeOK, history
<1>19. ASSUME NEW S \in SUBSET Features, UploadSig(S)  PROVE TypeOK'
  <2>1. budget' \in [Limited -> Nat]
    BY <1>19, SpendType DEF UploadSig, Limited
  <2>2. tries' \in Nat
    BY <1>19, ConstantsAssumption DEF UploadSig, Dirty
  <2>3. block' \in Command
    BY <1>19 DEF UploadSig, TypeOK, Command
  <2> QED  BY <1>19, <2>1, <2>2, <2>3 DEF UploadSig, TypeOK, history
<1>20. CASE UNCHANGED vars
  BY <1>20 DEF vars, TypeOK
<1>21. CASE FobPair
  BY <1>21, <1>t, ResetConvType, PairAnswerType, TransmitType DEF FobPair, TypeOK, history
<1>22. ASSUME NEW x \in Features, TearFeature(x)  PROVE TypeOK'
  <2>1. block' \in Command
    BY <1>22 DEF TearFeature, TypeOK, Command
  <2> QED  BY <1>22, <1>t, <2>1, LosePowerType DEF TearFeature, TypeOK, history
<1>23. CASE TearSignature
  <2>1. block' \in Command
    BY <1>23 DEF TearSignature, TypeOK, Command
  <2> QED  BY <1>23, <1>t, <2>1, LosePowerType DEF TearSignature, TypeOK, history
<1> QED
  BY <1>1, <1>2, <1>3, <1>4, <1>5, <1>6, <1>7, <1>8, <1>9, <1>10, <1>11, <1>12, <1>13,
     <1>14, <1>15, <1>16, <1>17, <1>18, <1>19, <1>20, <1>21, <1>22, <1>23
  DEF Next, Parse

(* Type correctness, for every value of the constants.                     *)
THEOREM TypeCorrect == Spec => []TypeOK
  BY TypeInit, TypeStep, PTL DEF Spec

-----------------------------------------------------------------------------
(* The inductive invariant.                                                *)
LEMMA InvInit == Init => IInv
<1> SUFFICES ASSUME Init PROVE IInv
  OBVIOUS
<1>1. /\ \A d \in Devices : conv[d] = NoConv /\ msg[d] = Zeroed
      /\ pressed = {} /\ solved = {} /\ unlocks = <<>> /\ fresh = 1
      /\ block = NoCommand
      /\ \A d \in Devices : mode[d] = "off"
  BY DEF Init
<1>2. /\ NoConv.cn = 0 /\ NoConv.sn = 0 /\ NoConv.next = "none"
      /\ Zeroed.cn = 0 /\ Zeroed.sn = 0 /\ Zeroed.magic = "none" /\ Zeroed.cmd.data = {}
  BY DEF NoConv, Zeroed, NoCommand
<1>3. "car" \in Devices /\ "fob" \in Devices
  BY DEF Devices
<1>4. DOMAIN unlocks = {}
  BY <1>1
<1> QED
  BY <1>1, <1>2, <1>3, <1>4, TypeInit
  DEF IInv, AllDrawn, OneSolvePerPress, SolveIsGenuine, ByFob, OneUnlockPerChallenge,
      DataIsInstalled, UnlockAgreement, AnnouncedAreInstalled

LEMMA HistoryType ==
  ASSUME TypeOK
  PROVE  /\ \A p \in solved : p[1] \in Nat /\ p[2] \in Nat /\ p = <<p[1], p[2]>>
         /\ DOMAIN unlocks = 1 .. Len(unlocks) /\ Len(unlocks) \in Nat
         /\ \A i \in DOMAIN unlocks :
               unlocks[i].cn \in Nat /\ unlocks[i].sn \in Nat
<1>1. \A p \in Nat \X Nat : p[1] \in Nat /\ p[2] \in Nat /\ p = <<p[1], p[2]>>
  OBVIOUS
<1> DEFINE R == [cn: Nat, sn: Nat, feats: SUBSET Features]
<1>2. \A u \in R : u.cn \in Nat /\ u.sn \in Nat
  OBVIOUS
<1>3. unlocks \in Seq(R)
  BY DEF TypeOK
<1> HIDE DEF R
<1>4. DOMAIN unlocks = 1 .. Len(unlocks) /\ Len(unlocks) \in Nat
  BY <1>3
<1>5. \A i \in DOMAIN unlocks : unlocks[i] \in R
  BY <1>3
<1> QED  BY <1>1, <1>2, <1>4, <1>5 DEF TypeOK

(* Most actions only move messages about, damage them, or reset a device.  *)
(* What the fob sends or the car reads afterwards was such a message       *)
(* before, or is the answer to a pair request.                             *)
KeepsMessages ==
    \A d \in Devices :
        \/ msg'[d] = Zeroed \/ msg'[d] = PairAnswer
        \/ \E e \in Devices :
              /\ ByFob(d)' => ByFob(e)
              /\ \/ msg'[d] = msg[e]
                 \/ fresh < fresh' /\ Damaged(msg'[d], msg[e], fresh)

KeepsConversations ==
    \A d \in Devices :
        \/ conv'[d] = conv[d]
        \/ /\ conv'[d].next \in {"HELLO", "none"}
           /\ conv'[d].cn < fresh' /\ conv'[d].sn < fresh'

LEMMA FrameStep ==
  ASSUME IInv, TypeOK', fresh <= fresh', KeepsMessages, KeepsConversations,
         UNCHANGED history, block.data \subseteq block'.data
  PROVE  IInv'
<1>t. /\ fresh \in Nat /\ fresh' \in Nat
      /\ \A d \in Devices : /\ msg[d] \in Message /\ conv[d] \in Conv
                            /\ msg'[d] \in Message /\ conv'[d] \in Conv
      /\ "car" \in Devices /\ "fob" \in Devices
      /\ pressed' = pressed /\ solved' = solved /\ unlocks' = unlocks
      /\ pressed \subseteq Nat /\ solved \subseteq Nat \X Nat
  BY DEF IInv, TypeOK, Devices, history
<1>n. \A d \in Devices : /\ msg[d].cn \in Nat /\ msg[d].sn \in Nat
                         /\ conv[d].cn \in Nat /\ conv[d].sn \in Nat
                         /\ msg'[d].cn \in Nat /\ msg'[d].sn \in Nat
                         /\ conv'[d].cn \in Nat /\ conv'[d].sn \in Nat
  BY <1>t DEF Message, Conv
<1>z. /\ Zeroed.cn = 0 /\ Zeroed.sn = 0 /\ Zeroed.cmd.data = {}
      /\ PairAnswer.cn = 0 /\ PairAnswer.sn = 0 /\ PairAnswer.cmd.data = {}
  BY PairAnswerType DEF Zeroed, NoCommand
<1>1. ASSUME NEW d \in Devices
      PROVE  /\ msg'[d].cn < fresh' /\ msg'[d].sn < fresh'
             /\ msg'[d].cmd.data \subseteq block'.data
             /\ ByFob(d)' /\ msg'[d].sn # 0 =>
                  \E e \in Devices : /\ ByFob(e)
                                     /\ msg'[d].cn \in {msg[e].cn, fresh}
                                     /\ msg'[d].sn \in {msg[e].sn, fresh}
  <2>1. CASE msg'[d] = Zeroed \/ msg'[d] = PairAnswer
    <3>1. 0 < fresh'
      BY <1>n, <1>t DEF IInv, AllDrawn
    <3> QED  BY <2>1, <3>1, <1>z
  <2>2. ASSUME NEW e \in Devices, msg'[d] = msg[e], ByFob(d)' => ByFob(e)
        PROVE  <1>1!2
    BY <2>2, <1>n, <1>t DEF IInv, AllDrawn, DataIsInstalled
  <2>3. ASSUME NEW e \in Devices, Damaged(msg'[d], msg[e], fresh), fresh < fresh',
               ByFob(d)' => ByFob(e)
        PROVE  <1>1!2
    BY <2>3, <1>n, <1>t DEF IInv, AllDrawn, DataIsInstalled, Damaged
  <2> QED  BY <2>1, <2>2, <2>3 DEF KeepsMessages
<1>2. AllDrawn'
  <2>1. \A d \in Devices : conv'[d].cn < fresh' /\ conv'[d].sn < fresh'
    BY <1>t, <1>n DEF IInv, AllDrawn, KeepsConversations
  <2>2. ASSUME NEW n \in pressed'  PROVE n < fresh'
    <3>1. n \in pressed /\ n \in Nat
      BY <1>t
    <3>2. n < fresh
      BY <3>1 DEF IInv, AllDrawn
    <3> QED  BY <1>t, <3>1, <3>2
  <2>3. ASSUME NEW p \in solved'  PROVE p[1] < fresh' /\ p[2] < fresh'
    BY <1>t, HistoryType DEF IInv, AllDrawn
  <2>4. ASSUME NEW i \in DOMAIN unlocks'  PROVE unlocks'[i].sn < fresh'
    BY <1>t, HistoryType DEF IInv, AllDrawn
  <2> QED  BY <1>1, <2>1, <2>2, <2>3, <2>4 DEF AllDrawn
<1>3. OneSolvePerPress'
  BY <1>t DEF IInv, OneSolvePerPress, KeepsConversations
<1>4. SolveIsGenuine'
  <2> SUFFICES ASSUME conv'["car"].next = "SOLVE"
               PROVE  /\ conv'["car"].sn # 0
                      /\ \A d \in Devices :
                            /\ ByFob(d)' /\ msg'[d].cn = conv'["car"].cn
                            /\ msg'[d].sn = conv'["car"].sn
                            => <<msg'[d].cn, msg'[d].sn>> \in solved'
    BY DEF SolveIsGenuine
  <2>1. conv'["car"] = conv["car"]
    BY <1>t DEF KeepsConversations
  <2>2. conv["car"].cn < fresh /\ conv["car"].sn < fresh /\ conv["car"].sn # 0
    BY <2>1, <1>t DEF IInv, AllDrawn, SolveIsGenuine
  <2> SUFFICES ASSUME NEW d \in Devices, ByFob(d)',
                      msg'[d].cn = conv'["car"].cn, msg'[d].sn = conv'["car"].sn
               PROVE  <<msg'[d].cn, msg'[d].sn>> \in solved'
    BY <2>1, <2>2
  <2>3. PICK e \in Devices : /\ ByFob(e)
                            /\ msg'[d].cn \in {msg[e].cn, fresh}
                            /\ msg'[d].sn \in {msg[e].sn, fresh}
    BY <1>1, <2>1, <2>2
  <2>4. msg'[d].cn = msg[e].cn /\ msg'[d].sn = msg[e].sn
    BY <2>1, <2>2, <2>3, <1>n, <1>t
  <2> QED  BY <2>1, <2>3, <2>4, <1>t DEF IInv, SolveIsGenuine
<1>5. OneUnlockPerChallenge'
  BY <1>t DEF IInv, OneUnlockPerChallenge, KeepsConversations
<1>6. DataIsInstalled' /\ UnlockAgreement' /\ AnnouncedAreInstalled'
  BY <1>1, <1>t DEF IInv, DataIsInstalled, UnlockAgreement, AnnouncedAreInstalled
<1> QED  BY <1>2, <1>3, <1>4, <1>5, <1>6 DEF IInv

LEMMA PressStep == IInv /\ TypeOK' /\ Press => IInv'
<1> SUFFICES ASSUME IInv, TypeOK', Press PROVE IInv'
  OBVIOUS
<1> DEFINE c == Asking(fresh)
           h == GenHello(c)
<1>1. /\ c \in Conv /\ c.next = "CHALL" /\ c.cn = fresh /\ c.sn = fresh + 1
      /\ h \in Message /\ h.cn = fresh /\ h.sn = fresh + 1
      /\ h.magic = "HELLO" /\ h.cmd.data = {}
  BY AskingType, GenHelloType DEF IInv, TypeOK
<1>2. /\ msg' = [msg EXCEPT !["fob"] = h] /\ conv' = [conv EXCEPT !["fob"] = c]
      /\ pressed' = pressed \cup {fresh} /\ fresh' = fresh + 3
      /\ block' = block /\ solved' = solved /\ unlocks' = unlocks
      /\ \E x : mode' = [mode EXCEPT !["fob"] = x]
  BY DEF Press, Transmit
<1> HIDE DEF c, h
<1>3. /\ msg' ["fob"] = h /\ msg' ["car"] = msg["car"] /\ mode' ["car"] = mode["car"]
      /\ conv' ["fob"] = c /\ conv' ["car"] = conv["car"]
      /\ Devices = {"car", "fob"} /\ fresh \in Nat
      /\ \A d \in Devices : /\ msg[d].cn \in Nat /\ msg[d].sn \in Nat
                            /\ conv[d].cn \in Nat /\ conv[d].sn \in Nat
  BY <1>2 DEF IInv, TypeOK, Devices, Message, Conv
<1>4. /\ \A n \in pressed : n \in Nat /\ n < fresh
      /\ \A p \in solved : /\ p[1] \in Nat /\ p[2] \in Nat
                           /\ p[1] < fresh /\ p[2] < fresh
      /\ \A j \in DOMAIN unlocks : unlocks[j].sn \in Nat /\ unlocks[j].sn < fresh
  BY HistoryType DEF IInv, TypeOK, AllDrawn
<1>5. AllDrawn'
  <2>1. \A d \in Devices : /\ conv'[d].cn < fresh' /\ conv'[d].sn < fresh'
                           /\ msg'[d].cn < fresh' /\ msg'[d].sn < fresh'
    BY <1>1, <1>2, <1>3 DEF IInv, AllDrawn
  <2>2. \A n \in pressed' : n < fresh'
    BY <1>2, <1>3, <1>4
  <2>3. \A p \in solved' : p[1] < fresh' /\ p[2] < fresh'
    BY <1>2, <1>3, <1>4
  <2>4. \A j \in DOMAIN unlocks' : unlocks'[j].sn < fresh'
    BY <1>2, <1>3, <1>4
  <2> QED  BY <2>1, <2>2, <2>3, <2>4 DEF AllDrawn
<1>6. OneSolvePerPress'
  <2>1. \A p \in solved' : p[1] # fresh
    BY <1>2, <1>3, <1>4
  <2> QED  BY <1>1, <1>2, <1>3, <2>1 DEF IInv, OneSolvePerPress
<1>7. SolveIsGenuine'
  <2>1. conv["car"].sn < fresh
    BY <1>3 DEF IInv, AllDrawn
  <2>2. ~(msg'["fob"].sn = conv'["car"].sn)
    BY <1>1, <1>3, <2>1
  <2>3. ByFob("car")' => ByFob("car")
    BY <1>3 DEF ByFob
  <2> QED  BY <1>2, <1>3, <2>2, <2>3 DEF IInv, SolveIsGenuine
<1>8. OneUnlockPerChallenge'
  BY <1>2, <1>3 DEF IInv, OneUnlockPerChallenge
<1>9. DataIsInstalled' /\ UnlockAgreement' /\ AnnouncedAreInstalled'
  BY <1>1, <1>2, <1>3 DEF IInv, DataIsInstalled, UnlockAgreement, AnnouncedAreInstalled
<1> QED  BY <1>5, <1>6, <1>7, <1>8, <1>9 DEF IInv

LEMMA CarHelloStep == IInv /\ TypeOK' /\ CarHello => IInv'
<1> SUFFICES ASSUME IInv, TypeOK', CarHello PROVE IInv'
  OBVIOUS
<1> DEFINE c == Challenging(conv["car"], msg["car"], fresh)
           h == GenChall(c)
<1>0. fresh \in Nat /\ conv["car"] \in Conv /\ msg["car"] \in Message
  BY DEF IInv, TypeOK, Devices
<1>a. /\ c \in Conv /\ c.next = "SOLVE" /\ c.cn = msg["car"].cn /\ c.sn = fresh
  BY <1>0, ChallengingType
<1>b. /\ h \in Message /\ h.cn = c.cn /\ h.sn = c.sn
      /\ h.magic = "CHALL" /\ h.cmd.data = {}
  BY <1>a, GenChallType
<1>2. /\ msg' = [msg EXCEPT !["car"] = h] /\ conv' = [conv EXCEPT !["car"] = c]
      /\ fresh' = fresh + 2 /\ block' = block
      /\ pressed' = pressed /\ solved' = solved /\ unlocks' = unlocks
      /\ \E x \in {"send", "cut"} : mode' = [mode EXCEPT !["car"] = x]
  BY DEF CarHello, Transmit, history
<1> HIDE DEF c, h
<1>1. /\ c \in Conv /\ c.next = "SOLVE" /\ c.cn = msg["car"].cn /\ c.sn = fresh
      /\ h \in Message /\ h.cn = msg["car"].cn /\ h.sn = fresh
      /\ h.magic = "CHALL" /\ h.cmd.data = {}
  BY <1>a, <1>b
<1>3. /\ msg' ["car"] = h /\ msg' ["fob"] = msg["fob"]
      /\ conv' ["car"] = c /\ conv' ["fob"] = conv["fob"]
      /\ Devices = {"car", "fob"} /\ mode'["car"] \in {"send", "cut"}
      /\ \A d \in Devices : /\ msg[d].cn \in Nat /\ msg[d].sn \in Nat
                            /\ conv[d].cn \in Nat /\ conv[d].sn \in Nat
                            /\ msg[d].cn < fresh /\ msg[d].sn < fresh
  BY <1>2 DEF IInv, TypeOK, AllDrawn, Devices, Message, Conv
<1>4. /\ \A n \in pressed : n \in Nat /\ n < fresh
      /\ \A p \in solved : /\ p[1] \in Nat /\ p[2] \in Nat
                           /\ p[1] < fresh /\ p[2] < fresh
      /\ \A j \in DOMAIN unlocks : unlocks[j].sn \in Nat /\ unlocks[j].sn < fresh
  BY HistoryType DEF IInv, TypeOK, AllDrawn
<1>5. AllDrawn'
  <2>1. \A d \in Devices : /\ conv'[d].cn < fresh' /\ conv'[d].sn < fresh'
                           /\ msg'[d].cn < fresh' /\ msg'[d].sn < fresh'
    BY <1>0, <1>1, <1>2, <1>3 DEF IInv, AllDrawn
  <2>2. \A n \in pressed' : n < fresh'
    BY <1>0, <1>2, <1>4
  <2>3. \A p \in solved' : p[1] < fresh' /\ p[2] < fresh'
    BY <1>0, <1>2, <1>4
  <2>4. \A j \in DOMAIN unlocks' : unlocks'[j].sn < fresh'
    BY <1>0, <1>2, <1>4
  <2> QED  BY <2>1, <2>2, <2>3, <2>4 DEF AllDrawn
<1>6. OneSolvePerPress'
  BY <1>2, <1>3 DEF IInv, OneSolvePerPress
<1>7. SolveIsGenuine'
  <2>1. ~ByFob("car")'
    BY <1>3 DEF ByFob
  <2>2. msg'["fob"].sn # conv'["car"].sn /\ conv'["car"].sn # 0
    BY <1>0, <1>1, <1>3
  <2> QED  BY <1>3, <2>1, <2>2 DEF SolveIsGenuine
<1>8. OneUnlockPerChallenge'
  <2>1. \A j \in DOMAIN unlocks : unlocks[j].sn # fresh
    BY <1>0, <1>4
  <2> QED  BY <1>1, <1>2, <1>3, <2>1 DEF IInv, OneUnlockPerChallenge
<1>9. DataIsInstalled' /\ UnlockAgreement' /\ AnnouncedAreInstalled'
  BY <1>1, <1>2, <1>3 DEF IInv, DataIsInstalled, UnlockAgreement, AnnouncedAreInstalled
<1> QED  BY <1>5, <1>6, <1>7, <1>8, <1>9 DEF IInv

LEMMA FobChallStep == IInv /\ TypeOK' /\ FobChall => IInv'
<1> SUFFICES ASSUME IInv, TypeOK', FobChall PROVE IInv'
  OBVIOUS
<1> DEFINE c == Solving(conv["fob"], msg["fob"])
           h == GenSolution(c)
           q == <<c.cn, c.sn>>
<1>0. /\ fresh \in Nat /\ conv["fob"] \in Conv /\ msg["fob"] \in Message
      /\ block \in Command
  BY DEF IInv, TypeOK, Devices
<1>1. /\ c \in Conv /\ c.next = "END" /\ c.cn = conv["fob"].cn /\ c.sn = msg["fob"].sn
      /\ h \in Message /\ h.cn = c.cn /\ h.sn = c.sn
      /\ h.magic = "SOLVE" /\ h.cmd = block
  BY <1>0, SolvingType, GenSolutionType
<1>2. /\ msg' = [msg EXCEPT !["fob"] = h] /\ conv' = [conv EXCEPT !["fob"] = c]
      /\ fresh' = fresh /\ block' = block
      /\ pressed' = pressed /\ solved' = solved \cup {q} /\ unlocks' = unlocks
      /\ conv["fob"].next = "CHALL"
      /\ \E x : mode' = [mode EXCEPT !["fob"] = x]
  BY DEF FobChall, Transmit, VerifyMessage
<1>6. q[1] = c.cn /\ q[2] = c.sn
  OBVIOUS
<1>7. <<h.cn, h.sn>> = q
  BY <1>1
<1> HIDE DEF c, h, q
<1>3. /\ msg' ["fob"] = h /\ msg' ["car"] = msg["car"]
      /\ conv' ["fob"] = c /\ conv' ["car"] = conv["car"]
      /\ Devices = {"car", "fob"} /\ mode' ["car"] = mode["car"]
  BY <1>2 DEF IInv, TypeOK, Devices
<1>4. AllDrawn'
  <2>1. c.cn < fresh /\ c.sn < fresh
    BY <1>1, <1>3 DEF IInv, AllDrawn
  <2> QED  BY <1>1, <1>2, <1>3, <1>6, <2>1 DEF IInv, AllDrawn
<1>5. OneSolvePerPress'
  <2>1. c.cn \in pressed /\ \A p \in solved : p[1] # c.cn
    BY <1>1, <1>2 DEF IInv, OneSolvePerPress
  <2> QED  BY <1>1, <1>2, <1>3, <1>6, <2>1 DEF IInv, OneSolvePerPress
<1>8. SolveIsGenuine'
  <2>1. ByFob("car")' => ByFob("car")
    BY <1>3 DEF ByFob
  <2> QED  BY <1>1, <1>2, <1>3, <1>7, <2>1 DEF IInv, SolveIsGenuine
<1>9. OneUnlockPerChallenge'
  BY <1>2, <1>3 DEF IInv, OneUnlockPerChallenge
<1>10. DataIsInstalled' /\ UnlockAgreement' /\ AnnouncedAreInstalled'
  BY <1>1, <1>2, <1>3 DEF IInv, DataIsInstalled, UnlockAgreement, AnnouncedAreInstalled
<1> QED  BY <1>4, <1>5, <1>8, <1>9, <1>10 DEF IInv

LEMMA CarSolveStep == IInv /\ TypeOK' /\ CarSolve => IInv'
<1> SUFFICES ASSUME IInv, TypeOK', CarSolve PROVE IInv'
  OBVIOUS
<1> DEFINE c == Opening(conv["car"])
           h == GenEnd(c)
           u == [cn |-> c.cn, sn |-> c.sn, feats |-> msg["car"].cmd.flags]
<1>0. fresh \in Nat /\ conv["car"] \in Conv /\ msg["car"] \in Message
  BY DEF IInv, TypeOK, Devices
<1>a. c \in Conv /\ c.next = "HELLO" /\ c.cn = conv["car"].cn /\ c.sn = conv["car"].sn
  BY <1>0, OpeningType
<1>b. /\ h \in Message /\ h.cn = c.cn /\ h.sn = c.sn
      /\ h.magic = "END" /\ h.cmd.data = {}
  BY <1>a, GenEndType
<1>2. /\ msg' = [msg EXCEPT !["car"] = h] /\ conv' = [conv EXCEPT !["car"] = c]
      /\ fresh' = fresh /\ block' = block
      /\ pressed' = pressed /\ solved' = solved /\ unlocks' = Append(unlocks, u)
      /\ mode["car"] = "parse" /\ conv["car"].next = "SOLVE"
      /\ msg["car"].cn = conv["car"].cn /\ msg["car"].sn = conv["car"].sn
      /\ CommandValid(msg["car"].cmd)
  BY DEF CarSolve, Transmit, VerifyMessage, SolutionAccepted
<1>u. u.cn = c.cn /\ u.sn = c.sn /\ u.feats = msg["car"].cmd.flags
  OBVIOUS
<1> HIDE DEF c, h, u
<1>3. /\ msg' ["car"] = h /\ msg' ["fob"] = msg["fob"]
      /\ conv' ["car"] = c /\ conv' ["fob"] = conv["fob"]
      /\ Devices = {"car", "fob"}
  BY <1>2 DEF IInv, TypeOK, Devices
<1>n. /\ Len(unlocks) \in Nat /\ DOMAIN unlocks = 1 .. Len(unlocks)
      /\ DOMAIN unlocks' = 1 .. Len(unlocks) + 1
      /\ \A j \in DOMAIN unlocks : unlocks'[j] = unlocks[j]
      /\ unlocks'[Len(unlocks) + 1] = u
  BY <1>2, HistoryType DEF IInv, TypeOK
<1>d. \A j \in DOMAIN unlocks' : j \in DOMAIN unlocks \/ j = Len(unlocks) + 1
  BY <1>n
<1>4. /\ <<c.cn, c.sn>> \in solved
      /\ \A j \in DOMAIN unlocks : unlocks[j].sn # c.sn
      /\ c.sn < fresh /\ c.cn < fresh
  BY <1>a, <1>2, <1>3
  DEF IInv, SolveIsGenuine, ByFob, OneUnlockPerChallenge, AllDrawn
<1>5. AllDrawn'
  <2>1. \A j \in DOMAIN unlocks' : unlocks'[j].sn < fresh'
    BY <1>2, <1>u, <1>n, <1>d, <1>4 DEF IInv, AllDrawn
  <2> QED  BY <1>a, <1>b, <1>2, <1>3, <1>4, <2>1 DEF IInv, AllDrawn
<1>6. OneSolvePerPress'
  BY <1>2, <1>3 DEF IInv, OneSolvePerPress
<1>7. SolveIsGenuine'
  BY <1>a, <1>3 DEF SolveIsGenuine
<1>8. OneUnlockPerChallenge'
  <2>1. \A j, k \in DOMAIN unlocks' : unlocks'[j].sn = unlocks'[k].sn => j = k
    BY <1>u, <1>n, <1>d, <1>4 DEF IInv, OneUnlockPerChallenge
  <2> QED  BY <1>a, <1>3, <2>1 DEF OneUnlockPerChallenge
<1>9. DataIsInstalled'
  BY <1>b, <1>2, <1>3 DEF IInv, DataIsInstalled
<1>10. UnlockAgreement'
  BY <1>2, <1>u, <1>n, <1>d, <1>4 DEF IInv, UnlockAgreement
<1>11. AnnouncedAreInstalled'
  <2>1. u.feats \subseteq block.data
    BY <1>2, <1>3, <1>u DEF CommandValid, IInv, DataIsInstalled
  <2> QED  BY <1>2, <1>n, <1>d, <2>1 DEF IInv, AnnouncedAreInstalled
<1> QED  BY <1>5, <1>6, <1>7, <1>8, <1>9, <1>10, <1>11 DEF IInv

-----------------------------------------------------------------------------
(* The actions that make no message of their own.                          *)
LEMMA OtherSteps ==
  ASSUME IInv, [Next]_vars, ~Press, ~CarHello, ~FobChall, ~CarSolve
  PROVE  /\ fresh <= fresh' /\ KeepsMessages /\ KeepsConversations
         /\ UNCHANGED history /\ block.data \subseteq block'.data
<1>t. /\ TypeOK' /\ fresh \in Nat
      /\ msg \in [Devices -> Message] /\ conv \in [Devices -> Conv]
      /\ \A d \in Devices : Peer(d) \in Devices /\ msg[d] \in Message
      /\ mode \in [Devices -> Modes]
      /\ Devices = {"car", "fob"} /\ Peer("car") = "fob" /\ Peer("fob") = "car"
  BY TypeStep DEF IInv, TypeOK, Devices, Peer
<1>c. NoConv.next = "none" /\ NoConv.cn = 0 /\ NoConv.sn = 0
  BY DEF NoConv
<1>r. \A f \in Nat : /\ ResetConv(f).next = "HELLO"
                     /\ ResetConv(f).cn = f /\ ResetConv(f).sn = f + 1
  BY ResetConvType
<1> DEFINE Framed == /\ fresh <= fresh' /\ KeepsMessages /\ KeepsConversations
                     /\ UNCHANGED history /\ block.data \subseteq block'.data
<1>6. ASSUME NEW d \in Devices, StartRead(d)  PROVE Framed
  BY <1>6, <1>t DEF StartRead, KeepsMessages, ByFob, KeepsConversations, history
<1>7. ASSUME NEW d \in Devices, FinishSend(d)  PROVE Framed
  BY <1>7, <1>t DEF FinishSend, KeepsMessages, ByFob, KeepsConversations, history
<1>8. ASSUME NEW d \in Devices, Reject(d)  PROVE Framed
  BY <1>8, <1>t, <1>r DEF Reject, BackToLoop, KeepsMessages, ByFob, KeepsConversations, history
<1>9. ASSUME NEW d \in Devices, HandlerRefuses(d)  PROVE Framed
  BY <1>9, <1>t DEF HandlerRefuses, BackToLoop, KeepsMessages, ByFob, KeepsConversations, history
<1>10. CASE FobEnd
  BY <1>10, <1>t DEF FobEnd, KeepsMessages, ByFob, KeepsConversations, history
<1>11. CASE Collide
  <2>1. PICK d \in Devices, after \in {"loop", "cut"} :
           /\ mode[d] = "send"
           /\ \/ /\ mode' = [e \in Devices |-> "loop"]
                 /\ msg' = [e \in Devices |-> Zeroed]
              \/ /\ mode' = [mode EXCEPT ![Peer(d)] = "loop", ![d] = after]
                 /\ msg' = [msg EXCEPT ![Peer(d)] = Zeroed,
                                       ![d] = IF after = "loop" THEN Zeroed ELSE @]
    BY <1>11 DEF Collide
  <2>2. UNCHANGED <<conv, block, fresh, history>>
    BY <1>11 DEF Collide
  <2>3. \A e \in Devices : /\ msg'[e] = Zeroed \/ msg'[e] = msg[e]
                           /\ ByFob(e)' => ByFob(e)
    <3>1. CASE d = "car"
      BY <2>1, <3>1, <1>t DEF ByFob
    <3>2. CASE d = "fob"
      BY <2>1, <3>2, <1>t DEF ByFob
    <3> QED  BY <3>1, <3>2, <1>t
  <2> QED  BY <2>2, <2>3, <1>t DEF KeepsMessages, KeepsConversations
<1>12. CASE HostAcks
  BY <1>12, <1>t, <1>r DEF HostAcks, BackToLoop, KeepsMessages, ByFob, KeepsConversations, history
<1>13. ASSUME NEW d \in Devices, FillTorn(d)  PROVE Framed
  <2>1. PICK m \in Completions(msg[d], fresh), after \in {"loop", "cut"} :
           /\ mode' = [mode EXCEPT ![d] = "parse", ![Peer(d)] = after]
           /\ msg' = [msg EXCEPT ![d] = m,
                                 ![Peer(d)] = IF after = "loop" THEN Zeroed ELSE @]
    BY <1>13 DEF FillTorn
  <2>2. Damaged(m, msg[d], fresh)
    BY <1>t, CompletionsDamage
  <2>3. /\ fresh' = fresh + 1 /\ UNCHANGED <<conv, block, history>>
        /\ mode[d] = "torn" /\ mode[Peer(d)] = "send"
    BY <1>13 DEF FillTorn
  <2>4. Peer(d) # d
    BY <1>t DEF Peer
  <2>5. KeepsMessages
    <3>1. msg'[d] = m /\ fresh < fresh'
      BY <2>1, <2>3, <2>4, <1>t
    <3>2. \A e \in Devices : e # d => msg'[e] = Zeroed \/ msg'[e] = msg[e]
      BY <2>1, <2>3, <1>t
    <3>3. \A e \in Devices : ByFob(e)' => ByFob(e)
      <4>1. CASE d = "car"
        BY <2>1, <2>3, <4>1, <1>t DEF ByFob
      <4>2. CASE d = "fob"
        BY <2>1, <2>3, <4>2, <1>t DEF ByFob
      <4> QED  BY <4>1, <4>2, <1>t
    <3> QED  BY <2>2, <3>1, <3>2, <3>3 DEF KeepsMessages
  <2> QED  BY <2>3, <2>5, <1>t DEF KeepsConversations
<1>14. ASSUME NEW d \in Devices, StarveTorn(d)  PROVE Framed
  BY <1>14, <1>t DEF StarveTorn, KeepsMessages, ByFob, KeepsConversations, history, Peer
<1>z. 0 < fresh
  BY <1>t DEF IInv, AllDrawn, TypeOK, Message
<1>p. ASSUME NEW d \in Devices, LosePower(d)
      PROVE  fresh' = fresh => KeepsMessages /\ KeepsConversations
  <2>1. /\ msg' = [msg EXCEPT ![d] = Zeroed] /\ conv' = [conv EXCEPT ![d] = NoConv]
    BY <1>p DEF LosePower
  <2>2. \E x \in {"cut", "torn", mode[Peer(d)]} :
           /\ mode' = [mode EXCEPT ![d] = "off", ![Peer(d)] = x]
           /\ x = "cut" => mode[Peer(d)] \in {"cut", "send"}
           /\ x = "torn" => mode[Peer(d)] \in {"torn", "read"}
    <3>1. CASE mode[Peer(d)] = "send"
      BY <1>p, <3>1, <1>t DEF LosePower
    <3>2. CASE mode[Peer(d)] = "read"
      BY <1>p, <3>2, <1>t DEF LosePower
    <3>3. CASE mode[Peer(d)] \notin {"send", "read"}
      BY <1>p, <3>3, <1>t DEF LosePower
    <3> QED  BY <3>1, <3>2, <3>3
  <2>3. \A e \in Devices : ByFob(e)' => ByFob(e)
    <3>1. CASE d = "car"
      BY <2>2, <3>1, <1>t DEF ByFob
    <3>2. CASE d = "fob"
      BY <2>2, <3>2, <1>t DEF ByFob
    <3> QED  BY <3>1, <3>2, <1>t
  <2>4. \A e \in Devices : msg'[e] = Zeroed \/ msg'[e] = msg[e]
    BY <2>1, <1>t
  <2>5. fresh' = fresh => KeepsConversations
    BY <2>1, <1>z, <1>t, <1>c DEF KeepsConversations
  <2> QED  BY <2>3, <2>4, <2>5, <1>t DEF KeepsMessages
<1>15. ASSUME NEW d \in Devices, PowerOff(d)  PROVE Framed
  BY <1>15, <1>p, <1>t DEF PowerOff, history
<1>16. ASSUME NEW d \in Devices, PowerOn(d)  PROVE Framed
  BY <1>16, <1>z, <1>t, <1>c, <1>r
  DEF PowerOn, KeepsMessages, ByFob, KeepsConversations, history
<1>17. ASSUME NEW d \in Devices, Garble(d)  PROVE Framed
  <2>1. PICK m \in Garblings(msg[d], fresh) : msg' = [msg EXCEPT ![d] = m]
    BY <1>17 DEF Garble
  <2>2. Damaged(m, msg[d], fresh)
    BY <1>t, GarblingsDamage
  <2>3. fresh' = fresh + 1 /\ UNCHANGED <<mode, conv, block, history>>
    BY <1>17 DEF Garble
  <2>4. KeepsMessages
    <3>1. msg'[d] = m /\ fresh < fresh' /\ \A e \in Devices : ByFob(e)' => ByFob(e)
      BY <2>1, <2>3, <1>t DEF ByFob
    <3>2. \A e \in Devices : e # d => msg'[e] = msg[e]
      BY <2>1, <1>t
    <3> QED  BY <2>2, <3>1, <3>2 DEF KeepsMessages
  <2> QED  BY <2>3, <2>4, <1>t DEF KeepsConversations
<1>18. ASSUME NEW d \in Devices, DropByte(d)  PROVE Framed
  <2>1. /\ UNCHANGED <<conv, block, fresh, history>>
        /\ \A e \in Devices : msg'[e] = Zeroed \/ msg'[e] = msg[e]
    BY <1>18, <1>t DEF DropByte, history
  <2>2. \E a \in {"loop", "cut"}, b \in {"torn", mode[Peer(d)]} :
           /\ mode' = [mode EXCEPT ![d] = a, ![Peer(d)] = b]
           /\ b = "torn" => mode[Peer(d)] \in {"torn", "read"}
           /\ mode[d] = "send"
    <3>1. CASE mode[Peer(d)] = "loop" /\ mode' = [mode EXCEPT ![d] = "cut"]
      BY <1>18, <3>1, <1>t DEF DropByte
    <3>2. CASE ~(mode[Peer(d)] = "loop" /\ mode' = [mode EXCEPT ![d] = "cut"])
      BY <1>18, <3>2 DEF DropByte
    <3> QED  BY <3>1, <3>2
  <2>3. \A e \in Devices : ByFob(e)' => ByFob(e)
    <3>1. CASE d = "car"
      BY <2>2, <3>1, <1>t DEF ByFob
    <3>2. CASE d = "fob"
      BY <2>2, <3>2, <1>t DEF ByFob
    <3> QED  BY <3>1, <3>2, <1>t
  <2> QED  BY <2>1, <2>3, <1>t DEF KeepsMessages, KeepsConversations
<1>19. ASSUME NEW x \in Features, UploadFeature(x)  PROVE Framed
  <2>1. block.data \subseteq block'.data
    BY <1>19 DEF UploadFeature, IInv, TypeOK, Command
  <2> QED  BY <1>19, <2>1, <1>t DEF UploadFeature, KeepsMessages, ByFob, KeepsConversations, history
<1>20. ASSUME NEW S \in SUBSET Features, UploadSig(S)  PROVE Framed
  <2>1. block.data \subseteq block'.data
    BY <1>20 DEF UploadSig, IInv, TypeOK, Command
  <2> QED  BY <1>20, <2>1, <1>t DEF UploadSig, KeepsMessages, ByFob, KeepsConversations, history
<1>21. CASE UNCHANGED vars
  BY <1>21, <1>t DEF vars, KeepsMessages, ByFob, KeepsConversations, history
<1>22. CASE FobPair
  BY <1>22, <1>t, <1>r DEF FobPair, Transmit, KeepsMessages, ByFob, KeepsConversations, history
<1>23. ASSUME NEW x \in Features, TearFeature(x)  PROVE Framed
  <2>1. block.data \subseteq block'.data
    BY <1>23 DEF TearFeature, IInv, TypeOK, Command
  <2> QED  BY <1>23, <2>1, <1>p, <1>t DEF TearFeature, history
<1>24. CASE TearSignature
  <2>1. block.data \subseteq block'.data
    BY <1>24 DEF TearSignature, IInv, TypeOK, Command
  <2> QED  BY <1>24, <2>1, <1>p, <1>t DEF TearSignature, history
<1> QED
  BY <1>6, <1>7, <1>8, <1>9, <1>10, <1>11, <1>12, <1>13,
     <1>14, <1>15, <1>16, <1>17, <1>18, <1>19, <1>20, <1>21, <1>22, <1>23, <1>24
  DEF Next, Parse

LEMMA InvStep == IInv /\ [Next]_vars => IInv'
<1> SUFFICES ASSUME IInv, [Next]_vars PROVE IInv'
  OBVIOUS
<1>t. TypeOK'
  BY TypeStep DEF IInv
<1> QED
  BY <1>t, PressStep, CarHelloStep, FobChallStep, CarSolveStep, OtherSteps, FrameStep

-----------------------------------------------------------------------------
(* IInv holds in every reachable state.                                    *)
THEOREM Invariance == Spec => []IInv
  BY InvInit, InvStep, PTL DEF Spec

(* One press opens the car at most once: reset_state, handle_hello and     *)
(* verify_message together tie every unlock to one press.  Two unlocks     *)
(* with one c_nonce are two answers to one press, hence one answer, hence  *)
(* one challenge, hence one unlock.                                        *)
THEOREM PressOpensOnce == Spec => []OneUnlockPerPress
<1>1. ASSUME IInv PROVE OneUnlockPerPress
  <2>0. \A i \in DOMAIN unlocks : unlocks[i].cn \in Nat /\ unlocks[i].sn \in Nat
    BY <1>1, HistoryType DEF IInv
  <2>1. \A i \in DOMAIN unlocks : <<unlocks[i].cn, unlocks[i].sn>> \in solved
    BY <1>1 DEF IInv, UnlockAgreement
  <2>2. \A i \in DOMAIN unlocks : unlocks[i].cn \in pressed
    BY <1>1, <2>0, <2>1 DEF IInv, OneSolvePerPress
  <2>3. ASSUME NEW i \in DOMAIN unlocks, NEW j \in DOMAIN unlocks,
               unlocks[i].cn = unlocks[j].cn
        PROVE  i = j
    <3> DEFINE p == <<unlocks[i].cn, unlocks[i].sn>>
               q == <<unlocks[j].cn, unlocks[j].sn>>
    <3>1. p \in solved /\ q \in solved /\ p[1] = q[1]
      BY <2>1, <2>3
    <3>2. p = q
      BY <1>1, <3>1 DEF IInv, OneSolvePerPress
    <3>3. unlocks[i].sn = unlocks[j].sn
      BY <3>2
    <3> QED  BY <1>1, <3>3 DEF IInv, OneUnlockPerChallenge
  <2> QED  BY <2>2, <2>3 DEF OneUnlockPerPress
<1> QED  BY <1>1, Invariance, PTL

(* The car opens only for a nonce pair under which the fob sent a SOLVE:   *)
(* what verify_message compares makes both sides agree on both nonces.     *)
THEOREM UnlocksAgree == Spec => []UnlockAgreement
<1>1. IInv => UnlockAgreement
  BY DEF IInv
<1> QED  BY <1>1, Invariance, PTL

(* The car announces no feature whose package was not installed on the     *)
(* fob: handle_solution's signature check, whatever the message suffered.  *)
THEOREM FeaturesAreInstalled == Spec => []AnnouncedAreInstalled
<1>1. IInv => AnnouncedAreInstalled
  BY DEF IInv
<1> QED  BY <1>1, Invariance, PTL

-----------------------------------------------------------------------------
(* Conversation implements UnlockService.                                  *)

LEMMA OpenedIsSequence ==
  ASSUME TypeOK
  PROVE  /\ Opened \in Seq([press: Nat, feats: SUBSET Features])
         /\ Len(Opened) = Len(unlocks)
         /\ DOMAIN Opened = DOMAIN unlocks
<1> DEFINE R == [cn: Nat, sn: Nat, feats: SUBSET Features]
           O == [press: Nat, feats: SUBSET Features]
<1>1. \A u \in R : [press |-> u.cn, feats |-> u.feats] \in O
  OBVIOUS
<1>2. unlocks \in Seq(R)
  BY DEF TypeOK
<1> HIDE DEF R, O
<1>3. /\ Len(unlocks) \in Nat /\ DOMAIN unlocks = 1 .. Len(unlocks)
      /\ \A i \in DOMAIN unlocks : unlocks[i] \in R
  BY <1>2
<1>4. Opened \in [1 .. Len(unlocks) -> O]
  BY <1>1, <1>3 DEF Opened
<1>5. Opened \in Seq(O) /\ Len(Opened) = Len(unlocks)
  BY <1>3, <1>4
<1> QED  BY <1>3, <1>4, <1>5 DEF O

LEMMA PressImplements == TypeOK /\ Press /\ IInv => Service!Press
<1> SUFFICES ASSUME TypeOK, Press, IInv PROVE Service!Press
  OBVIOUS
<1>1. /\ pressed' = pressed \cup {fresh}
      /\ UNCHANGED <<block, unlocks>>
  BY DEF Press
<1>2. fresh \notin pressed
  BY DEF IInv, AllDrawn, TypeOK
<1>3. UNCHANGED Opened
  BY <1>1 DEF Opened
<1> QED  BY <1>1, <1>2, <1>3 DEF Service!Press

LEMMA CarSolveImplements == IInv /\ IInv' /\ CarSolve /\ OneUnlockPerPress' => Service!Open
<1> SUFFICES ASSUME IInv, IInv', CarSolve, OneUnlockPerPress' PROVE Service!Open
  OBVIOUS
<1> DEFINE u == [cn |-> conv["car"].cn, sn |-> conv["car"].sn,
                 feats |-> msg["car"].cmd.flags]
           o == [press |-> u.cn, feats |-> u.feats]
           n == Len(unlocks)
<1>0. /\ conv["car"] \in Conv /\ msg["car"].cmd.flags \in SUBSET Features
  BY DEF IInv, TypeOK, Devices, Message, Command
<1>1. /\ unlocks' = Append(unlocks, [cn |-> Opening(conv["car"]).cn,
                    sn |-> Opening(conv["car"]).sn, feats |-> msg["car"].cmd.flags])
      /\ UNCHANGED <<block, pressed>>
  BY DEF CarSolve
<1>2. unlocks' = Append(unlocks, u)
  BY <1>0, <1>1, OpeningType
<1>u. u.cn \in Nat /\ u.feats \in SUBSET Features
  BY <1>0 DEF Conv
<1> HIDE DEF u
<1>3. /\ n \in Nat /\ DOMAIN unlocks = 1 .. n /\ DOMAIN unlocks' = 1 .. n + 1
      /\ \A i \in 1 .. n : unlocks'[i] = unlocks[i]
      /\ unlocks'[n + 1] = u
  BY <1>2, HistoryType DEF IInv, TypeOK
<1>4. u.cn \in pressed
  BY <1>1, <1>3 DEF OneUnlockPerPress
<1>5. \A i \in DOMAIN unlocks : unlocks[i].cn # u.cn
  <2> SUFFICES ASSUME NEW i \in 1 .. n, unlocks[i].cn = u.cn PROVE FALSE
    BY <1>3
  <2>1. i \in DOMAIN unlocks' /\ n + 1 \in DOMAIN unlocks' /\ i # n + 1
    BY <1>3
  <2>2. unlocks'[i].cn = unlocks'[n + 1].cn
    BY <1>3
  <2> QED  BY <2>1, <2>2 DEF OneUnlockPerPress
<1>6. u.feats \subseteq block.data
  BY <1>1, <1>3 DEF IInv, AnnouncedAreInstalled
<1>7. Opened' = Append(Opened, o)
  <2>1. Opened' = [i \in 1 .. n + 1 |-> [press |-> unlocks'[i].cn, feats |-> unlocks'[i].feats]]
    BY <1>3 DEF Opened
  <2>2. /\ Opened \in Seq([press: Nat, feats: SUBSET Features]) /\ Len(Opened) = n
        /\ o \in [press: Nat, feats: SUBSET Features]
    BY OpenedIsSequence, <1>u DEF IInv
  <2>3. \A i \in 1 .. n : Opened[i] = [press |-> unlocks[i].cn, feats |-> unlocks[i].feats]
    BY <1>3 DEF Opened
  <2>4. Append(Opened, o) = [i \in 1 .. n + 1 |-> IF i = n + 1 THEN o ELSE Opened[i]]
    BY <2>2, <1>3
  <2> QED  BY <2>1, <2>3, <2>4, <1>3
<1>8. \A i \in DOMAIN Opened : Opened[i].press # u.cn
  BY <1>5 DEF Opened
<1> QED  BY <1>1, <1>4, <1>6, <1>7, <1>8 DEF Service!Open

LEMMA StepImplements ==
    IInv /\ IInv' /\ OneUnlockPerPress' /\ [Next]_vars
        => [Service!Press \/ Service!Install \/ Service!Open]_Service!serviceVars
<1> SUFFICES ASSUME IInv, IInv', OneUnlockPerPress', [Next]_vars
             PROVE  \/ Service!Press \/ Service!Install \/ Service!Open
                    \/ UNCHANGED <<pressed, block.data, Opened>>
  BY DEF Service!serviceVars
<1>1. CASE Press
  BY <1>1, PressImplements DEF IInv
<1>2. CASE CarSolve
  BY <1>2, CarSolveImplements
<1>3. ASSUME NEW x \in Features, UploadFeature(x)
      PROVE  Service!Install
  <2>1. block'.data = block.data \cup {x} /\ UNCHANGED <<pressed, unlocks>>
    BY <1>3 DEF UploadFeature, history, IInv, TypeOK, Command
  <2>2. UNCHANGED Opened
    BY <2>1 DEF Opened
  <2> QED  BY <2>1, <2>2 DEF Service!Install
<1>4. ASSUME \/ \E S \in SUBSET Features : UploadSig(S)
             \/ \E x \in Features : TearFeature(x)
             \/ TearSignature
      PROVE  block'.data = block.data /\ UNCHANGED <<pressed, unlocks>>
  BY <1>4 DEF UploadSig, TearFeature, TearSignature, history, IInv, TypeOK, Command
<1>5. CASE UNCHANGED <<pressed, block, unlocks>>
  <2>1. UNCHANGED Opened
    BY <1>5 DEF Opened
  <2> QED  BY <1>5, <2>1
<1>6. ASSUME NEW d \in Devices,
             \/ StartRead(d) \/ FinishSend(d) \/ Reject(d) \/ HandlerRefuses(d)
             \/ FillTorn(d) \/ StarveTorn(d)
             \/ PowerOff(d) \/ PowerOn(d) \/ Garble(d) \/ DropByte(d)
      PROVE  UNCHANGED <<pressed, block, unlocks>>
  BY <1>6 DEF StartRead, FinishSend, Reject, HandlerRefuses, FillTorn, StarveTorn,
              PowerOff, PowerOn, Garble, DropByte, history
<1>7. ASSUME CarHello \/ FobPair \/ FobChall \/ FobEnd \/ Collide \/ HostAcks
      PROVE  UNCHANGED <<pressed, block, unlocks>>
  BY <1>7 DEF CarHello, FobPair, FobChall, FobEnd, Collide, HostAcks, history
<1>8. CASE block'.data = block.data /\ UNCHANGED <<pressed, unlocks>>
  <2>1. UNCHANGED Opened
    BY <1>8 DEF Opened
  <2> QED  BY <1>8, <2>1
<1>9. CASE UNCHANGED vars
  BY <1>5, <1>9 DEF vars
<1> QED
  BY <1>1, <1>2, <1>3, <1>4, <1>5, <1>6, <1>7, <1>8, <1>9 DEF Next, Parse

(* Conversation implements UnlockService: a press that draws a new nonce   *)
(* is a Press, handle_upload_feature an Install, handle_solution followed  *)
(* by gen_end an Open, and everything else the devices, the link, the      *)
(* power and the noise do is invisible to the owner.                       *)
THEOREM Refinement == Spec => ImplementsService
<1>1. Init => Service!Init
  <2> SUFFICES ASSUME Init PROVE Service!Init
    OBVIOUS
  <2>1. unlocks = <<>> /\ pressed = {} /\ block.data = {}
    BY DEF Init, NoCommand
  <2>2. DOMAIN unlocks = {}
    BY <2>1
  <2>3. Opened = <<>>
    BY <2>2 DEF Opened
  <2> QED  BY <2>1, <2>3 DEF Service!Init
<1>2. IInv /\ IInv' /\ OneUnlockPerPress' /\ [Next]_vars
          => [Service!Press \/ Service!Install \/ Service!Open]_Service!serviceVars
  BY StepImplements
<1> QED
  BY <1>1, <1>2, Invariance, PressOpensOnce, PTL
  DEF Spec, ImplementsService, Service!Spec

-----------------------------------------------------------------------------
(* The fob as committed: the endless loop at the end of its rand_init      *)
(* (fob/src/authentication.c:624) is where it stays whenever it has power. *)
FobSpins == mode["fob"] \in {"off", "spin"} /\ pressed = {}
NothingOpens == pressed = {} /\ unlocks = <<>>

LEMMA FobSpinsStep == SpinsInRandInit /\ TypeOK /\ FobSpins /\ [Next]_vars => FobSpins'
<1> SUFFICES ASSUME SpinsInRandInit, TypeOK, FobSpins, [Next]_vars PROVE FobSpins'
  OBVIOUS
<1>t. mode \in [Devices -> Modes] /\ Devices = {"car", "fob"} /\ Peer("car") = "fob" /\ Peer("fob") = "car"
  BY DEF TypeOK, Devices, Peer
<1>1. ~Press /\ ~FobPair /\ ~FobChall /\ ~FobEnd /\ ~Collide /\ ~HostAcks /\ ~TearSignature
  BY <1>t DEF FobSpins, Press, FobPair, FobChall, FobEnd, Collide, HostAcks, TearSignature
<1>2. \A d \in Devices : ~FinishSend(d) /\ ~FillTorn(d) /\ ~StarveTorn(d) /\ ~DropByte(d)
  BY <1>t DEF FobSpins, FinishSend, FillTorn, StarveTorn, DropByte
<1>3. \A d \in Devices : StartRead(d) \/ Reject(d) \/ HandlerRefuses(d) => FobSpins'
  BY <1>t DEF FobSpins, StartRead, Reject, HandlerRefuses, BackToLoop, history
<1>4. CarHello \/ CarSolve => FobSpins'
  BY <1>t DEF FobSpins, CarHello, CarSolve, Transmit, BackToLoop, history
<1>5. \A d \in Devices : PowerOff(d) => FobSpins'
  BY <1>t DEF FobSpins, PowerOff, LosePower, history
<1>6. \A d \in Devices : PowerOn(d) \/ Garble(d) => FobSpins'
  BY <1>t DEF FobSpins, PowerOn, Garble, history
<1>7. (\E x \in Features : UploadFeature(x) \/ TearFeature(x)) \/ (\E S \in SUBSET Features : UploadSig(S))
        \/ UNCHANGED vars => FobSpins'
  BY DEF FobSpins, UploadFeature, TearFeature, UploadSig, history, vars
<1> QED  BY <1>1, <1>2, <1>3, <1>4, <1>5, <1>6, <1>7 DEF Next, Parse

(* With it no press is ever served and no car is ever opened, whatever     *)
(* noise and power do: the fob never gets to main's loop.                  *)
THEOREM CommittedFobIsDead == SpinsInRandInit => (Spec => []NothingOpens)
<1>1. Init => FobSpins
  BY DEF Init, FobSpins, Devices
<1>2. TypeOK /\ FobSpins /\ OneUnlockPerPress => NothingOpens
  <2> SUFFICES ASSUME TypeOK, FobSpins, OneUnlockPerPress PROVE unlocks = <<>>
    BY DEF NothingOpens, FobSpins
  <2>1. DOMAIN unlocks = {}
    BY DEF FobSpins, OneUnlockPerPress
  <2>2. \A S : \A s \in Seq(S) : DOMAIN s = {} => s = <<>>
    OBVIOUS
  <2> QED  BY <2>1, <2>2 DEF TypeOK
<1>3. SUFFICES ASSUME SpinsInRandInit PROVE Spec => []NothingOpens
  OBVIOUS
<1>4. TypeOK /\ FobSpins /\ [Next]_vars => FobSpins'
  BY <1>3, FobSpinsStep
<1> QED  BY <1>1, <1>2, <1>4, TypeCorrect, PressOpensOnce, PTL DEF Spec

=============================================================================
