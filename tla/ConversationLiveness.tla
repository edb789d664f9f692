------------------------ MODULE ConversationLiveness ------------------------
(***************************************************************************)
(* What the conversation comes to, for any set of features and any bounds: *)
(* the second of two undisturbed presses opens the car, the devices are    *)
(* idle again when the button is left alone, and what happens only because *)
(* power was cut or noise hit a message.                                   *)
(*                                                                         *)
(* ENABLED is not among the things the provers know, so weak fairness is   *)
(* written here with the guard of each action in its place; a guard is     *)
(* true exactly when a step of its action is possible.                     *)
(***************************************************************************)
EXTENDS ConversationProofs

-----------------------------------------------------------------------------
(* The places of an exchange.                                              *)
At(c, f) == mode["car"] = c /\ mode["fob"] = f

FobAsks == conv["fob"].next = "CHALL"
CarAsks == conv["car"].next = "SOLVE" /\ conv["car"].cn = conv["fob"].cn
FobAnswers ==
    /\ CarAsks /\ conv["fob"].next = "END"
    /\ conv["fob"].sn = conv["car"].sn /\ conv["fob"].chalResp = conv["car"].chal

(* A device's message is being sent, read, or handled; d has it.           *)
HelloAt(c, f, d) == At(c, f) /\ FobAsks /\ msg[d] = GenHello(conv["fob"])
ChallAt(c, f, d) == At(c, f) /\ FobAsks /\ CarAsks /\ msg[d] = GenChall(conv["car"])
SolveAt(c, f, d) == At(c, f) /\ FobAnswers /\ msg[d] = GenSolution(conv["fob"])

(* A press counted in tries leads through these places; a car that was     *)
(* still waiting for a SOLVE is back at HELLO when the second one begins.  *)
Trying ==
    /\ CommandValid(block)
    /\ \/ tries = 1 /\ Quiet /\ conv["car"].next = "HELLO"
       \/ /\ tries = 2 => conv["car"].next = "HELLO"
          /\ HelloAt("loop", "send", "fob") \/ HelloAt("read", "send", "car")
             \/ HelloAt("parse", "loop", "car")
       \/ ChallAt("send", "loop", "car")
       \/ ChallAt("send", "read", "fob")
       \/ ChallAt("loop", "parse", "fob")
       \/ SolveAt("loop", "send", "fob")
       \/ SolveAt("read", "send", "car")
       \/ SolveAt("parse", "loop", "car")

(* What is left of the bounds; tries counts presses.                       *)
Counts ==
    /\ budget["press"] <= MaxPress
    /\ budget["power"] <= MaxPowerOff /\ budget["noise"] <= MaxNoise
    /\ tries = Dirty \/ (tries \in 0 .. 2 /\ tries + budget["press"] <= MaxPress)

(* What the car waits for; it never has a response of its own.             *)
CarWaits ==
    /\ mode["car"] # "off" => conv["car"].next \in {"HELLO", "SOLVE"}
    /\ conv["car"].chalResp = 0
    /\ conv["car"].next = "SOLVE" => conv["car"].chal # 0

InTry == tries \in {1, 2} /\ tries # Dirty
TryInv == Counts /\ CarWaits /\ (InTry => Trying)

-----------------------------------------------------------------------------
(* Which steps are possible when nothing is torn or cut.                   *)
Disturb ==
    \/ \E d \in Devices : PowerOff(d) \/ Garble(d) \/ DropByte(d)
    \/ \E x \in Features : TearFeature(x)
    \/ TearSignature
Upload == (\E x \in Features : UploadFeature(x)) \/ (\E S \in SUBSET Features : UploadSig(S))

LEMMA StepAt ==
  ASSUME TypeOK, [Next]_vars
  PROVE  /\ At("loop", "loop") => Press \/ Upload \/ Disturb \/ UNCHANGED vars
         /\ At("loop", "send") => StartRead("car") \/ Disturb \/ UNCHANGED vars
         /\ At("read", "send") => FinishSend("fob") \/ Disturb \/ UNCHANGED vars
         /\ At("parse", "loop") => Parse("car") \/ Press \/ Upload \/ Disturb \/ UNCHANGED vars
         /\ At("send", "loop") => StartRead("fob") \/ Press \/ Upload \/ Disturb \/ UNCHANGED vars
         /\ At("send", "read") => FinishSend("car") \/ Disturb \/ UNCHANGED vars
         /\ At("loop", "parse") => Parse("fob") \/ Disturb \/ UNCHANGED vars
         /\ At("send", "send") => Collide \/ Disturb \/ UNCHANGED vars
         /\ At("parse", "send") => Parse("car") \/ Disturb \/ UNCHANGED vars
<1> DEFINE Calm == /\ mode["car"] \in {"loop", "read", "parse", "send"}
                   /\ mode["fob"] \in {"loop", "read", "parse", "send"}
<1>1. Press => mode["fob"] = "loop"
  BY DEF Press
<1>2. /\ StartRead("car") => mode["car"] = "loop" /\ mode["fob"] = "send"
      /\ StartRead("fob") => mode["fob"] = "loop" /\ mode["car"] = "send"
      /\ FinishSend("car") => mode["car"] = "send" /\ mode["fob"] = "read"
      /\ FinishSend("fob") => mode["fob"] = "send" /\ mode["car"] = "read"
  BY DEF StartRead, FinishSend, Peer
<1>3. /\ Parse("car") => mode["car"] = "parse"
      /\ Parse("fob") => mode["fob"] = "parse"
  BY DEF Parse, Reject, HandlerRefuses, CarHello, CarSolve, FobPair, FobChall, FobEnd
<1>4. Collide => \/ mode["car"] = "send" /\ mode["fob"] \in {"send", "cut"}
                 \/ mode["fob"] = "send" /\ mode["car"] \in {"send", "cut"}
  BY DEF Collide, Devices, Peer
<1>5. HostAcks => mode["fob"] = "host"
  BY DEF HostAcks
<1>6. ASSUME NEW d \in Devices, FillTorn(d) \/ StarveTorn(d) PROVE mode[d] = "torn"
  BY <1>6 DEF FillTorn, StarveTorn
<1>7. ASSUME NEW d \in Devices, PowerOn(d) PROVE mode[d] = "off"
  BY <1>7 DEF PowerOn
<1>8. Upload => mode["fob"] = "loop"
  BY DEF Upload, UploadFeature, UploadSig
<1>9. \/ Press \/ StartRead("car") \/ StartRead("fob") \/ FinishSend("car") \/ FinishSend("fob")
      \/ Parse("car") \/ Parse("fob") \/ Collide \/ HostAcks
      \/ (\E d \in Devices : FillTorn(d) \/ StarveTorn(d)) \/ (\E d \in Devices : PowerOn(d))
      \/ Disturb \/ Upload \/ UNCHANGED vars
  BY DEF Next, Devices, Disturb, Upload
<1>10. Calm => Press \/ StartRead("car") \/ StartRead("fob") \/ FinishSend("car") \/ FinishSend("fob")
               \/ Parse("car") \/ Parse("fob") \/ Collide \/ Disturb \/ Upload \/ UNCHANGED vars
  BY <1>5, <1>6, <1>7, <1>9 DEF Devices
<1> HIDE DEF Calm
<1>11. \A c, f \in {"loop", "read", "parse", "send"} : At(c, f) => Calm
  BY DEF At, Calm
<1> QED
  BY <1>1, <1>2, <1>3, <1>4, <1>8, <1>10, <1>11 DEF At

LEMMA Disturbs ==
  ASSUME TypeOK, Counts
  PROVE  /\ Disturb => tries' = Dirty /\ Disturbed'
         /\ Upload => tries' = Dirty
         /\ Press /\ ~Quiet => tries' = Dirty
<1>1. ASSUME NEW d \in Devices, LosePower(d) PROVE tries' = Dirty /\ Disturbed'
  <2>1. Spend("power") /\ tries' = Dirty
    BY <1>1 DEF LosePower
  <2> QED  BY <2>1, ConstantsAssumption DEF Spend, Disturbed, Counts, TypeOK, Limited
<1>2. ASSUME NEW d \in Devices, Garble(d) \/ DropByte(d) PROVE tries' = Dirty /\ Disturbed'
  <2>1. Spend("noise") /\ tries' = Dirty
    BY <1>2 DEF Garble, DropByte
  <2> QED  BY <2>1, ConstantsAssumption DEF Spend, Disturbed, Counts, TypeOK, Limited
<1>3. (\E d \in Devices : PowerOff(d)) \/ (\E x \in Features : TearFeature(x)) \/ TearSignature
         => \E d \in Devices : LosePower(d)
  BY DEF PowerOff, TearFeature, TearSignature, Devices
<1> QED
  BY <1>1, <1>2, <1>3 DEF Disturb, Upload, UploadFeature, UploadSig, Press

-----------------------------------------------------------------------------
(* The messages of an exchange pass verify_message and their handlers.     *)
LEMMA NewMessageFields ==
  ASSUME NEW d \in Devices, NEW magic \in Magics, NEW c \in Conv
  PROVE  /\ NewMessage(d, magic, c).target = Peer(d)
         /\ NewMessage(d, magic, c).size = "zero" /\ NewMessage(d, magic, c).mac = "none"
  BY DEF NewMessage, Zeroed

LEMMA GenFields ==
  ASSUME NEW c \in Conv, block \in Command
  PROVE  /\ GenHello(c).target = "car" /\ GenHello(c).size = "exact" /\ GenHello(c).mac = "good"
         /\ GenChall(c).target = "fob" /\ GenChall(c).size = "exact" /\ GenChall(c).mac = "good"
         /\ GenChall(c).chal = c.chal
         /\ GenSolution(c).target = "car" /\ GenSolution(c).size = "exact"
         /\ GenSolution(c).mac = "good" /\ GenSolution(c).resp = Solution(c)
         /\ GenEnd(c).size = "zero"
  BY DEF GenHello, GenChall, GenSolution, GenEnd, Signed, NewMessage, Zeroed, Peer

LEMMA HelloVerifies ==
  ASSUME TypeOK, msg["car"] = GenHello(conv["fob"])
  PROVE  /\ VerifyMessage("car", msg["car"]) <=> conv["car"].next = "HELLO"
         /\ msg["car"].magic = "HELLO" /\ msg["car"].size = "exact"
         /\ msg["car"].cn = conv["fob"].cn
<1>1. conv["fob"] \in Conv /\ block \in Command
  BY DEF TypeOK, Devices
<1> QED  BY <1>1, GenHelloType, GenFields DEF VerifyMessage, MacAccepted

LEMMA ChallVerifies ==
  ASSUME TypeOK, FobAsks, CarAsks, msg["fob"] = GenChall(conv["car"])
  PROVE  /\ VerifyMessage("fob", msg["fob"])
         /\ msg["fob"].magic = "CHALL" /\ msg["fob"].size = "exact"
         /\ msg["fob"].sn = conv["car"].sn /\ msg["fob"].chal = conv["car"].chal
<1>1. conv["car"] \in Conv /\ block \in Command
  BY DEF TypeOK, Devices
<1> QED  BY <1>1, GenChallType, GenFields DEF VerifyMessage, MacAccepted, FobAsks, CarAsks

LEMMA SolveVerifies ==
  ASSUME TypeOK, FobAnswers, CarWaits, CommandValid(block), msg["car"] = GenSolution(conv["fob"])
  PROVE  /\ VerifyMessage("car", msg["car"])
         /\ msg["car"].magic = "SOLVE"
         /\ SolutionAccepted(conv["car"], msg["car"])
<1>1. conv["fob"] \in Conv /\ conv["car"] \in Conv /\ block \in Command
  BY DEF TypeOK, Devices
<1>2. /\ msg["car"].target = "car" /\ msg["car"].size = "exact" /\ msg["car"].mac = "good"
      /\ msg["car"].resp = Solution(conv["fob"]) /\ msg["car"].magic = "SOLVE"
      /\ msg["car"].cn = conv["fob"].cn /\ msg["car"].sn = conv["fob"].sn
      /\ msg["car"].cmd = block
  BY <1>1, GenSolutionType, GenFields
<1>3. conv["fob"].chalResp # conv["car"].chalResp
  BY DEF FobAnswers, CarAsks, CarWaits
<1>4. Solution(conv["fob"]) # Solution(conv["car"])
  BY <1>3 DEF Solution
<1> QED
  BY <1>2, <1>4 DEF VerifyMessage, MacAccepted, FobAnswers, CarAsks, SolutionAccepted

-----------------------------------------------------------------------------
(* From place to place.                                                    *)
LEMMA Reads ==
  ASSUME TypeOK
  PROVE  /\ HelloAt("loop", "send", "fob") /\ StartRead("car")
              => HelloAt("read", "send", "car")' /\ UNCHANGED <<conv, block, tries>>
         /\ ChallAt("send", "loop", "car") /\ StartRead("fob")
              => ChallAt("send", "read", "fob")' /\ UNCHANGED <<conv, block, tries>>
         /\ SolveAt("loop", "send", "fob") /\ StartRead("car")
              => SolveAt("read", "send", "car")' /\ UNCHANGED <<conv, block, tries>>
<1>1. ASSUME NEW d \in Devices, StartRead(d)
      PROVE  /\ mode'[d] = "read" /\ mode'[Peer(d)] = mode[Peer(d)]
             /\ msg'[d] = msg[Peer(d)] /\ UNCHANGED <<conv, block, tries>>
  BY <1>1 DEF StartRead, TypeOK, history, Devices, Peer
<1>2. StartRead("car") => /\ mode'["car"] = "read" /\ mode'["fob"] = mode["fob"]
                          /\ msg'["car"] = msg["fob"] /\ UNCHANGED <<conv, block, tries>>
  BY <1>1 DEF Devices, Peer
<1>3. StartRead("fob") => /\ mode'["fob"] = "read" /\ mode'["car"] = mode["car"]
                          /\ msg'["fob"] = msg["car"] /\ UNCHANGED <<conv, block, tries>>
  BY <1>1 DEF Devices, Peer
<1>4. UNCHANGED <<conv, block, tries>>
        => /\ UNCHANGED <<FobAsks, CarAsks, FobAnswers>>
           /\ \A c : UNCHANGED <<GenHello(c), GenChall(c), GenSolution(c)>>
  BY DEF FobAsks, CarAsks, FobAnswers, GenHello, GenChall, GenSolution
<1> QED
  BY <1>2, <1>3, <1>4 DEF HelloAt, ChallAt, SolveAt, At

LEMMA Arrivals ==
  ASSUME TypeOK
  PROVE  /\ HelloAt("read", "send", "car") /\ FinishSend("fob")
              => HelloAt("parse", "loop", "car")' /\ UNCHANGED <<conv, block, tries>>
         /\ ChallAt("send", "read", "fob") /\ FinishSend("car")
              => ChallAt("loop", "parse", "fob")' /\ UNCHANGED <<conv, block, tries>>
         /\ SolveAt("read", "send", "car") /\ FinishSend("fob")
              => SolveAt("parse", "loop", "car")' /\ UNCHANGED <<conv, block, tries>>
<1>1. ASSUME NEW d \in Devices, FinishSend(d)
      PROVE  /\ mode'[d] = "loop" /\ mode'[Peer(d)] = "parse"
             /\ msg'[Peer(d)] = msg[Peer(d)] /\ UNCHANGED <<conv, block, tries>>
  BY <1>1 DEF FinishSend, TypeOK, history, Devices, Peer
<1>2. FinishSend("car") => /\ mode'["car"] = "loop" /\ mode'["fob"] = "parse"
                           /\ msg'["fob"] = msg["fob"] /\ UNCHANGED <<conv, block, tries>>
  BY <1>1 DEF Devices, Peer
<1>3. FinishSend("fob") => /\ mode'["fob"] = "loop" /\ mode'["car"] = "parse"
                           /\ msg'["car"] = msg["car"] /\ UNCHANGED <<conv, block, tries>>
  BY <1>1 DEF Devices, Peer
<1>4. UNCHANGED <<conv, block, tries>>
        => /\ UNCHANGED <<FobAsks, CarAsks, FobAnswers>>
           /\ \A c : UNCHANGED <<GenHello(c), GenChall(c), GenSolution(c)>>
  BY DEF FobAsks, CarAsks, FobAnswers, GenHello, GenChall, GenSolution
<1> QED
  BY <1>2, <1>3, <1>4 DEF HelloAt, ChallAt, SolveAt, At

LEMMA HelloParsed ==
  ASSUME TypeOK, CarWaits, HelloAt("parse", "loop", "car"), Parse("car")
  PROVE  /\ UNCHANGED <<block, tries>>
         /\ conv["car"].next = "HELLO" => ChallAt("send", "loop", "car")'
         /\ conv["car"].next # "HELLO" => Quiet' /\ conv'["car"].next = "HELLO"
<1>m. /\ VerifyMessage("car", msg["car"]) <=> conv["car"].next = "HELLO"
      /\ msg["car"].magic = "HELLO" /\ msg["car"].size = "exact"
      /\ msg["car"].cn = conv["fob"].cn
  BY HelloVerifies DEF HelloAt
<1>t. /\ conv \in [Devices -> Conv] /\ mode \in [Devices -> Modes]
      /\ msg \in [Devices -> Message] /\ fresh \in Nat
  BY DEF TypeOK
<1>a. mode["fob"] = "loop" /\ FobAsks
  BY DEF HelloAt, At
<1>1. CASE conv["car"].next = "HELLO"
  <2> DEFINE c == Challenging(conv["car"], msg["car"], fresh)
  <2>1. CarHello
    BY <1>1, <1>m DEF Parse, Reject, HandlerRefuses, Accepts, Cases, CarSolve
  <2>2. Transmit("car", GenChall(c), c) /\ UNCHANGED <<block, tries>>
    BY <2>1 DEF CarHello, history
  <2>3. c.next = "SOLVE" /\ c.cn = conv["fob"].cn
    BY <1>t, <1>m, ChallengingType DEF Devices
  <2> HIDE DEF c
  <2>4. /\ mode'["car"] = "send" /\ mode'["fob"] = "loop"
        /\ conv'["car"] = c /\ conv'["fob"] = conv["fob"]
        /\ msg'["car"] = GenChall(c)
    BY <2>2, <1>t, <1>a DEF Transmit, Devices, Peer
  <2>5. (msg["car"] = GenChall(conv["car"]))'
    BY <2>4 DEF GenChall
  <2> QED
    BY <1>1, <1>a, <2>2, <2>3, <2>4, <2>5 DEF ChallAt, At, FobAsks, CarAsks
<1>2. CASE conv["car"].next # "HELLO"
  <2>1. Reject("car")
    BY <1>2, <1>m DEF Parse, HandlerRefuses, Accepts, CarHello, CarSolve
  <2>2. BackToLoop("car", ResetConv(fresh)) /\ UNCHANGED <<block, tries>>
    BY <2>1 DEF Reject, history
  <2>3. /\ mode'["car"] = "loop" /\ mode'["fob"] = "loop"
        /\ conv'["car"] = ResetConv(fresh)
    BY <2>2, <1>t, <1>a DEF BackToLoop, Devices
  <2> QED  BY <1>2, <1>t, <2>2, <2>3, ResetConvType DEF Quiet, Devices
<1> QED  BY <1>1, <1>2

LEMMA ChallParsed ==
  ASSUME TypeOK, ChallAt("loop", "parse", "fob"), Parse("fob")
  PROVE  UNCHANGED <<block, tries>> /\ SolveAt("loop", "send", "fob")'
<1>m. /\ VerifyMessage("fob", msg["fob"])
      /\ msg["fob"].magic = "CHALL" /\ msg["fob"].size = "exact"
      /\ msg["fob"].sn = conv["car"].sn /\ msg["fob"].chal = conv["car"].chal
  BY ChallVerifies DEF ChallAt
<1>t. /\ conv \in [Devices -> Conv] /\ mode \in [Devices -> Modes]
      /\ msg \in [Devices -> Message]
  BY DEF TypeOK
<1>a. mode["car"] = "loop" /\ CarAsks
  BY DEF ChallAt, At
<1> DEFINE c == Solving(conv["fob"], msg["fob"])
<1>1. FobChall
  BY <1>m DEF Parse, Reject, HandlerRefuses, Accepts, Cases, IsPairRequest, FobPair, FobEnd
<1>2. Transmit("fob", GenSolution(c), c) /\ UNCHANGED <<block, tries>>
  BY <1>1 DEF FobChall
<1>3. /\ c.next = "END" /\ c.cn = conv["fob"].cn /\ c.sn = conv["car"].sn
      /\ c.chalResp = conv["car"].chal
  BY <1>t, <1>m, SolvingType DEF Devices, Solving, Conv
<1> HIDE DEF c
<1>4. /\ mode'["fob"] = "send" /\ mode'["car"] = "loop"
      /\ conv'["fob"] = c /\ conv'["car"] = conv["car"]
      /\ msg'["fob"] = GenSolution(c)
  BY <1>2, <1>t, <1>a DEF Transmit, Devices, Peer
<1>5. (msg["fob"] = GenSolution(conv["fob"]))'
  BY <1>2, <1>4 DEF GenSolution
<1> QED
  BY <1>a, <1>2, <1>3, <1>4, <1>5 DEF SolveAt, At, FobAnswers, CarAsks

LEMMA SolveParsed ==
  ASSUME TypeOK, CarWaits, CommandValid(block), SolveAt("parse", "loop", "car"), Parse("car")
  PROVE  tries' = 0
<1>m. /\ VerifyMessage("car", msg["car"]) /\ msg["car"].magic = "SOLVE"
      /\ SolutionAccepted(conv["car"], msg["car"])
  BY SolveVerifies DEF SolveAt
<1>1. CarSolve
  BY <1>m DEF Parse, Reject, HandlerRefuses, Accepts, Cases, CarHello
<1> QED  BY <1>1 DEF CarSolve

LEMMA PressBegins ==
  ASSUME TypeOK, TryInv, Press, InTry'
  PROVE  Trying'
<1>t. /\ conv \in [Devices -> Conv] /\ mode \in [Devices -> Modes]
      /\ msg \in [Devices -> Message] /\ fresh \in Nat
  BY DEF TypeOK
<1>1. /\ Transmit("fob", GenHello(Asking(fresh)), Asking(fresh)) /\ UNCHANGED block
      /\ tries' = IF Quiet /\ CommandValid(block)
                  THEN IF tries = Dirty THEN 1 ELSE tries + 1 ELSE Dirty
  BY DEF Press
<1>2. Quiet /\ CommandValid(block) /\ tries' = IF tries = Dirty THEN 1 ELSE tries + 1
  BY <1>1 DEF InTry, Dirty
<1>3. mode["car"] = "loop" /\ mode["fob"] = "loop"
  BY <1>2 DEF Quiet, Devices
<1>4. /\ mode'["fob"] = "send" /\ mode'["car"] = "loop"
      /\ conv'["fob"] = Asking(fresh) /\ conv'["car"] = conv["car"]
      /\ msg'["fob"] = GenHello(Asking(fresh))
  BY <1>1, <1>3, <1>t DEF Transmit, Devices, Peer
<1>5. HelloAt("loop", "send", "fob")'
  <2>1. FobAsks'
    BY <1>4, <1>t, AskingType DEF FobAsks
  <2>2. (msg["fob"] = GenHello(conv["fob"]))'
    BY <1>4 DEF GenHello
  <2> QED  BY <1>4, <2>1, <2>2 DEF HelloAt, At
<1>6. tries' = 2 => conv'["car"].next = "HELLO"
  <2> SUFFICES ASSUME tries' = 2 PROVE conv["car"].next = "HELLO"
    BY <1>4
  <2>1. tries = 1 /\ tries # Dirty
    BY <1>2 DEF TypeOK
  <2>2. Trying
    BY <2>1 DEF TryInv, InTry
  <2> QED
    BY <1>3, <2>1, <2>2 DEF Trying, HelloAt, ChallAt, SolveAt, At
<1> QED
  BY <1>1, <1>2, <1>5, <1>6 DEF Trying, CommandValid

(* A step from one place of the exchange leads to the same one, to the     *)
(* next, back to idle after a first press, or out of it.                   *)
LEMMA TryingGoesOn ==
  ASSUME TypeOK, TryInv, InTry, [Next]_vars
  PROVE  tries' \in {0, Dirty} \/ Press \/ Trying'
<1>1. Trying
  BY DEF TryInv
<1>2. UNCHANGED vars => Trying'
  BY <1>1 DEF vars, Trying, HelloAt, ChallAt, SolveAt, At, FobAsks, CarAsks, FobAnswers, Quiet,
              CommandValid, GenHello, GenChall, GenSolution
<1>3. Disturb \/ Upload => tries' = Dirty
  BY Disturbs DEF TryInv
<1>4. CASE Quiet
  BY <1>2, <1>3, <1>4, StepAt DEF Quiet, At, Devices
<1>5. CASE HelloAt("loop", "send", "fob") /\ (tries = 2 => conv["car"].next = "HELLO")
  BY <1>1, <1>2, <1>3, <1>5, StepAt, Reads DEF HelloAt, Trying, CommandValid
<1>6. CASE HelloAt("read", "send", "car") /\ (tries = 2 => conv["car"].next = "HELLO")
  BY <1>1, <1>2, <1>3, <1>6, StepAt, Arrivals DEF HelloAt, Trying, CommandValid
<1>7. CASE HelloAt("parse", "loop", "car") /\ (tries = 2 => conv["car"].next = "HELLO")
  <2>1. Parse("car") => Trying'
    <3> SUFFICES ASSUME Parse("car") PROVE Trying'
      OBVIOUS
    <3>1. /\ UNCHANGED <<block, tries>>
          /\ conv["car"].next = "HELLO" => ChallAt("send", "loop", "car")'
          /\ conv["car"].next # "HELLO" => Quiet' /\ conv'["car"].next = "HELLO"
      BY <1>7, HelloParsed DEF TryInv
    <3> QED  BY <1>1, <1>7, <3>1 DEF Trying, CommandValid, InTry
  <2> QED  BY <1>2, <1>3, <1>7, <2>1, StepAt DEF HelloAt
<1>8. CASE ChallAt("send", "loop", "car")
  BY <1>1, <1>2, <1>3, <1>8, StepAt, Reads DEF ChallAt, Trying, CommandValid
<1>9. CASE ChallAt("send", "read", "fob")
  BY <1>1, <1>2, <1>3, <1>9, StepAt, Arrivals DEF ChallAt, Trying, CommandValid
<1>10. CASE ChallAt("loop", "parse", "fob")
  BY <1>1, <1>2, <1>3, <1>10, StepAt, ChallParsed DEF ChallAt, Trying, CommandValid
<1>11. CASE SolveAt("loop", "send", "fob")
  BY <1>1, <1>2, <1>3, <1>11, StepAt, Reads DEF SolveAt, Trying, CommandValid
<1>12. CASE SolveAt("read", "send", "car")
  BY <1>1, <1>2, <1>3, <1>12, StepAt, Arrivals DEF SolveAt, Trying, CommandValid
<1>13. CASE SolveAt("parse", "loop", "car")
  BY <1>1, <1>2, <1>3, <1>13, StepAt, SolveParsed DEF SolveAt, Trying, TryInv
<1> QED
  BY <1>1, <1>4, <1>5, <1>6, <1>7, <1>8, <1>9, <1>10, <1>11, <1>12, <1>13 DEF Trying

LEMMA CountsStep ==
  ASSUME TypeOK, TryInv, [Next]_vars
  PROVE  Counts'
<1>t. /\ \A w \in Limited : budget[w] \in Nat
      /\ MaxPress \in Nat /\ MaxPowerOff \in Nat /\ MaxNoise \in Nat
      /\ {"press", "power", "noise", "upload"} \subseteq Limited
  BY ConstantsAssumption DEF TypeOK, Limited
<1>1. ASSUME NEW w \in Limited, Spend(w)
      PROVE  budget'[w] = budget[w] - 1 /\ \A v \in Limited \ {w} : budget'[v] = budget[v]
  BY <1>1 DEF Spend, TypeOK
<1>2. CASE Press
  <2>1. /\ budget["press"] > 0 /\ budget'["press"] = budget["press"] - 1
        /\ budget'["power"] = budget["power"] /\ budget'["noise"] = budget["noise"]
    BY <1>1, <1>2, <1>t DEF Press, Spend
  <2>2. tries' = IF Quiet /\ CommandValid(block)
                 THEN IF tries = Dirty THEN 1 ELSE tries + 1 ELSE Dirty
    BY <1>2 DEF Press
  <2>3. Quiet /\ tries # Dirty => tries \in 0 .. 1
    <3> SUFFICES ASSUME Quiet, tries # Dirty, tries = 2 PROVE FALSE
      BY DEF TryInv, Counts
    <3>1. Trying
      BY DEF TryInv, InTry
    <3> QED
      BY <3>1 DEF Trying, HelloAt, ChallAt, SolveAt, At, Quiet, Devices
  <2> QED
    BY <1>t, <2>1, <2>2, <2>3 DEF TryInv, Counts, Dirty
<1>3. CASE CarSolve
  <2>1. tries' = 0 /\ UNCHANGED budget
    BY <1>3 DEF CarSolve
  <2> QED  BY <1>t, <2>1 DEF TryInv, Counts
<1>4. CASE Disturb \/ Upload
  <2>1. tries' = Dirty
    BY <1>4, Disturbs DEF TryInv
  <2>2. \E w \in Limited \ {"press"} : Spend(w)
    BY <1>4, <1>t DEF Disturb, Upload, PowerOff, LosePower, Garble, DropByte, TearFeature,
                      TearSignature, UploadFeature, UploadSig
  <2>3. /\ budget'["press"] = budget["press"]
        /\ budget'["power"] <= budget["power"] /\ budget'["noise"] <= budget["noise"]
    BY <1>1, <1>t, <2>2
  <2>4. budget'["power"] \in Nat /\ budget'["noise"] \in Nat
    BY <1>t, TypeStep DEF TypeOK
  <2> QED  BY <1>t, <2>1, <2>3, <2>4 DEF TryInv, Counts
<1>5. CASE UNCHANGED <<budget, tries>>
  BY <1>5 DEF TryInv, Counts, Dirty
<1>6. ASSUME NEW d \in Devices,
             StartRead(d) \/ FinishSend(d) \/ Reject(d) \/ HandlerRefuses(d)
             \/ FillTorn(d) \/ StarveTorn(d) \/ PowerOn(d)
      PROVE  UNCHANGED <<budget, tries>>
  BY <1>6 DEF StartRead, FinishSend, Reject, HandlerRefuses, FillTorn, StarveTorn, PowerOn
<1>7. ASSUME CarHello \/ FobPair \/ FobChall \/ FobEnd \/ Collide \/ HostAcks \/ UNCHANGED vars
      PROVE  UNCHANGED <<budget, tries>>
  BY <1>7 DEF CarHello, FobPair, FobChall, FobEnd, Collide, HostAcks, vars
<1> QED
  BY <1>2, <1>3, <1>4, <1>5, <1>6, <1>7 DEF Next, Parse, Disturb, Upload

LEMMA CarWaitsStep ==
  ASSUME TypeOK, TryInv, [Next]_vars
  PROVE  CarWaits'
<1>t. /\ conv \in [Devices -> Conv] /\ mode \in [Devices -> Modes]
      /\ msg \in [Devices -> Message] /\ fresh \in Nat
      /\ "car" \in Devices /\ "fob" \in Devices
  BY DEF TypeOK, Devices
<1>1. CASE /\ conv'["car"] = conv["car"]
           /\ mode["car"] = "off" => mode'["car"] = "off"
  BY <1>1 DEF TryInv, CarWaits
<1>2. CASE conv'["car"] \in {ResetConv(fresh), ResetConv(fresh + 2)}
  BY <1>2 DEF CarWaits, ResetConv
<1>3. CASE CarHello
  <2>1. conv'["car"] = Challenging(conv["car"], msg["car"], fresh)
    BY <1>3, <1>t DEF CarHello, Transmit
  <2>2. /\ conv'["car"].next = "SOLVE" /\ conv'["car"].chal = fresh + 1
        /\ conv'["car"].chalResp = conv["car"].chalResp
    BY <2>1, <1>t DEF Challenging, Conv
  <2> QED  BY <2>2, <1>t DEF TryInv, CarWaits
<1>4. CASE CarSolve
  <2>1. conv'["car"] = Opening(conv["car"])
    BY <1>4, <1>t DEF CarSolve, Transmit
  <2>2. conv'["car"].next = "HELLO" /\ conv'["car"].chalResp = conv["car"].chalResp
    BY <2>1, <1>t DEF Opening, Conv
  <2> QED  BY <2>2 DEF TryInv, CarWaits
<1>5. ASSUME NEW d \in Devices, LosePower(d)
      PROVE  CarWaits'
  <2>1. CASE d = "car"
    <3>1. conv'["car"] = NoConv /\ mode'["car"] = "off"
      BY <1>5, <1>t, <2>1 DEF LosePower, Peer
    <3> QED  BY <3>1 DEF CarWaits, NoConv
  <2>2. CASE d = "fob"
    <3>1. conv'["car"] = conv["car"] /\ (mode["car"] = "off" => mode'["car"] = "off")
      BY <1>5, <1>t, <2>2 DEF LosePower, Peer
    <3> QED  BY <3>1, <1>1
  <2> QED  BY <2>1, <2>2 DEF Devices
<1>6. ASSUME NEW d \in Devices, PowerOn(d) \/ Reject(d) \/ HandlerRefuses(d)
      PROVE  CarWaits'
  <2>1. CASE d = "fob"
    BY <1>1, <1>6, <1>t, <2>1 DEF PowerOn, Reject, HandlerRefuses, BackToLoop
  <2>2. CASE d = "car" /\ (PowerOn(d) \/ Reject(d))
    <3>1. conv'["car"] = ResetConv(fresh)
      BY <1>t, <2>2 DEF PowerOn, Reject, BackToLoop
    <3> QED  BY <1>2, <3>1
  <2>3. CASE d = "car" /\ HandlerRefuses(d)
    BY <1>1, <1>t, <2>3 DEF HandlerRefuses, BackToLoop
  <2> QED  BY <1>6, <2>1, <2>2, <2>3 DEF Devices
<1>7. ASSUME Press \/ FobPair \/ FobChall \/ HostAcks
      PROVE  CarWaits'
  BY <1>1, <1>7, <1>t DEF Press, FobPair, FobChall, HostAcks, Transmit, BackToLoop
<1>8. ASSUME NEW d \in Devices,
             StartRead(d) \/ FinishSend(d) \/ FillTorn(d) \/ StarveTorn(d) \/ Garble(d) \/ DropByte(d)
      PROVE  conv' = conv /\ (mode["car"] = "off" => mode'["car"] = "off")
  BY <1>8, <1>t DEF StartRead, FinishSend, FillTorn, StarveTorn, Garble, DropByte, Devices, Peer
<1>9. ASSUME Collide \/ FobEnd \/ Upload \/ UNCHANGED vars
      PROVE  conv' = conv /\ (mode["car"] = "off" => mode'["car"] = "off")
  BY <1>9, <1>t DEF Collide, FobEnd, Upload, UploadFeature, UploadSig, vars, Devices, Peer
<1>10. ASSUME \/ \E d \in Devices : PowerOff(d)
              \/ \E x \in Features : TearFeature(x)
              \/ TearSignature
       PROVE  \E d \in Devices : LosePower(d)
  BY <1>10, <1>t DEF PowerOff, TearFeature, TearSignature
<1> QED
  BY <1>1, <1>3, <1>4, <1>5, <1>6, <1>7, <1>8, <1>9, <1>10 DEF Next, Parse, Upload

LEMMA TryInvInit == Init => TryInv
<1> SUFFICES ASSUME Init PROVE TryInv
  OBVIOUS
<1>1. tries = Dirty /\ mode["car"] = "off" /\ conv["car"] = NoConv
  BY DEF Init, Devices
<1>2. budget["press"] = MaxPress /\ budget["power"] = MaxPowerOff /\ budget["noise"] = MaxNoise
  BY DEF Init, Limited
<1> QED
  BY <1>1, <1>2, ConstantsAssumption DEF TryInv, Counts, CarWaits, InTry, NoConv

(* An exchange that tries counts goes on from place to place.              *)
LEMMA TryInvStep == TypeOK /\ TryInv /\ [Next]_vars => TryInv'
<1> SUFFICES ASSUME TypeOK, TryInv, [Next]_vars PROVE TryInv'
  OBVIOUS
<1>1. InTry' => Trying'
  <2> SUFFICES ASSUME InTry' PROVE Trying'
    OBVIOUS
  <2>1. CASE Press
    BY <2>1, PressBegins
  <2>2. CASE ~Press
    <3>1. tries' = tries \/ tries' = 0 \/ tries' = Dirty
      <4>1. ASSUME NEW d \in Devices,
                   StartRead(d) \/ FinishSend(d) \/ Reject(d) \/ HandlerRefuses(d)
                   \/ FillTorn(d) \/ StarveTorn(d) \/ PowerOn(d)
            PROVE  tries' = tries
        BY <4>1 DEF StartRead, FinishSend, Reject, HandlerRefuses, FillTorn, StarveTorn, PowerOn
      <4>2. ASSUME \/ CarHello \/ FobPair \/ FobChall \/ FobEnd
                   \/ Collide \/ HostAcks \/ UNCHANGED vars
            PROVE  tries' = tries
        BY <4>2 DEF CarHello, FobPair, FobChall, FobEnd, Collide, HostAcks, vars
      <4>3. CarSolve => tries' = 0
        BY DEF CarSolve
      <4>4. Disturb \/ Upload => tries' = Dirty
        BY Disturbs DEF TryInv
      <4> QED
        BY <2>2, <4>1, <4>2, <4>3, <4>4 DEF Next, Parse, Disturb, Upload
    <3>2. InTry
      BY <3>1 DEF InTry, Dirty
    <3>3. tries' \notin {0, Dirty}
      BY DEF InTry, Dirty
    <3> QED  BY <2>2, <3>2, <3>3, TryingGoesOn
  <2> QED  BY <2>1, <2>2
<1> QED  BY <1>1, CountsStep, CarWaitsStep DEF TryInv

LEMMA TryInvariance == Spec => []TryInv
  BY TryInvInit, TryInvStep, TypeCorrect, PTL DEF Spec

-----------------------------------------------------------------------------
(* The second undisturbed press is not in vain: the devices never come     *)
(* back to rest after it without the car having opened, whatever state the *)
(* conversation before it was left in (verify_message, reset_state and the *)
(* handlers of both authentication.c).                                     *)
SecondPressCounts == Quiet => tries # 2 \/ tries = Dirty

(* No run of verify_message, reset_state and the handlers wastes the       *)
(* second of two undisturbed presses.                                      *)
THEOREM SecondPressIsServed == Spec => []SecondPressCounts
<1>1. TryInv => SecondPressCounts
  BY DEF TryInv, InTry, SecondPressCounts, Trying, HelloAt, ChallAt, SolveAt, At, Quiet, Devices
<1> QED  BY <1>1, TryInvariance, PTL

-----------------------------------------------------------------------------
(* Fairness of the two threads and of the line, guards in full.            *)
Fairly(guard, A) == []<>~guard \/ []<><<A>>_vars

ThreadsRun ==
    /\ Fairly(At("loop", "send"), StartRead("car")) /\ Fairly(At("send", "loop"), StartRead("fob"))
    /\ Fairly(At("read", "send"), FinishSend("fob")) /\ Fairly(At("send", "read"), FinishSend("car"))
    /\ Fairly(mode["car"] = "parse", Parse("car")) /\ Fairly(mode["fob"] = "parse", Parse("fob"))
    /\ Fairly(At("send", "send"), Collide)

(* What links it to the fairness of FairSpec: an action whose guard holds  *)
(* is ENABLED.  It is true in every state with TypeOK, and a hypothesis    *)
(* below only because no prover here can be asked for ENABLED.             *)
GuardsEnable ==
    /\ At("loop", "send") => ENABLED <<StartRead("car")>>_vars
    /\ At("send", "loop") => ENABLED <<StartRead("fob")>>_vars
    /\ At("read", "send") => ENABLED <<FinishSend("fob")>>_vars
    /\ At("send", "read") => ENABLED <<FinishSend("car")>>_vars
    /\ mode["car"] = "parse" => ENABLED <<Parse("car")>>_vars
    /\ mode["fob"] = "parse" => ENABLED <<Parse("fob")>>_vars
    /\ At("send", "send") => ENABLED <<Collide>>_vars

LEMMA FairnessRunsThreads == FairSpec /\ []GuardsEnable => ThreadsRun
  BY PTL DEF FairSpec, Fairness, GuardsEnable, ThreadsRun, Fairly

Second == tries = 2 /\ tries # Dirty
Over == tries \in {0, Dirty}

SecondHello(c, f, d) == Second /\ conv["car"].next = "HELLO" /\ HelloAt(c, f, d)
SecondChall(c, f, d) == Second /\ ChallAt(c, f, d)
SecondSolve(c, f, d) == Second /\ SolveAt(c, f, d)

LEMMA SecondStays ==
  ASSUME TypeOK, TryInv, UNCHANGED vars, NEW c, NEW f, NEW d
  PROVE  /\ SecondHello(c, f, d) => SecondHello(c, f, d)'
         /\ SecondChall(c, f, d) => SecondChall(c, f, d)'
         /\ SecondSolve(c, f, d) => SecondSolve(c, f, d)'
  BY DEF vars, Second, SecondHello, SecondChall, SecondSolve, HelloAt, ChallAt, SolveAt, At,
         FobAsks, CarAsks, FobAnswers, GenHello, GenChall, GenSolution

LEMMA SecondHelloSteps ==
  ASSUME TypeOK, TryInv, [Next]_vars
  PROVE  /\ SecondHello("loop", "send", "fob") =>
              \/ ~StartRead("car") /\ SecondHello("loop", "send", "fob")'
              \/ SecondHello("read", "send", "car")' \/ Over'
         /\ SecondHello("read", "send", "car") =>
              \/ ~FinishSend("fob") /\ SecondHello("read", "send", "car")'
              \/ SecondHello("parse", "loop", "car")' \/ Over'
         /\ SecondHello("parse", "loop", "car") =>
              \/ ~Parse("car") /\ SecondHello("parse", "loop", "car")'
              \/ SecondChall("send", "loop", "car")' \/ Over'
<1>1. Disturb \/ Upload => Over'
  BY Disturbs DEF TryInv, Over
<1>2. Press /\ ~Quiet => Over'
  BY Disturbs DEF TryInv, Over
<1>3. ASSUME SecondHello("loop", "send", "fob")
      PROVE  \/ ~StartRead("car") /\ SecondHello("loop", "send", "fob")'
             \/ SecondHello("read", "send", "car")' \/ Over'
  <2>1. CASE StartRead("car")
    BY <1>3, <2>1, Reads DEF SecondHello, Second
  <2> QED  BY <1>1, <1>3, <2>1, StepAt, SecondStays DEF SecondHello, HelloAt
<1>4. ASSUME SecondHello("read", "send", "car")
      PROVE  \/ ~FinishSend("fob") /\ SecondHello("read", "send", "car")'
             \/ SecondHello("parse", "loop", "car")' \/ Over'
  <2>1. CASE FinishSend("fob")
    BY <1>4, <2>1, Arrivals DEF SecondHello, Second
  <2> QED  BY <1>1, <1>4, <2>1, StepAt, SecondStays DEF SecondHello, HelloAt
<1>5. ASSUME SecondHello("parse", "loop", "car")
      PROVE  \/ ~Parse("car") /\ SecondHello("parse", "loop", "car")'
             \/ SecondChall("send", "loop", "car")' \/ Over'
  <2>1. CASE Parse("car")
    BY <1>5, <2>1, HelloParsed DEF TryInv, SecondHello, SecondChall, Second
  <2>2. ~Quiet
    BY <1>5 DEF SecondHello, HelloAt, At, Quiet, Devices
  <2> QED  BY <1>1, <1>2, <1>5, <2>1, <2>2, StepAt, SecondStays DEF SecondHello, HelloAt
<1> QED  BY <1>3, <1>4, <1>5

LEMMA SecondChallSteps ==
  ASSUME TypeOK, TryInv, [Next]_vars
  PROVE  /\ SecondChall("send", "loop", "car") =>
              \/ ~StartRead("fob") /\ SecondChall("send", "loop", "car")'
              \/ SecondChall("send", "read", "fob")' \/ Over'
         /\ SecondChall("send", "read", "fob") =>
              \/ ~FinishSend("car") /\ SecondChall("send", "read", "fob")'
              \/ SecondChall("loop", "parse", "fob")' \/ Over'
         /\ SecondChall("loop", "parse", "fob") =>
              \/ ~Parse("fob") /\ SecondChall("loop", "parse", "fob")'
              \/ SecondSolve("loop", "send", "fob")' \/ Over'
<1>1. Disturb \/ Upload => Over'
  BY Disturbs DEF TryInv, Over
<1>2. Press /\ ~Quiet => Over'
  BY Disturbs DEF TryInv, Over
<1>3. ASSUME SecondChall("send", "loop", "car")
      PROVE  \/ ~StartRead("fob") /\ SecondChall("send", "loop", "car")'
             \/ SecondChall("send", "read", "fob")' \/ Over'
  <2>1. CASE StartRead("fob")
    BY <1>3, <2>1, Reads DEF SecondChall, Second
  <2>2. ~Quiet
    BY <1>3 DEF SecondChall, ChallAt, At, Quiet, Devices
  <2> QED  BY <1>1, <1>2, <1>3, <2>1, <2>2, StepAt, SecondStays DEF SecondChall, ChallAt
<1>4. ASSUME SecondChall("send", "read", "fob")
      PROVE  \/ ~FinishSend("car") /\ SecondChall("send", "read", "fob")'
             \/ SecondChall("loop", "parse", "fob")' \/ Over'
  <2>1. CASE FinishSend("car")
    BY <1>4, <2>1, Arrivals DEF SecondChall, Second
  <2> QED  BY <1>1, <1>4, <2>1, StepAt, SecondStays DEF SecondChall, ChallAt
<1>5. ASSUME SecondChall("loop", "parse", "fob")
      PROVE  \/ ~Parse("fob") /\ SecondChall("loop", "parse", "fob")'
             \/ SecondSolve("loop", "send", "fob")' \/ Over'
  <2>1. CASE Parse("fob")
    BY <1>5, <2>1, ChallParsed DEF SecondChall, SecondSolve, Second
  <2> QED  BY <1>1, <1>5, <2>1, StepAt, SecondStays DEF SecondChall, ChallAt
<1> QED  BY <1>3, <1>4, <1>5

LEMMA SecondSolveSteps ==
  ASSUME TypeOK, TryInv, [Next]_vars
  PROVE  /\ SecondSolve("loop", "send", "fob") =>
              \/ ~StartRead("car") /\ SecondSolve("loop", "send", "fob")'
              \/ SecondSolve("read", "send", "car")' \/ Over'
         /\ SecondSolve("read", "send", "car") =>
              \/ ~FinishSend("fob") /\ SecondSolve("read", "send", "car")'
              \/ SecondSolve("parse", "loop", "car")' \/ Over'
         /\ SecondSolve("parse", "loop", "car") =>
              \/ ~Parse("car") /\ SecondSolve("parse", "loop", "car")'
              \/ Over'
<1>1. Disturb \/ Upload => Over'
  BY Disturbs DEF TryInv, Over
<1>2. Press /\ ~Quiet => Over'
  BY Disturbs DEF TryInv, Over
<1>3. ASSUME SecondSolve("loop", "send", "fob")
      PROVE  \/ ~StartRead("car") /\ SecondSolve("loop", "send", "fob")'
             \/ SecondSolve("read", "send", "car")' \/ Over'
  <2>1. CASE StartRead("car")
    BY <1>3, <2>1, Reads DEF SecondSolve, Second
  <2> QED  BY <1>1, <1>3, <2>1, StepAt, SecondStays DEF SecondSolve, SolveAt
<1>4. ASSUME SecondSolve("read", "send", "car")
      PROVE  \/ ~FinishSend("fob") /\ SecondSolve("read", "send", "car")'
             \/ SecondSolve("parse", "loop", "car")' \/ Over'
  <2>1. CASE FinishSend("fob")
    BY <1>4, <2>1, Arrivals DEF SecondSolve, Second
  <2> QED  BY <1>1, <1>4, <2>1, StepAt, SecondStays DEF SecondSolve, SolveAt
<1>5. ASSUME SecondSolve("parse", "loop", "car")
      PROVE  \/ ~Parse("car") /\ SecondSolve("parse", "loop", "car")'
             \/ Over'
  <2>1. CASE Parse("car")
    <3>1. Trying
      BY <1>5 DEF TryInv, InTry, SecondSolve, Second
    <3> QED  BY <1>5, <2>1, <3>1, SolveParsed DEF TryInv, SecondSolve, Trying, Over
  <2>2. ~Quiet
    BY <1>5 DEF SecondSolve, SolveAt, At, Quiet, Devices
  <2> QED  BY <1>1, <1>2, <1>5, <2>1, <2>2, StepAt, SecondStays DEF SecondSolve, SolveAt
<1> QED  BY <1>3, <1>4, <1>5

(* Two undisturbed presses always open the car, by the fairness of the two *)
(* threads: from start_unlock_sequence through uart_send_message,          *)
(* uart_read_message and parse_inc_message of both devices to              *)
(* handle_solution, every step of the exchange leads to the next.          *)
LEMMA TwoPresses == Spec /\ ThreadsRun => TwoPressesUnlock
<1>1. Spec /\ ThreadsRun => (SecondHello("loop", "send", "fob") ~> SecondHello("read", "send", "car") \/ Over)
  <2>1. TypeOK /\ TryInv /\ [Next]_vars /\ SecondHello("loop", "send", "fob")
          => (~StartRead("car") /\ SecondHello("loop", "send", "fob")') \/ (SecondHello("read", "send", "car") \/ Over)'
    BY SecondHelloSteps
  <2>2. SecondHello("loop", "send", "fob") => At("loop", "send")
    BY DEF SecondHello, HelloAt, At
  <2> QED  BY <2>1, <2>2, TypeCorrect, TryInvariance, PTL DEF Spec, ThreadsRun, Fairly
<1>2. Spec /\ ThreadsRun => (SecondHello("read", "send", "car") ~> SecondHello("parse", "loop", "car") \/ Over)
  <2>1. TypeOK /\ TryInv /\ [Next]_vars /\ SecondHello("read", "send", "car")
          => (~FinishSend("fob") /\ SecondHello("read", "send", "car")') \/ (SecondHello("parse", "loop", "car") \/ Over)'
    BY SecondHelloSteps
  <2>2. SecondHello("read", "send", "car") => At("read", "send")
    BY DEF SecondHello, HelloAt, At
  <2> QED  BY <2>1, <2>2, TypeCorrect, TryInvariance, PTL DEF Spec, ThreadsRun, Fairly
<1>3. Spec /\ ThreadsRun => (SecondHello("parse", "loop", "car") ~> SecondChall("send", "loop", "car") \/ Over)
  <2>1. TypeOK /\ TryInv /\ [Next]_vars /\ SecondHello("parse", "loop", "car")
          => (~Parse("car") /\ SecondHello("parse", "loop", "car")') \/ (SecondChall("send", "loop", "car") \/ Over)'
    BY SecondHelloSteps
  <2>2. SecondHello("parse", "loop", "car") => mode["car"] = "parse"
    BY DEF SecondHello, HelloAt, At
  <2> QED  BY <2>1, <2>2, TypeCorrect, TryInvariance, PTL DEF Spec, ThreadsRun, Fairly
<1>4. Spec /\ ThreadsRun => (SecondChall("send", "loop", "car") ~> SecondChall("send", "read", "fob") \/ Over)
  <2>1. TypeOK /\ TryInv /\ [Next]_vars /\ SecondChall("send", "loop", "car")
          => (~StartRead("fob") /\ SecondChall("send", "loop", "car")') \/ (SecondChall("send", "read", "fob") \/ Over)'
    BY SecondChallSteps
  <2>2. SecondChall("send", "loop", "car") => At("send", "loop")
    BY DEF SecondChall, ChallAt, At
  <2> QED  BY <2>1, <2>2, TypeCorrect, TryInvariance, PTL DEF Spec, ThreadsRun, Fairly
<1>5. Spec /\ ThreadsRun => (SecondChall("send", "read", "fob") ~> SecondChall("loop", "parse", "fob") \/ Over)
  <2>1. TypeOK /\ TryInv /\ [Next]_vars /\ SecondChall("send", "read", "fob")
          => (~FinishSend("car") /\ SecondChall("send", "read", "fob")') \/ (SecondChall("loop", "parse", "fob") \/ Over)'
    BY SecondChallSteps
  <2>2. SecondChall("send", "read", "fob") => At("send", "read")
    BY DEF SecondChall, ChallAt, At
  <2> QED  BY <2>1, <2>2, TypeCorrect, TryInvariance, PTL DEF Spec, ThreadsRun, Fairly
<1>6. Spec /\ ThreadsRun => (SecondChall("loop", "parse", "fob") ~> SecondSolve("loop", "send", "fob") \/ Over)
  <2>1. TypeOK /\ TryInv /\ [Next]_vars /\ SecondChall("loop", "parse", "fob")
          => (~Parse("fob") /\ SecondChall("loop", "parse", "fob")') \/ (SecondSolve("loop", "send", "fob") \/ Over)'
    BY SecondChallSteps
  <2>2. SecondChall("loop", "parse", "fob") => mode["fob"] = "parse"
    BY DEF SecondChall, ChallAt, At
  <2> QED  BY <2>1, <2>2, TypeCorrect, TryInvariance, PTL DEF Spec, ThreadsRun, Fairly
<1>7. Spec /\ ThreadsRun => (SecondSolve("loop", "send", "fob") ~> SecondSolve("read", "send", "car") \/ Over)
  <2>1. TypeOK /\ TryInv /\ [Next]_vars /\ SecondSolve("loop", "send", "fob")
          => (~StartRead("car") /\ SecondSolve("loop", "send", "fob")') \/ (SecondSolve("read", "send", "car") \/ Over)'
    BY SecondSolveSteps
  <2>2. SecondSolve("loop", "send", "fob") => At("loop", "send")
    BY DEF SecondSolve, SolveAt, At
  <2> QED  BY <2>1, <2>2, TypeCorrect, TryInvariance, PTL DEF Spec, ThreadsRun, Fairly
<1>8. Spec /\ ThreadsRun => (SecondSolve("read", "send", "car") ~> SecondSolve("parse", "loop", "car") \/ Over)
  <2>1. TypeOK /\ TryInv /\ [Next]_vars /\ SecondSolve("read", "send", "car")
          => (~FinishSend("fob") /\ SecondSolve("read", "send", "car")') \/ (SecondSolve("parse", "loop", "car") \/ Over)'
    BY SecondSolveSteps
  <2>2. SecondSolve("read", "send", "car") => At("read", "send")
    BY DEF SecondSolve, SolveAt, At
  <2> QED  BY <2>1, <2>2, TypeCorrect, TryInvariance, PTL DEF Spec, ThreadsRun, Fairly
<1>9. Spec /\ ThreadsRun => (SecondSolve("parse", "loop", "car") ~> Over)
  <2>1. TypeOK /\ TryInv /\ [Next]_vars /\ SecondSolve("parse", "loop", "car")
          => (~Parse("car") /\ SecondSolve("parse", "loop", "car")') \/ (Over)'
    BY SecondSolveSteps
  <2>2. SecondSolve("parse", "loop", "car") => mode["car"] = "parse"
    BY DEF SecondSolve, SolveAt, At
  <2> QED  BY <2>1, <2>2, TypeCorrect, TryInvariance, PTL DEF Spec, ThreadsRun, Fairly
<1>10. TryInv /\ tries = 2 =>
         \/ Over
         \/ SecondHello("loop", "send", "fob")
         \/ SecondHello("read", "send", "car")
         \/ SecondHello("parse", "loop", "car")
         \/ SecondChall("send", "loop", "car")
         \/ SecondChall("send", "read", "fob")
         \/ SecondChall("loop", "parse", "fob")
         \/ SecondSolve("loop", "send", "fob")
         \/ SecondSolve("read", "send", "car")
         \/ SecondSolve("parse", "loop", "car")
  BY DEF TryInv, InTry, Over, Trying, Second, SecondHello, SecondChall, SecondSolve
<1>11. Over => tries \in {0, Dirty}
  BY DEF Over
<1> QED
  BY <1>1, <1>2, <1>3, <1>4, <1>5, <1>6, <1>7, <1>8, <1>9, <1>10, <1>11, TryInvariance, PTL
  DEF TwoPressesUnlock

(* Two undisturbed presses always open the car, by the fairness of the two *)
(* threads alone: TwoPressesUnlock (handle_solution's unlockCar).          *)
THEOREM TwoPressesOpen == FairSpec /\ []GuardsEnable => TwoPressesUnlock
  BY TwoPresses, FairnessRunsThreads, PTL DEF FairSpec

-----------------------------------------------------------------------------
(* Before power is cut or noise hits, every message is as it was signed,   *)
(* END never is, and nothing is torn.                                      *)
FromCar == {"CHALL", "END"}
FromFob == {"HELLO", "SOLVE"}
Genuine(m) == /\ m.size = "zero" \/ m.mac = "good"
              /\ m.magic = "END" => m.size = "zero"

Undamaged ==
    /\ \A d \in Devices : mode[d] \notin {"torn", "host"} /\ Genuine(msg[d])
    /\ mode["car"] = "off" => mode["fob"] \in {"off", "spin", "loop", "cut"}
    /\ mode["fob"] = "off" => mode["car"] \in {"off", "loop", "cut"}
    /\ mode["car"] = "send" => msg["car"].magic \in FromCar
    /\ mode["fob"] \in {"read", "parse"} => msg["fob"].magic \in FromCar
    /\ mode["fob"] = "send" => msg["fob"].magic \in FromFob
    /\ mode["car"] \in {"read", "parse"} => msg["car"].magic \in FromFob

CalmInv == Disturbed \/ Undamaged

LEMMA DisturbedStays ==
  ASSUME TypeOK, Counts, [Next]_vars, Disturbed
  PROVE  Disturbed'
<1>t. /\ \A w \in Limited : budget[w] \in Nat
      /\ MaxPowerOff \in Nat /\ MaxNoise \in Nat
  BY ConstantsAssumption DEF TypeOK
<1>1. ASSUME NEW w \in Limited, Spend(w)
      PROVE  Disturbed'
  <2>1. \A v \in Limited : budget'[v] <= budget[v] /\ budget'[v] \in Nat
    BY <1>1, <1>t DEF Spend, TypeOK
  <2> QED  BY <1>t, <2>1 DEF Disturbed, Limited
<1>2. CASE UNCHANGED budget
  BY <1>2 DEF Disturbed
<1>3. Press \/ Upload \/ Disturb => \E w \in Limited : Spend(w)
  BY DEF Press, Upload, Disturb, UploadFeature, UploadSig, PowerOff, LosePower, TearFeature,
         TearSignature, Garble, DropByte, Limited
<1>4. ASSUME NEW d \in Devices,
             StartRead(d) \/ FinishSend(d) \/ Reject(d) \/ HandlerRefuses(d)
             \/ FillTorn(d) \/ StarveTorn(d) \/ PowerOn(d)
      PROVE  UNCHANGED budget
  BY <1>4 DEF StartRead, FinishSend, Reject, HandlerRefuses, FillTorn, StarveTorn, PowerOn
<1>5. ASSUME \/ CarHello \/ CarSolve \/ FobPair \/ FobChall \/ FobEnd
             \/ Collide \/ HostAcks \/ UNCHANGED vars
      PROVE  UNCHANGED budget
  BY <1>5 DEF CarHello, CarSolve, FobPair, FobChall, FobEnd, Collide, HostAcks, vars
<1> QED
  BY <1>1, <1>2, <1>3, <1>4, <1>5 DEF Next, Parse, Disturb, Upload

(* What a device has behind parse_inc_message.                             *)
LEMMA CarParses ==
  ASSUME TypeOK, mode["fob"] # "off", Parse("car")
  PROVE  /\ mode'["fob"] = mode["fob"] /\ msg'["fob"] = msg["fob"]
         /\ Genuine(msg'["car"])
         /\ \/ mode'["car"] = "loop"
            \/ mode'["car"] = "send" /\ msg["car"].magic = "HELLO" /\ msg'["car"].magic = "CHALL"
            \/ mode'["car"] = "send" /\ msg["car"].magic = "SOLVE" /\ msg'["car"].magic = "END"
<1>t. /\ conv \in [Devices -> Conv] /\ mode \in [Devices -> Modes]
      /\ msg \in [Devices -> Message] /\ fresh \in Nat /\ block \in Command
      /\ "car" \in Devices /\ "fob" \in Devices
  BY DEF TypeOK, Devices
<1>1. CASE Reject("car") \/ HandlerRefuses("car")
  <2>1. /\ mode'["car"] = "loop" /\ mode'["fob"] = mode["fob"]
        /\ msg'["car"] = Zeroed /\ msg'["fob"] = msg["fob"]
    BY <1>1, <1>t DEF Reject, HandlerRefuses, BackToLoop
  <2> QED  BY <2>1 DEF Genuine, Zeroed
<1>2. ASSUME NEW c \in Conv, NEW m, Transmit("car", m, c)
      PROVE  /\ mode'["car"] = "send" /\ mode'["fob"] = mode["fob"]
             /\ msg'["car"] = m /\ msg'["fob"] = msg["fob"]
  BY <1>2, <1>t DEF Transmit, Peer
<1>3. CASE CarHello
  <2> DEFINE c == Challenging(conv["car"], msg["car"], fresh)
  <2>1. c \in Conv
    BY <1>t, ChallengingType
  <2>2. Transmit("car", GenChall(c), c) /\ msg["car"].magic = "HELLO"
    BY <1>3 DEF CarHello
  <2> HIDE DEF c
  <2>3. GenChall(c).magic = "CHALL" /\ GenChall(c).mac = "good"
    BY <1>t, <2>1, GenChallType, GenFields
  <2> QED  BY <1>2, <2>1, <2>2, <2>3 DEF Genuine
<1>4. CASE CarSolve
  <2> DEFINE c == Opening(conv["car"])
  <2>1. c \in Conv
    BY <1>t, OpeningType
  <2>2. Transmit("car", GenEnd(c), c) /\ msg["car"].magic = "SOLVE"
    BY <1>4 DEF CarSolve
  <2> HIDE DEF c
  <2>3. GenEnd(c).magic = "END" /\ GenEnd(c).size = "zero"
    BY <1>t, <2>1, GenEndType, GenFields
  <2> QED  BY <1>2, <2>1, <2>2, <2>3 DEF Genuine
<1> QED  BY <1>1, <1>3, <1>4 DEF Parse

LEMMA FobParses ==
  ASSUME TypeOK, mode["car"] # "off", Genuine(msg["fob"]), msg["fob"].magic \in FromCar,
         Parse("fob")
  PROVE  /\ mode'["car"] = mode["car"] /\ msg'["car"] = msg["car"]
         /\ Genuine(msg'["fob"])
         /\ \/ mode'["fob"] = "loop"
            \/ mode'["fob"] = "send" /\ msg["fob"].magic = "CHALL" /\ msg'["fob"].magic = "SOLVE"
<1>t. /\ conv \in [Devices -> Conv] /\ mode \in [Devices -> Modes]
      /\ msg \in [Devices -> Message] /\ fresh \in Nat /\ block \in Command
      /\ "car" \in Devices /\ "fob" \in Devices
  BY DEF TypeOK, Devices
<1>1. CASE Reject("fob") \/ HandlerRefuses("fob")
  <2>1. /\ mode'["fob"] = "loop" /\ mode'["car"] = mode["car"]
        /\ msg'["fob"] = Zeroed /\ msg'["car"] = msg["car"]
    BY <1>1, <1>t DEF Reject, HandlerRefuses, BackToLoop
  <2> QED  BY <2>1 DEF Genuine, Zeroed
<1>2. ASSUME NEW c \in Conv, NEW m, Transmit("fob", m, c)
      PROVE  /\ mode'["fob"] = "send" /\ mode'["car"] = mode["car"]
             /\ msg'["fob"] = m /\ msg'["car"] = msg["car"]
  BY <1>2, <1>t DEF Transmit, Peer
<1>3. CASE FobChall
  <2> DEFINE c == Solving(conv["fob"], msg["fob"])
  <2>1. c \in Conv
    BY <1>t, SolvingType
  <2>2. Transmit("fob", GenSolution(c), c) /\ msg["fob"].magic = "CHALL"
    BY <1>3 DEF FobChall
  <2> HIDE DEF c
  <2>3. GenSolution(c).magic = "SOLVE" /\ GenSolution(c).mac = "good"
    BY <1>t, <2>1, GenSolutionType, GenFields
  <2> QED  BY <1>2, <2>1, <2>2, <2>3 DEF Genuine
<1>4. ~FobEnd /\ ~FobPair
  BY DEF FobEnd, VerifyMessage, Genuine, FobPair, IsPairRequest, FromCar
<1> QED  BY <1>1, <1>3, <1>4 DEF Parse

LEMMA CalmInvInit == Init => CalmInv
<1> SUFFICES ASSUME Init PROVE Undamaged
  BY DEF CalmInv
<1>1. \A d \in Devices : mode[d] = "off" /\ msg[d] = Zeroed
  BY DEF Init
<1> QED  BY <1>1 DEF Undamaged, Devices, Genuine, Zeroed

LEMMA UndamagedStep ==
  ASSUME TypeOK, Undamaged, [Next]_vars, ~Disturb
  PROVE  Undamaged'
<1>t. /\ conv \in [Devices -> Conv] /\ mode \in [Devices -> Modes]
      /\ msg \in [Devices -> Message] /\ fresh \in Nat /\ block \in Command
      /\ Devices = {"car", "fob"} /\ Peer("car") = "fob" /\ Peer("fob") = "car"
  BY DEF TypeOK, Devices, Peer
<1>z. Genuine(Zeroed)
  BY DEF Genuine, Zeroed
<1>1. CASE Press
  <2>1. /\ mode'["car"] = mode["car"] /\ msg'["car"] = msg["car"]
        /\ mode'["fob"] = IF mode["car"] = "off" THEN "cut" ELSE "send"
        /\ msg'["fob"] = GenHello(Asking(fresh))
    BY <1>1, <1>t DEF Press, Transmit
  <2>2. GenHello(Asking(fresh)).magic = "HELLO" /\ GenHello(Asking(fresh)).mac = "good"
    BY <1>t, AskingType, GenHelloType, GenFields
  <2> QED  BY <1>t, <2>1, <2>2 DEF Undamaged, Genuine, FromFob
<1>2. ASSUME NEW d \in Devices, StartRead(d)  PROVE Undamaged'
  <2>1. /\ mode[Peer(d)] = "send" /\ mode'[Peer(d)] = "send" /\ mode'[d] = "read"
        /\ msg'[d] = msg[Peer(d)] /\ msg'[Peer(d)] = msg[Peer(d)]
    BY <1>2, <1>t DEF StartRead
  <2> QED  BY <1>t, <2>1 DEF Undamaged
<1>3. ASSUME NEW d \in Devices, FinishSend(d)  PROVE Undamaged'
  <2>1. /\ mode[Peer(d)] = "read" /\ mode'[Peer(d)] = "parse" /\ mode'[d] = "loop"
        /\ msg'[d] = Zeroed /\ msg'[Peer(d)] = msg[Peer(d)]
    BY <1>3, <1>t DEF FinishSend
  <2> QED  BY <1>t, <1>z, <2>1 DEF Undamaged
<1>4. CASE Parse("car")
  <2>1. mode["car"] = "parse"
    BY <1>4 DEF Parse, Reject, HandlerRefuses, CarHello, CarSolve
  <2> QED  BY <1>4, <1>t, <2>1, CarParses DEF Undamaged, FromCar
<1>5. CASE Parse("fob")
  <2>1. mode["fob"] = "parse"
    BY <1>5 DEF Parse, Reject, HandlerRefuses, FobPair, FobChall, FobEnd
  <2> QED  BY <1>5, <1>t, <2>1, FobParses DEF Undamaged, FromFob
<1>6. CASE Collide
  <2>1. PICK d \in Devices :
          /\ mode[d] = "send"
          /\ \/ /\ mode' = [e \in Devices |-> "loop"] /\ msg' = [e \in Devices |-> Zeroed]
             \/ \E after \in {"loop", "cut"} :
                  /\ mode' = [mode EXCEPT ![Peer(d)] = "loop", ![d] = after]
                  /\ msg' = [msg EXCEPT ![Peer(d)] = Zeroed,
                                        ![d] = IF after = "loop" THEN Zeroed ELSE @]
    BY <1>6 DEF Collide
  <2>2. \A e \in Devices : mode'[e] \in {"loop", "cut"} /\ msg'[e] \in {Zeroed, msg[e]}
    BY <1>t, <2>1
  <2> QED  BY <1>t, <1>z, <2>2 DEF Undamaged
<1>7. ASSUME NEW d \in Devices, PowerOn(d)  PROVE Undamaged'
  <2>1. /\ mode'[d] \in {"loop", "spin"} /\ mode'[Peer(d)] = mode[Peer(d)] /\ msg' = msg
        /\ d = "car" => mode'[d] = "loop"
    BY <1>7, <1>t DEF PowerOn
  <2> QED  BY <1>t, <2>1 DEF Undamaged
<1>8. CASE Upload \/ UNCHANGED vars
  <2>1. mode' = mode /\ msg' = msg
    BY <1>8 DEF Upload, UploadFeature, UploadSig, vars
  <2> QED  BY <2>1 DEF Undamaged
<1>9. ~HostAcks /\ \A d \in Devices : ~FillTorn(d) /\ ~StarveTorn(d)
  BY DEF HostAcks, FillTorn, StarveTorn, Undamaged, Devices
<1> QED
  BY <1>1, <1>2, <1>3, <1>4, <1>5, <1>6, <1>7, <1>8, <1>9 DEF Next, Devices, Disturb, Upload

LEMMA CalmInvStep == TypeOK /\ Counts /\ CalmInv /\ [Next]_vars => CalmInv'
  BY DisturbedStays, Disturbs, UndamagedStep DEF CalmInv

LEMMA CalmInvariance == Spec => []CalmInv
<1>1. TryInv => Counts
  BY DEF TryInv
<1> QED  BY <1>1, CalmInvInit, CalmInvStep, TypeCorrect, TryInvariance, PTL DEF Spec

(* handle_end runs on the fob only after a power cut or a hit of noise:    *)
(* gen_end leaves payload_size zero, and verify_message refuses that.      *)
HandleEndIsUnused == mode["fob"] = "host" => Disturbed

(* Only a power cut or noise can bring the fob into handle_end.            *)
THEOREM EndIsNeverTaken == Spec => []HandleEndIsUnused
<1>1. CalmInv => HandleEndIsUnused
  BY DEF CalmInv, Undamaged, HandleEndIsUnused, Devices
<1> QED  BY <1>1, CalmInvariance, PTL

(* What a device has read is of a type parse_inc_message has a case for:   *)
(* neither the default of its switch ("bad packet") nor the fob's branch   *)
(* for a pair request is run.                                              *)
EveryMessageHasACase ==
    \A d \in Devices : mode[d] = "parse" => msg[d].magic \in Cases(d)

(* However presses cut into exchanges and messages collide, only a power   *)
(* cut or noise can bring parse_inc_message to either of the two.          *)
THEOREM DefaultNeedsDamage == Spec => [](Disturbed \/ EveryMessageHasACase)
<1>1. CalmInv => Disturbed \/ EveryMessageHasACase
  BY DEF CalmInv, Undamaged, EveryMessageHasACase, Cases, FromCar, FromFob, Devices
<1> QED  BY <1>1, CalmInvariance, PTL

(* While nothing has been damaged, what verify_message accepts has the     *)
(* HMAC of its contents, although the comparison is the wrong way round.   *)
THEOREM CleanMessagesAreSigned == Spec => [](Disturbed \/ HmacIsChecked)
<1>1. CalmInv => Disturbed \/ HmacIsChecked
  BY DEF CalmInv, Undamaged, HmacIsChecked, Genuine, VerifyMessage
<1> QED  BY <1>1, CalmInvariance, PTL

-----------------------------------------------------------------------------
(* The button left alone, undamaged devices come to rest: a message is     *)
(* read, handled, and answered by the next of the conversation.            *)
Rest == Quiet \/ Disturbed
Calm ==
    \/ At("loop", "loop") \/ At("send", "send") \/ At("parse", "send")
    \/ At("loop", "send") \/ At("read", "send") \/ At("parse", "loop")
    \/ At("send", "loop") \/ At("send", "read") \/ At("loop", "parse")

(* A message of this magic on its way, with d holding it.                  *)
OnWay(c, f, d, magic) == ~Disturbed /\ Undamaged /\ At(c, f) /\ msg[d].magic = magic
Crossing(c, f) == ~Disturbed /\ Undamaged /\ At(c, f)

LEMMA CalmStays ==
  ASSUME TypeOK, Counts, CalmInv, [Next]_vars, Calm, ~Disturbed
  PROVE  Calm' \/ Disturbed'
<1>t. /\ conv \in [Devices -> Conv] /\ mode \in [Devices -> Modes]
      /\ msg \in [Devices -> Message]
      /\ "car" \in Devices /\ "fob" \in Devices /\ Peer("car") = "fob" /\ Peer("fob") = "car"
      /\ Undamaged /\ Genuine(msg["fob"])
  BY DEF TypeOK, Devices, Peer, CalmInv, Undamaged
<1>1. CASE Disturb
  BY <1>1, Disturbs
<1>2. CASE Upload \/ UNCHANGED vars
  BY <1>2 DEF Upload, UploadFeature, UploadSig, vars, Calm, At
<1>3. CASE Press
  <2>1. /\ mode["fob"] = "loop" /\ mode'["car"] = mode["car"]
        /\ mode'["fob"] = IF mode["car"] = "off" THEN "cut" ELSE "send"
    BY <1>3, <1>t DEF Press, Transmit
  <2> QED  BY <2>1 DEF Calm, At
<1>4. StartRead("car") /\ At("loop", "send") => At("read", "send")'
  BY <1>t DEF StartRead, At
<1>5. StartRead("fob") /\ At("send", "loop") => At("send", "read")'
  BY <1>t DEF StartRead, At
<1>6. FinishSend("car") /\ At("send", "read") => At("loop", "parse")'
  BY <1>t DEF FinishSend, At
<1>7. FinishSend("fob") /\ At("read", "send") => At("parse", "loop")'
  BY <1>t DEF FinishSend, At
<1>8. Parse("car") /\ mode["fob"] \in {"loop", "send"} => Calm'
  BY CarParses DEF Calm, At
<1>9. Parse("fob") /\ mode["fob"] = "parse" /\ mode["car"] = "loop" => Calm'
  BY <1>t, FobParses DEF Calm, At, Undamaged
<1>10. Collide /\ At("send", "send") => Quiet'
  BY <1>t DEF Collide, At, Quiet, Devices
<1>11. Quiet' => Calm'
  BY DEF Quiet, Calm, At, Devices
<1>12. \A c, f : At(c, f) => mode["car"] = c /\ mode["fob"] = f
  BY DEF At
<1> QED
  BY <1>1, <1>2, <1>3, <1>4, <1>5, <1>6, <1>7, <1>8, <1>9, <1>10, <1>11, <1>12, StepAt DEF Calm

LEMMA OnWayStays ==
  ASSUME Undamaged', ~Disturbed', Upload \/ UNCHANGED vars, NEW c, NEW f, NEW d, NEW magic
  PROVE  /\ OnWay(c, f, d, magic) => OnWay(c, f, d, magic)'
         /\ Crossing(c, f) => Crossing(c, f)'
  BY DEF OnWay, Crossing, At, Upload, UploadFeature, UploadSig, vars

LEMMA CalmSteps ==
  ASSUME TypeOK, Counts, CalmInv', [Next]_vars, ~Press, NEW magic
  PROVE  /\ OnWay("loop", "send", "fob", magic) =>
              \/ ~StartRead("car") /\ OnWay("loop", "send", "fob", magic)'
              \/ OnWay("read", "send", "car", magic)' \/ Disturbed'
         /\ OnWay("read", "send", "car", magic) =>
              \/ ~FinishSend("fob") /\ OnWay("read", "send", "car", magic)'
              \/ OnWay("parse", "loop", "car", magic)' \/ Disturbed'
         /\ OnWay("parse", "loop", "car", magic) =>
              \/ ~Parse("car") /\ OnWay("parse", "loop", "car", magic)'
              \/ Quiet'
              \/ magic = "HELLO" /\ OnWay("send", "loop", "car", "CHALL")'
              \/ magic = "SOLVE" /\ OnWay("send", "loop", "car", "END")'
              \/ Disturbed'
         /\ OnWay("send", "loop", "car", magic) =>
              \/ ~StartRead("fob") /\ OnWay("send", "loop", "car", magic)'
              \/ OnWay("send", "read", "fob", magic)' \/ Disturbed'
         /\ OnWay("send", "read", "fob", magic) =>
              \/ ~FinishSend("car") /\ OnWay("send", "read", "fob", magic)'
              \/ OnWay("loop", "parse", "fob", magic)' \/ Disturbed'
         /\ OnWay("loop", "parse", "fob", magic) =>
              \/ ~Parse("fob") /\ OnWay("loop", "parse", "fob", magic)'
              \/ Quiet'
              \/ magic = "CHALL" /\ OnWay("loop", "send", "fob", "SOLVE")'
              \/ Disturbed'
<1>t. /\ mode \in [Devices -> Modes] /\ msg \in [Devices -> Message]
      /\ Devices = {"car", "fob"} /\ Peer("car") = "fob" /\ Peer("fob") = "car"
  BY DEF TypeOK, Devices, Peer
<1>d. Disturb => Disturbed'
  BY Disturbs
<1> SUFFICES ASSUME ~Disturbed', Undamaged'
             PROVE  /\ OnWay("loop", "send", "fob", magic) =>
                         \/ ~StartRead("car") /\ OnWay("loop", "send", "fob", magic)'
                         \/ OnWay("read", "send", "car", magic)'
                    /\ OnWay("read", "send", "car", magic) =>
                         \/ ~FinishSend("fob") /\ OnWay("read", "send", "car", magic)'
                         \/ OnWay("parse", "loop", "car", magic)'
                    /\ OnWay("parse", "loop", "car", magic) =>
                         \/ ~Parse("car") /\ OnWay("parse", "loop", "car", magic)'
                         \/ Quiet'
                         \/ magic = "HELLO" /\ OnWay("send", "loop", "car", "CHALL")'
                         \/ magic = "SOLVE" /\ OnWay("send", "loop", "car", "END")'
                    /\ OnWay("send", "loop", "car", magic) =>
                         \/ ~StartRead("fob") /\ OnWay("send", "loop", "car", magic)'
                         \/ OnWay("send", "read", "fob", magic)'
                    /\ OnWay("send", "read", "fob", magic) =>
                         \/ ~FinishSend("car") /\ OnWay("send", "read", "fob", magic)'
                         \/ OnWay("loop", "parse", "fob", magic)'
                    /\ OnWay("loop", "parse", "fob", magic) =>
                         \/ ~Parse("fob") /\ OnWay("loop", "parse", "fob", magic)'
                         \/ Quiet'
                         \/ magic = "CHALL" /\ OnWay("loop", "send", "fob", "SOLVE")'
  BY DEF CalmInv
<1>1. OnWay("loop", "send", "fob", magic) /\ StartRead("car") => OnWay("read", "send", "car", magic)'
  BY <1>t DEF OnWay, At, StartRead
<1>2. OnWay("send", "loop", "car", magic) /\ StartRead("fob") => OnWay("send", "read", "fob", magic)'
  BY <1>t DEF OnWay, At, StartRead
<1>3. OnWay("read", "send", "car", magic) /\ FinishSend("fob") => OnWay("parse", "loop", "car", magic)'
  BY <1>t DEF OnWay, At, FinishSend
<1>4. OnWay("send", "read", "fob", magic) /\ FinishSend("car") => OnWay("loop", "parse", "fob", magic)'
  BY <1>t DEF OnWay, At, FinishSend
<1>5. OnWay("parse", "loop", "car", magic) /\ Parse("car") =>
        \/ Quiet'
        \/ magic = "HELLO" /\ OnWay("send", "loop", "car", "CHALL")'
        \/ magic = "SOLVE" /\ OnWay("send", "loop", "car", "END")'
  BY <1>t, CarParses DEF OnWay, At, Quiet
<1>6. OnWay("loop", "parse", "fob", magic) /\ Parse("fob") =>
        Quiet' \/ (magic = "CHALL" /\ OnWay("loop", "send", "fob", "SOLVE")')
  BY <1>t, FobParses DEF OnWay, At, Quiet, Undamaged
<1>7. \A c, f, d : OnWay(c, f, d, magic) => At(c, f)
  BY DEF OnWay
<1> QED
  BY <1>d, <1>1, <1>2, <1>3, <1>4, <1>5, <1>6, <1>7, StepAt, OnWayStays

LEMMA CrossingSteps ==
  ASSUME TypeOK, Counts, CalmInv', [Next]_vars, ~Press
  PROVE  /\ Crossing("send", "send") =>
              \/ ~Collide /\ Crossing("send", "send")'
              \/ Rest'
         /\ Crossing("parse", "send") =>
              \/ ~Parse("car") /\ Crossing("parse", "send")'
              \/ Crossing("send", "send")'
              \/ OnWay("loop", "send", "fob", "HELLO")' \/ OnWay("loop", "send", "fob", "SOLVE")'
              \/ Disturbed'
<1>t. /\ mode \in [Devices -> Modes] /\ msg \in [Devices -> Message]
      /\ Devices = {"car", "fob"} /\ Peer("car") = "fob" /\ Peer("fob") = "car"
  BY DEF TypeOK, Devices, Peer
<1>d. Disturb => Disturbed'
  BY Disturbs
<1>1. Crossing("send", "send") /\ Collide => Quiet'
  BY <1>t DEF Crossing, At, Collide, Quiet
<1>2. ~Disturbed' /\ Undamaged' /\ Crossing("parse", "send") /\ Parse("car") =>
        \/ Crossing("send", "send")'
        \/ OnWay("loop", "send", "fob", "HELLO")' \/ OnWay("loop", "send", "fob", "SOLVE")'
  BY <1>t, CarParses DEF Crossing, OnWay, At, Undamaged, FromFob
<1>3. \A c, f : Crossing(c, f) => At(c, f)
  BY DEF Crossing
<1> QED
  BY <1>d, <1>1, <1>2, <1>3, StepAt, OnWayStays DEF CalmInv, Rest

(* From here on the button is left alone.                                  *)
LeftAlone ==
    /\ [](TypeOK /\ Counts /\ CalmInv) /\ [][Next]_vars
    /\ [][~Press]_vars /\ ThreadsRun

LEMMA PressIsAStep == TypeOK /\ [~Press]_vars => ~Press
<1>1. TypeOK /\ Press => fresh' # fresh
  BY DEF TypeOK, Press
<1> QED  BY <1>1 DEF vars

LEMMA LeftAloneRests == LeftAlone => (Calm ~> Rest)
<1>1. LeftAlone => (OnWay("send", "loop", "car", "END")
                   ~> OnWay("send", "read", "fob", "END") \/ Rest)
  <2>1. TypeOK /\ Counts /\ CalmInv' /\ [Next]_vars /\ [~Press]_vars /\ OnWay("send", "loop", "car", "END")
          => (~StartRead("fob") /\ OnWay("send", "loop", "car", "END")') \/ (OnWay("send", "read", "fob", "END") \/ Rest)'
    BY CalmSteps, PressIsAStep DEF Rest
  <2>2. OnWay("send", "loop", "car", "END") => At("send", "loop")
    BY DEF OnWay, At
  <2> QED  BY <2>1, <2>2, PTL DEF LeftAlone, ThreadsRun, Fairly
<1>2. LeftAlone => (OnWay("send", "read", "fob", "END")
                   ~> OnWay("loop", "parse", "fob", "END") \/ Rest)
  <2>1. TypeOK /\ Counts /\ CalmInv' /\ [Next]_vars /\ [~Press]_vars /\ OnWay("send", "read", "fob", "END")
          => (~FinishSend("car") /\ OnWay("send", "read", "fob", "END")') \/ (OnWay("loop", "parse", "fob", "END") \/ Rest)'
    BY CalmSteps, PressIsAStep DEF Rest
  <2>2. OnWay("send", "read", "fob", "END") => At("send", "read")
    BY DEF OnWay, At
  <2> QED  BY <2>1, <2>2, PTL DEF LeftAlone, ThreadsRun, Fairly
<1>3. LeftAlone => (OnWay("loop", "parse", "fob", "END")
                   ~> Rest)
  <2>1. TypeOK /\ Counts /\ CalmInv' /\ [Next]_vars /\ [~Press]_vars /\ OnWay("loop", "parse", "fob", "END")
          => (~Parse("fob") /\ OnWay("loop", "parse", "fob", "END")') \/ (Rest)'
    BY CalmSteps, PressIsAStep DEF Rest
  <2>2. OnWay("loop", "parse", "fob", "END") => mode["fob"] = "parse"
    BY DEF OnWay, At
  <2> QED  BY <2>1, <2>2, PTL DEF LeftAlone, ThreadsRun, Fairly
<1>4. LeftAlone => (OnWay("loop", "send", "fob", "SOLVE")
                   ~> OnWay("read", "send", "car", "SOLVE") \/ Rest)
  <2>1. TypeOK /\ Counts /\ CalmInv' /\ [Next]_vars /\ [~Press]_vars /\ OnWay("loop", "send", "fob", "SOLVE")
          => (~StartRead("car") /\ OnWay("loop", "send", "fob", "SOLVE")') \/ (OnWay("read", "send", "car", "SOLVE") \/ Rest)'
    BY CalmSteps, PressIsAStep DEF Rest
  <2>2. OnWay("loop", "send", "fob", "SOLVE") => At("loop", "send")
    BY DEF OnWay, At
  <2> QED  BY <2>1, <2>2, PTL DEF LeftAlone, ThreadsRun, Fairly
<1>5. LeftAlone => (OnWay("read", "send", "car", "SOLVE")
                   ~> OnWay("parse", "loop", "car", "SOLVE") \/ Rest)
  <2>1. TypeOK /\ Counts /\ CalmInv' /\ [Next]_vars /\ [~Press]_vars /\ OnWay("read", "send", "car", "SOLVE")
          => (~FinishSend("fob") /\ OnWay("read", "send", "car", "SOLVE")') \/ (OnWay("parse", "loop", "car", "SOLVE") \/ Rest)'
    BY CalmSteps, PressIsAStep DEF Rest
  <2>2. OnWay("read", "send", "car", "SOLVE") => At("read", "send")
    BY DEF OnWay, At
  <2> QED  BY <2>1, <2>2, PTL DEF LeftAlone, ThreadsRun, Fairly
<1>6. LeftAlone => (OnWay("parse", "loop", "car", "SOLVE")
                   ~> OnWay("send", "loop", "car", "END") \/ Rest)
  <2>1. TypeOK /\ Counts /\ CalmInv' /\ [Next]_vars /\ [~Press]_vars /\ OnWay("parse", "loop", "car", "SOLVE")
          => (~Parse("car") /\ OnWay("parse", "loop", "car", "SOLVE")') \/ (OnWay("send", "loop", "car", "END") \/ Rest)'
    BY CalmSteps, PressIsAStep DEF Rest
  <2>2. OnWay("parse", "loop", "car", "SOLVE") => mode["car"] = "parse"
    BY DEF OnWay, At
  <2> QED  BY <2>1, <2>2, PTL DEF LeftAlone, ThreadsRun, Fairly
<1>7. LeftAlone => (OnWay("send", "loop", "car", "CHALL")
                   ~> OnWay("send", "read", "fob", "CHALL") \/ Rest)
  <2>1. TypeOK /\ Counts /\ CalmInv' /\ [Next]_vars /\ [~Press]_vars /\ OnWay("send", "loop", "car", "CHALL")
          => (~StartRead("fob") /\ OnWay("send", "loop", "car", "CHALL")') \/ (OnWay("send", "read", "fob", "CHALL") \/ Rest)'
    BY CalmSteps, PressIsAStep DEF Rest
  <2>2. OnWay("send", "loop", "car", "CHALL") => At("send", "loop")
    BY DEF OnWay, At
  <2> QED  BY <2>1, <2>2, PTL DEF LeftAlone, ThreadsRun, Fairly
<1>8. LeftAlone => (OnWay("send", "read", "fob", "CHALL")
                   ~> OnWay("loop", "parse", "fob", "CHALL") \/ Rest)
  <2>1. TypeOK /\ Counts /\ CalmInv' /\ [Next]_vars /\ [~Press]_vars /\ OnWay("send", "read", "fob", "CHALL")
          => (~FinishSend("car") /\ OnWay("send", "read", "fob", "CHALL")') \/ (OnWay("loop", "parse", "fob", "CHALL") \/ Rest)'
    BY CalmSteps, PressIsAStep DEF Rest
  <2>2. OnWay("send", "read", "fob", "CHALL") => At("send", "read")
    BY DEF OnWay, At
  <2> QED  BY <2>1, <2>2, PTL DEF LeftAlone, ThreadsRun, Fairly
<1>9. LeftAlone => (OnWay("loop", "parse", "fob", "CHALL")
                   ~> OnWay("loop", "send", "fob", "SOLVE") \/ Rest)
  <2>1. TypeOK /\ Counts /\ CalmInv' /\ [Next]_vars /\ [~Press]_vars /\ OnWay("loop", "parse", "fob", "CHALL")
          => (~Parse("fob") /\ OnWay("loop", "parse", "fob", "CHALL")') \/ (OnWay("loop", "send", "fob", "SOLVE") \/ Rest)'
    BY CalmSteps, PressIsAStep DEF Rest
  <2>2. OnWay("loop", "parse", "fob", "CHALL") => mode["fob"] = "parse"
    BY DEF OnWay, At
  <2> QED  BY <2>1, <2>2, PTL DEF LeftAlone, ThreadsRun, Fairly
<1>10. LeftAlone => (OnWay("loop", "send", "fob", "HELLO")
                   ~> OnWay("read", "send", "car", "HELLO") \/ Rest)
  <2>1. TypeOK /\ Counts /\ CalmInv' /\ [Next]_vars /\ [~Press]_vars /\ OnWay("loop", "send", "fob", "HELLO")
          => (~StartRead("car") /\ OnWay("loop", "send", "fob", "HELLO")') \/ (OnWay("read", "send", "car", "HELLO") \/ Rest)'
    BY CalmSteps, PressIsAStep DEF Rest
  <2>2. OnWay("loop", "send", "fob", "HELLO") => At("loop", "send")
    BY DEF OnWay, At
  <2> QED  BY <2>1, <2>2, PTL DEF LeftAlone, ThreadsRun, Fairly
<1>11. LeftAlone => (OnWay("read", "send", "car", "HELLO")
                   ~> OnWay("parse", "loop", "car", "HELLO") \/ Rest)
  <2>1. TypeOK /\ Counts /\ CalmInv' /\ [Next]_vars /\ [~Press]_vars /\ OnWay("read", "send", "car", "HELLO")
          => (~FinishSend("fob") /\ OnWay("read", "send", "car", "HELLO")') \/ (OnWay("parse", "loop", "car", "HELLO") \/ Rest)'
    BY CalmSteps, PressIsAStep DEF Rest
  <2>2. OnWay("read", "send", "car", "HELLO") => At("read", "send")
    BY DEF OnWay, At
  <2> QED  BY <2>1, <2>2, PTL DEF LeftAlone, ThreadsRun, Fairly
<1>12. LeftAlone => (OnWay("parse", "loop", "car", "HELLO")
                   ~> OnWay("send", "loop", "car", "CHALL") \/ Rest)
  <2>1. TypeOK /\ Counts /\ CalmInv' /\ [Next]_vars /\ [~Press]_vars /\ OnWay("parse", "loop", "car", "HELLO")
          => (~Parse("car") /\ OnWay("parse", "loop", "car", "HELLO")') \/ (OnWay("send", "loop", "car", "CHALL") \/ Rest)'
    BY CalmSteps, PressIsAStep DEF Rest
  <2>2. OnWay("parse", "loop", "car", "HELLO") => mode["car"] = "parse"
    BY DEF OnWay, At
  <2> QED  BY <2>1, <2>2, PTL DEF LeftAlone, ThreadsRun, Fairly
<1>13. LeftAlone => (Crossing("send", "send")
                   ~> Rest)
  <2>1. TypeOK /\ Counts /\ CalmInv' /\ [Next]_vars /\ [~Press]_vars /\ Crossing("send", "send")
          => (~Collide /\ Crossing("send", "send")') \/ (Rest)'
    BY CrossingSteps, PressIsAStep DEF Rest
  <2>2. Crossing("send", "send") => At("send", "send")
    BY DEF Crossing, At
  <2> QED  BY <2>1, <2>2, PTL DEF LeftAlone, ThreadsRun, Fairly
<1>14. LeftAlone => (Crossing("parse", "send")
                   ~> Crossing("send", "send") \/ OnWay("loop", "send", "fob", "HELLO")
                      \/ OnWay("loop", "send", "fob", "SOLVE") \/ Rest)
  <2>1. TypeOK /\ Counts /\ CalmInv' /\ [Next]_vars /\ [~Press]_vars /\ Crossing("parse", "send")
          => (~Parse("car") /\ Crossing("parse", "send")') \/ (Crossing("send", "send") \/ OnWay("loop", "send", "fob", "HELLO")
                      \/ OnWay("loop", "send", "fob", "SOLVE") \/ Rest)'
    BY CrossingSteps, PressIsAStep DEF Rest
  <2>2. Crossing("parse", "send") => mode["car"] = "parse"
    BY DEF Crossing, At
  <2> QED  BY <2>1, <2>2, PTL DEF LeftAlone, ThreadsRun, Fairly
<1>15. TypeOK /\ CalmInv /\ Calm =>
         \/ OnWay("send", "loop", "car", "END")
         \/ OnWay("send", "read", "fob", "END")
         \/ OnWay("loop", "parse", "fob", "END")
         \/ OnWay("loop", "send", "fob", "SOLVE")
         \/ OnWay("read", "send", "car", "SOLVE")
         \/ OnWay("parse", "loop", "car", "SOLVE")
         \/ OnWay("send", "loop", "car", "CHALL")
         \/ OnWay("send", "read", "fob", "CHALL")
         \/ OnWay("loop", "parse", "fob", "CHALL")
         \/ OnWay("loop", "send", "fob", "HELLO")
         \/ OnWay("read", "send", "car", "HELLO")
         \/ OnWay("parse", "loop", "car", "HELLO")
         \/ Crossing("send", "send") \/ Crossing("parse", "send") \/ Rest
  BY DEF CalmInv, Undamaged, FromCar, FromFob, Calm, At, OnWay, Crossing, Rest, Quiet, Devices
<1> QED
  BY <1>1, <1>2, <1>3, <1>4, <1>5, <1>6, <1>7, <1>8, <1>9, <1>10, <1>11, <1>12, <1>13, <1>14, <1>15, PTL DEF LeftAlone

(* Once the button is left alone for good, the two blocking calls never    *)
(* hang on each other: AlwaysIdleAgain.  However a press in the middle of  *)
(* an exchange made the messages cross, each of uart_send_message,         *)
(* uart_read_message and parse_inc_message is left again, and the devices  *)
(* are idle, until power is cut or noise disturbs them.                    *)
LEMMA LeftAloneIdles == Spec /\ ThreadsRun /\ <>[][~Press]_vars => AlwaysIdleAgain
<1>1. TryInv => Counts
  BY DEF TryInv
<1>2. Quiet => Calm
  BY DEF Quiet, Calm, At, Devices
<1>3. TypeOK /\ Counts /\ CalmInv /\ [Next]_vars /\ (Calm \/ Disturbed) => (Calm \/ Disturbed)'
  BY CalmStays, DisturbedStays
<1>4. Rest => Quiet \/ Disturbed
  BY DEF Rest
<1>5. Disturbed => Rest
  BY DEF Rest
<1>6. LeftAlone => (Calm ~> Rest)
  BY LeftAloneRests
<1>7. Spec /\ ThreadsRun => []TypeOK /\ []Counts /\ []CalmInv /\ [][Next]_vars
  BY <1>1, TypeCorrect, TryInvariance, CalmInvariance, PTL DEF Spec
<1> QED
  BY <1>2, <1>3, <1>4, <1>5, <1>6, <1>7, PTL DEF AlwaysIdleAgain, LeftAlone, ThreadsRun, Fairly

(* Once the button is left alone the blocking calls of both devices return *)
(* until something disturbs them.                                          *)
THEOREM IdleAgainOnceLeftAlone ==
    FairSpec /\ []GuardsEnable /\ <>[][~Press]_vars => AlwaysIdleAgain
  BY LeftAloneIdles, FairnessRunsThreads, PTL DEF FairSpec

(* The button of a fob is pressed MaxPress times at most, so it is left    *)
(* alone for good: a natural number that never grows is the same from some *)
(* time on, which takes an induction over time the provers do not make.    *)
PressesSettle ==
    [](budget["press"] \in Nat) /\ [][budget'["press"] <= budget["press"]]_vars
        => <>[][budget'["press"] = budget["press"]]_vars

(* And so they do always: AlwaysIdleAgain.                                 *)
THEOREM DevicesComeToRest == FairSpec /\ []GuardsEnable /\ PressesSettle => AlwaysIdleAgain
<1>1. TypeOK => budget["press"] \in Nat
  BY DEF TypeOK, Limited
<1>2. TypeOK /\ [Next]_vars => [budget'["press"] <= budget["press"]]_vars
  <2> SUFFICES ASSUME TypeOK, Next PROVE budget'["press"] <= budget["press"]
    BY DEF vars
  <2>1. budget' = budget \/ \E w \in Limited : Spend(w)
    BY DEF Next, Press, StartRead, FinishSend, Parse, CarHello, CarSolve, FobPair, FobChall, FobEnd,
           Reject, HandlerRefuses, Collide, HostAcks, FillTorn, StarveTorn, PowerOff, LosePower, PowerOn,
           Garble, DropByte, UploadFeature, UploadSig, TearFeature, TearSignature, Limited
  <2>2. budget \in [Limited -> Nat] /\ "press" \in Limited
    BY DEF TypeOK, Limited
  <2>3. ASSUME NEW w \in Limited, Spend(w) PROVE budget'["press"] <= budget["press"]
    BY <2>2, <2>3 DEF Spend
  <2> QED  BY <2>1, <2>2, <2>3
<1>3. TypeOK /\ [budget'["press"] = budget["press"]]_vars => [~Press]_vars
  BY <1>1 DEF TypeOK, Limited, Press, Spend, vars
<1> QED
  BY <1>1, <1>2, <1>3, TypeCorrect, IdleAgainOnceLeftAlone, PTL DEF FairSpec, Spec, PressesSettle

=============================================================================
