---------------------------- MODULE PairingProofs ----------------------------
(***************************************************************************)
(* Proofs about Pairing, for secrets of any length and any number of       *)
(* commands, presses, power cuts and messages hit by noise: nothing is     *)
(* learnt without the PIN, a fob that passes for a paired one has all the  *)
(* secrets unless a message was damaged, pairing is final, and the two     *)
(* fobs implement PairingService.                                          *)
(***************************************************************************)
EXTENDS Pairing, TLAPS

LEMMA FobFacts ==
  /\ Fobs = {"ufob", "pfob"}
  /\ \A d \in Fobs : Peer(d) \in Fobs /\ Peer(d) # d
  /\ Peer("ufob") = "pfob" /\ Peer("pfob") = "ufob"
  BY DEF Fobs, Peer

LEMMA PlaceFacts ==
  /\ SecretWords \in Places /\ PinPlace \in Places /\ 1 \in Places
  /\ PinPlace # SecretWords /\ SecretWords \in Nat
  /\ \A p \in Places : p \in Nat /\ p <= SecretWords /\ (p < SecretWords => p + 1 \in Places)
  BY PairingAssumption DEF Places, PinPlace

LEMMA SecretFacts ==
  /\ \A w \in Words : All(w) \in Secrets
  /\ \A w \in Words, p \in Places : All(w)[p] = w
  /\ All("zero") \in Secrets /\ All("pfob") \in Secrets /\ All("own") \in Secrets
  /\ \A s \in Secrets, p \in Places : s[p] \in Words
  /\ \A s \in Secrets, t \in Secrets : (\A p \in Places : s[p] = t[p]) => s = t
<1>1. \A w \in Words : All(w) \in Secrets
  BY DEF All, Secrets
<1>2. \A w \in Words, p \in Places : All(w)[p] = w
  BY DEF All
<1>3. \A s \in Secrets, p \in Places : s[p] \in Words
  BY DEF Secrets
<1>4. \A s \in Secrets, t \in Secrets : (\A p \in Places : s[p] = t[p]) => s = t
  BY DEF Secrets
<1>5. {"zero", "pfob", "own"} \subseteq Words
  BY DEF Words
<1> QED  BY <1>1, <1>2, <1>3, <1>4, <1>5

LEMMA TypeFacts ==
  /\ DevType(All("pfob")) = "p" /\ DevType(All("own")) = "u" /\ DevType(All("zero")) = "none"
  /\ All("pfob") # All("own") /\ All("pfob") # All("zero")
<1>1. /\ All("pfob")[SecretWords] = "pfob" /\ All("own")[SecretWords] = "own"
      /\ All("zero")[SecretWords] = "zero"
  BY SecretFacts, PlaceFacts DEF Words
<1> QED  BY <1>1 DEF DevType

-----------------------------------------------------------------------------
(* What goes over the line are messages.                                   *)
LEMMA ZeroedFacts ==
  /\ Zeroed \in Message /\ Hello \in Message
  /\ Zeroed.secrets = All("zero") /\ Hello.secrets = All("zero")
  /\ Zeroed.pin = "none" /\ Hello.pin = "none"
  /\ Zeroed.rest = "clean" /\ Hello.rest = "clean"
  BY SecretFacts DEF Zeroed, Hello, Message, Magics, Targets, Pins, Rests

LEMMA RequestFacts ==
  ASSUME NEW pin \in {"right", "wrong"}
  PROVE  /\ Request(pin) \in Message
         /\ Request(pin).secrets = All("zero") /\ Request(pin).pin = pin
         /\ Request(pin).rest = "clean"
  BY SecretFacts DEF Zeroed, Request, Message, Magics, Targets, Pins, Rests

LEMMA ResponseFacts ==
  ASSUME NEW s \in Secrets, NEW r \in Rests
  PROVE  /\ Response(s, r) \in Message
         /\ Response(s, r).secrets = s /\ Response(s, r).pin = "none" /\ Response(s, r).rest = r
  BY SecretFacts DEF Zeroed, Response, Message, Magics, Targets, Pins

LEMMA MessageFacts ==
  ASSUME NEW m \in Message
  PROVE  m.secrets \in Secrets /\ m.rest \in Rests
  BY DEF Message

(* A message completed with bytes of another one, whose rest was clean,    *)
(* has no words of the secrets it did not have.                            *)
LEMMA CompletionFacts ==
  ASSUME NEW m \in Message, NEW rest \in Rests, NEW c \in Completions(m, rest)
  PROVE  /\ c \in Message
         /\ c.rest \in {m.rest, "clean"}
         /\ rest = "clean" => \A p \in Places : c.secrets[p] = "pfob" => m.secrets[p] = "pfob"
<1>1. CASE c = m
  BY <1>1
<1>2. CASE c = [Zeroed EXCEPT !.magic = "junk", !.target = m.target]
  <2>1. c \in Message /\ c.rest = "clean" /\ c.secrets = All("zero")
    BY <1>2, ZeroedFacts DEF Message, Zeroed, Magics
  <2> QED  BY <2>1, SecretFacts DEF Words
<1>3. CASE c = [Zeroed EXCEPT !.magic = "junk", !.target = "junk"]
  <2>1. c \in Message /\ c.rest = "clean" /\ c.secrets = All("zero")
    BY <1>3, ZeroedFacts DEF Message, Zeroed, Magics, Targets
  <2> QED  BY <2>1, SecretFacts DEF Words
<1>4. ASSUME NEW t \in 0 .. PinPlace, NEW s \in Mixed(m.secrets, t, rest), NEW pin \in {"junk", "right"},
             c = [m EXCEPT !.pin = pin, !.secrets = s]
      PROVE  /\ c \in Message
             /\ c.rest \in {m.rest, "clean"}
             /\ rest = "clean" => \A p \in Places : c.secrets[p] = "pfob" => m.secrets[p] = "pfob"
  <2>1. m.secrets \in Secrets
    BY MessageFacts
  <2>2. PICK fill \in Filling(rest), last \in Filling(rest) \cup {"typed"} :
          s = [p \in Places |-> CASE p <= t -> m.secrets[p]
                                  [] p > t /\ p < SecretWords -> fill
                                  [] OTHER -> last]
    BY <1>4 DEF Mixed
  <2>f. /\ {fill, last} \subseteq {"junk", "pfob", "typed"}
        /\ rest = "clean" => fill # "pfob" /\ last # "pfob"
    BY DEF Filling
  <2>3. \A p \in Places : /\ s[p] \in Words
                          /\ rest = "clean" /\ s[p] = "pfob" => m.secrets[p] = "pfob"
    <3> TAKE p \in Places
    <3>1. s[p] = CASE p <= t -> m.secrets[p]
                   [] p > t /\ p < SecretWords -> fill
                   [] OTHER -> last
      BY <2>2
    <3>2. m.secrets[p] \in Words
      BY <2>1, SecretFacts
    <3>3. p <= t \/ p > t
      BY PlaceFacts, PairingAssumption DEF Places, PinPlace
    <3>4. CASE p <= t
      <4>1. ~(p > t)
        BY <3>4, PlaceFacts, PairingAssumption DEF PinPlace
      <4>2. s[p] = m.secrets[p]
        BY <3>1, <3>4, <4>1, Zenon
      <4> QED  BY <3>2, <4>2
    <3>5. CASE ~(p <= t)
      <4>1. s[p] \in {fill, last}
        BY <3>1, <3>3, <3>5
      <4> QED  BY <2>f, <4>1 DEF Words
    <3> QED  BY <3>4, <3>5
  <2>4. s \in Secrets
    BY <2>2, <2>3 DEF Secrets
  <2>5. c \in Message /\ c.rest = m.rest /\ c.secrets = s
    BY <1>4, <2>4 DEF Message, Pins
  <2> QED  BY <2>3, <2>5
<1>5. ASSUME NEW pin \in {"junk", "right"},
             c \in {[m EXCEPT !.pin = pin, !.secrets = s] : s \in MixedSecrets(m.secrets, rest)}
      PROVE  /\ c \in Message
             /\ c.rest \in {m.rest, "clean"}
             /\ rest = "clean" => \A p \in Places : c.secrets[p] = "pfob" => m.secrets[p] = "pfob"
  <2>1. PICK s \in MixedSecrets(m.secrets, rest) : c = [m EXCEPT !.pin = pin, !.secrets = s]
    BY <1>5
  <2>2. PICK t \in 0 .. PinPlace : s \in Mixed(m.secrets, t, rest)
    BY <2>1 DEF MixedSecrets
  <2> QED  BY <1>4, <2>1, <2>2
<1> QED  BY <1>1, <1>2, <1>3, <1>5, Zenon DEF Completions

(* Nor has a message that noise hit.                                       *)
LEMMA GarblingFacts ==
  ASSUME NEW m \in Message, NEW g \in Garblings(m)
  PROVE  /\ g \in Message
         /\ g.rest = m.rest
         /\ \A p \in Places : g.secrets[p] = "pfob" => m.secrets[p] = "pfob"
<1>1. CASE \/ \E x \in Magics : g = [m EXCEPT !.magic = x]
           \/ \E x \in Targets : g = [m EXCEPT !.target = x]
           \/ \E x \in Pins : g = [m EXCEPT !.pin = x]
  BY <1>1 DEF Message
<1>2. ASSUME NEW q \in Places, NEW w \in {"junk", "typed"}, g = [m EXCEPT !.secrets[q] = w]
      PROVE  /\ g \in Message /\ g.rest = m.rest
             /\ \A p \in Places : g.secrets[p] = "pfob" => m.secrets[p] = "pfob"
  <2>1. m.secrets \in Secrets /\ w \in Words /\ w # "pfob"
    BY MessageFacts DEF Words
  <2>2. g.secrets = [m.secrets EXCEPT ![q] = w] /\ g.rest = m.rest
    BY <1>2 DEF Message
  <2>3. g.secrets \in Secrets
    BY <2>1, <2>2 DEF Secrets
  <2>4. g \in Message
    BY <1>2, <2>2, <2>3 DEF Message
  <2>5. \A p \in Places : g.secrets[p] \in {m.secrets[p], w}
    BY <2>1, <2>2 DEF Secrets
  <2> QED  BY <2>1, <2>2, <2>4, <2>5
<1>3. CASE \E q \in Places, w \in {"junk", "typed"} : g = [m EXCEPT !.secrets[q] = w]
  BY <1>2, <1>3
<1> QED  BY <1>1, <1>3, PlaceFacts DEF Garblings

-----------------------------------------------------------------------------
LEMMA PairTypeInit == Init => TypeOK
<1> SUFFICES ASSUME Init PROVE TypeOK
  OBVIOUS
<1>1. budget \in [Limited -> Nat]
  BY PairingAssumption DEF Init, Limited
<1>2. /\ eeprom \in [Fobs -> Secrets] /\ dev \in [Fobs -> Secrets]
      /\ msg \in [Fobs -> Message] /\ mode \in [Fobs -> Modes]
  BY SecretFacts, ZeroedFacts DEF Init, Modes
<1>3. /\ flag \in [Fobs -> {"erased", "busy", "done"}] /\ k \in Places /\ long \in BOOLEAN
      /\ given \in BOOLEAN /\ leaked \in BOOLEAN /\ told \in {"nothing", "success", "failure"}
      /\ lost \in BOOLEAN /\ ended \in BOOLEAN /\ damaged \in BOOLEAN /\ asked \in BOOLEAN
  BY PlaceFacts DEF Init
<1> QED  BY <1>1, <1>2, <1>3 DEF TypeOK

(* What no action touches keeps its type: an action's lemma below gives    *)
(* only the variables it changes.                                          *)
LEMMA SendTypes ==
  ASSUME TypeOK, NEW d \in Fobs, NEW m \in Message, Transmit(d, m)
  PROVE  mode' \in [Fobs -> Modes] /\ msg' \in [Fobs -> Message]
  BY DEF TypeOK, Transmit, Modes

LEMMA LoopTypes ==
  ASSUME TypeOK, NEW d \in Fobs, BackToLoop(d)
  PROVE  mode' \in [Fobs -> Modes] /\ msg' \in [Fobs -> Message]
  BY ZeroedFacts DEF TypeOK, BackToLoop, Modes

LEMMA SpendTypes ==
  ASSUME TypeOK, NEW what \in Limited, Spend(what)
  PROVE  budget' \in [Limited -> Nat]
<1>1. budget[what] \in Nat /\ budget[what] > 0
  BY DEF TypeOK, Spend
<1>2. budget[what] - 1 \in Nat
  BY <1>1
<1> QED  BY <1>2 DEF TypeOK, Spend

LEMMA PairTypeStep == TypeOK /\ [Next]_vars => TypeOK'
<1> SUFFICES ASSUME TypeOK, [Next]_vars PROVE TypeOK'
  OBVIOUS
<1> USE FobFacts
<1>1. ASSUME NEW d \in Fobs, Press(d) PROVE TypeOK'
  <2>1. Transmit(d, Hello) /\ Spend("press")
    BY <1>1 DEF Press
  <2>2. mode' \in [Fobs -> Modes] /\ msg' \in [Fobs -> Message]
    BY <2>1, ZeroedFacts, SendTypes
  <2>3. budget' \in [Limited -> Nat]
    BY <2>1, SpendTypes DEF Limited
  <2> QED  BY <1>1, <2>2, <2>3 DEF Press, TypeOK, history
<1>2. ASSUME NEW d \in Fobs, NEW pin \in {"right", "wrong"}, Command(d, pin) PROVE TypeOK'
  <2>1. mode' \in [Fobs -> Modes] /\ msg' \in [Fobs -> Message]
    <3>1. CASE Transmit(d, Request(pin))
      BY <3>1, RequestFacts, SendTypes
    <3>2. CASE UNCHANGED <<mode, msg>>
      BY <3>2 DEF TypeOK
    <3> QED  BY <1>2, <3>1, <3>2 DEF Command
  <2>2. budget' \in [Limited -> Nat]
    BY <1>2, SpendTypes DEF Command, Limited
  <2>3. given' \in BOOLEAN /\ asked' \in BOOLEAN
    BY <1>2 DEF Command
  <2> QED  BY <1>2, <2>1, <2>2, <2>3 DEF Command, TypeOK
<1>3. ASSUME NEW d \in Fobs, StartRead(d) PROVE TypeOK'
  BY <1>3 DEF StartRead, TypeOK, Modes, history
<1>4. ASSUME NEW d \in Fobs, FinishSend(d) PROVE TypeOK'
  BY <1>4, ZeroedFacts DEF FinishSend, TypeOK, Modes, history
<1>5. ASSUME NEW d \in Fobs, Reject(d) PROVE TypeOK'
  <2>1. mode' \in [Fobs -> Modes] /\ msg' \in [Fobs -> Message]
    BY <1>5, LoopTypes DEF Reject
  <2> QED  BY <1>5, <2>1 DEF Reject, TypeOK, history
<1>6. ASSUME NEW d \in Fobs, HandleRequest(d) PROVE TypeOK'
  BY <1>6 DEF HandleRequest, StoreFlag, TypeOK, Modes, history
<1>7. ASSUME NEW d \in Fobs, RefuseResponse(d) PROVE TypeOK'
  <2>1. mode' \in [Fobs -> Modes] /\ msg' \in [Fobs -> Message]
    BY <1>7, LoopTypes DEF RefuseResponse
  <2> QED  BY <1>7, <2>1 DEF RefuseResponse, TypeOK
<1>8. ASSUME NEW d \in Fobs, TakeResponse(d) PROVE TypeOK'
  <2>1. msg[d].secrets \in Secrets
    BY MessageFacts DEF TypeOK
  <2> QED  BY <1>8, <2>1, ZeroedFacts, PlaceFacts DEF TakeResponse, TypeOK, Modes
<1>9. ASSUME NEW d \in Fobs, Respond(d) PROVE TypeOK'
  <2>1. PICK s \in Secrets, r \in Rests : Transmit(d, Response(s, r)) /\ leaked' \in BOOLEAN
    BY <1>9, SecretFacts DEF Respond, TypeOK
  <2>2. mode' \in [Fobs -> Modes] /\ msg' \in [Fobs -> Message]
    BY <2>1, ResponseFacts, SendTypes
  <2>3. flag' \in [Fobs -> {"erased", "busy", "done"}]
    BY <1>9 DEF Respond, StoreFlag, TypeOK
  <2> QED  BY <1>9, <2>1, <2>2, <2>3 DEF Respond, TypeOK
<1>10. ASSUME NEW d \in Fobs, StoreWord(d) PROVE TypeOK'
  <2>1. k' \in Places
    BY <1>10, PlaceFacts DEF StoreWord, TypeOK
  <2>2. eeprom' \in [Fobs -> Secrets]
    BY <1>10, PlaceFacts DEF StoreWord, TypeOK, Secrets
  <2>3. mode' \in [Fobs -> Modes]
    BY <1>10 DEF StoreWord, TypeOK, Modes
  <2> QED  BY <1>10, <2>1, <2>2, <2>3 DEF StoreWord, TypeOK, history
<1>11. ASSUME Collide PROVE TypeOK'
  <2>1. mode' \in [Fobs -> Modes] /\ msg' \in [Fobs -> Message]
    BY <1>11, ZeroedFacts DEF Collide, TypeOK, Modes
  <2> QED  BY <1>11, <2>1 DEF Collide, TypeOK, history
<1>12. ASSUME NEW d \in Fobs, FillTorn(d) PROVE TypeOK'
  <2>1. PICK c \in Completions(msg[d], msg[Peer(d)].rest), after \in {"loop", "cut"} :
          /\ mode' = [mode EXCEPT ![d] = "parse", ![Peer(d)] = after]
          /\ msg' = [msg EXCEPT ![d] = c, ![Peer(d)] = IF after = "loop" THEN Zeroed ELSE @]
          /\ given' = (given \/ c.pin = "right")
    BY <1>12 DEF FillTorn
  <2>2. c \in Message
    BY CompletionFacts, MessageFacts DEF TypeOK
  <2>3. mode' \in [Fobs -> Modes] /\ msg' \in [Fobs -> Message] /\ given' \in BOOLEAN
    BY <2>1, <2>2, ZeroedFacts DEF TypeOK, Modes
  <2> QED  BY <1>12, <2>3 DEF FillTorn, TypeOK
<1>13. ASSUME NEW d \in Fobs, StarveTorn(d) PROVE TypeOK'
  BY <1>13 DEF StarveTorn, TypeOK, Modes, history
<1>14. ASSUME NEW d \in Fobs, PowerOff(d) PROVE TypeOK'
  <2>1. budget' \in [Limited -> Nat]
    BY <1>14, SpendTypes DEF PowerOff, Limited
  <2>2. mode' \in [Fobs -> Modes] /\ msg' \in [Fobs -> Message]
    BY <1>14, ZeroedFacts DEF PowerOff, TypeOK, Modes
  <2>3. lost' \in BOOLEAN /\ ended' \in BOOLEAN /\ damaged' \in BOOLEAN /\ asked' \in BOOLEAN
    BY <1>14 DEF PowerOff
  <2> QED  BY <1>14, <2>1, <2>2, <2>3 DEF PowerOff, TypeOK
<1>15. ASSUME NEW d \in Fobs, PowerOn(d) PROVE TypeOK'
  BY <1>15 DEF PowerOn, TypeOK, Modes, history
<1>16. ASSUME NEW d \in Fobs, Garble(d) PROVE TypeOK'
  <2>1. budget' \in [Limited -> Nat]
    BY <1>16, SpendTypes DEF Garble, Limited
  <2>2. PICK g \in Garblings(msg[d]) : msg' = [msg EXCEPT ![d] = g] /\ given' = (given \/ g.pin = "right")
    BY <1>16 DEF Garble
  <2>3. msg' \in [Fobs -> Message] /\ given' \in BOOLEAN
    BY <2>2, GarblingFacts DEF TypeOK
  <2> QED  BY <1>16, <2>1, <2>3 DEF Garble, TypeOK
<1>17. ASSUME NEW d \in Fobs, DropByte(d) PROVE TypeOK'
  <2>1. budget' \in [Limited -> Nat]
    BY <1>17, SpendTypes DEF DropByte, Limited
  <2>2. mode' \in [Fobs -> Modes] /\ msg' \in [Fobs -> Message]
    BY <1>17, ZeroedFacts DEF DropByte, TypeOK, Modes
  <2> QED  BY <1>17, <2>1, <2>2 DEF DropByte, TypeOK
<1>18. CASE UNCHANGED vars
  BY <1>18 DEF vars, TypeOK
<1> QED
  BY <1>1, <1>2, <1>3, <1>4, <1>5, <1>6, <1>7, <1>8, <1>9, <1>10, <1>11, <1>12, <1>13,
     <1>14, <1>15, <1>16, <1>17, <1>18
  DEF Next, Parse

(* The variables of both fobs keep their types, and eeprom_write stays     *)
(* within the secrets.                                                     *)
THEOREM PairTypeCorrect == Spec => []TypeOK
  BY PairTypeInit, PairTypeStep, PTL DEF Spec

-----------------------------------------------------------------------------
(* All steps but four leave the secrets alone, and keep to a few moves of *)
(* the threads.                                                            *)
Plain ==
    /\ UNCHANGED <<dev, eeprom, k>>
    /\ \A d \in Fobs : \/ mode'[d] = mode[d]
                       \/ mode'[d] = "off"
                       \/ mode[d] \notin {"off", "store"} /\ mode'[d] \notin {"off", "slow", "store"}

LEMMA SendMoves ==
  ASSUME TypeOK, NEW d \in Fobs, NEW m, Transmit(d, m)
  PROVE  mode'[d] \in {"send", "cut"} /\ \A e \in Fobs : e # d => mode'[e] = mode[e]
<1>1. mode \in [Fobs -> Modes]
  BY DEF TypeOK
<1>2. PICK next \in {"send", "cut"} : mode' = [mode EXCEPT ![d] = next]
  BY DEF Transmit
<1> QED  BY <1>1, <1>2

LEMMA StepKinds ==
  ASSUME TypeOK, [Next]_vars
  PROVE  Plain \/ \E d \in Fobs : HandleRequest(d) \/ TakeResponse(d) \/ StoreWord(d) \/ PowerOn(d)
<1> USE FobFacts
<1>0. mode \in [Fobs -> Modes]
  BY DEF TypeOK
<1>1. ASSUME NEW d \in Fobs, Press(d) PROVE Plain
  <2>1. mode[d] = "loop" /\ Transmit(d, Hello) /\ UNCHANGED <<dev, eeprom, k>>
    BY <1>1 DEF Press
  <2> QED  BY <2>1, SendMoves DEF Plain
<1>2. ASSUME NEW d \in Fobs, NEW pin \in {"right", "wrong"}, Command(d, pin) PROVE Plain
  <2>1. mode[d] = "loop" /\ UNCHANGED <<dev, eeprom, k>>
    BY <1>2 DEF Command
  <2>2. Transmit(d, Request(pin)) \/ UNCHANGED mode
    BY <1>2 DEF Command
  <2> QED  BY <2>1, <2>2, SendMoves DEF Plain
<1>3. ASSUME NEW d \in Fobs, StartRead(d) PROVE Plain
  BY <1>0, <1>3 DEF StartRead, Plain
<1>4. ASSUME NEW d \in Fobs, FinishSend(d) PROVE Plain
  BY <1>0, <1>4 DEF FinishSend, Plain
<1>5. ASSUME NEW d \in Fobs, Reject(d) PROVE Plain
  <2>1. /\ mode[d] = "parse" /\ mode' = [mode EXCEPT ![d] = "loop"]
        /\ UNCHANGED <<dev, eeprom, k>>
    BY <1>5 DEF Reject, BackToLoop
  <2> QED  BY <1>0, <2>1 DEF Plain
<1>7. ASSUME NEW d \in Fobs, RefuseResponse(d) PROVE Plain
  <2>1. /\ mode[d] = "parse" /\ mode' = [mode EXCEPT ![d] = "loop"]
        /\ UNCHANGED <<dev, eeprom, k>>
    BY <1>7 DEF RefuseResponse, ForPairing, BackToLoop
  <2> QED  BY <1>0, <2>1 DEF Plain
<1>8. ASSUME NEW d \in Fobs, Respond(d) PROVE Plain
  <2>1. PICK m : Transmit(d, m)
    BY <1>8 DEF Respond
  <2>2. mode[d] = "slow" /\ UNCHANGED <<dev, eeprom, k>>
    BY <1>8 DEF Respond
  <2> QED  BY <2>1, <2>2, SendMoves DEF Plain
<1>9. ASSUME Collide PROVE Plain
  BY <1>0, <1>9 DEF Collide, Plain
<1>10. ASSUME NEW d \in Fobs, FillTorn(d) PROVE Plain
  BY <1>0, <1>10 DEF FillTorn, Plain
<1>11. ASSUME NEW d \in Fobs, StarveTorn(d) PROVE Plain
  BY <1>0, <1>11 DEF StarveTorn, Plain
<1>12. ASSUME NEW d \in Fobs, PowerOff(d) PROVE Plain
  BY <1>0, <1>12 DEF PowerOff, Plain
<1>13. ASSUME NEW d \in Fobs, Garble(d) PROVE Plain
  BY <1>13 DEF Garble, Plain
<1>14. ASSUME NEW d \in Fobs, DropByte(d) PROVE Plain
  BY <1>0, <1>14 DEF DropByte, Plain
<1>15. CASE UNCHANGED vars
  BY <1>15 DEF vars, Plain
<1> QED
  BY <1>1, <1>2, <1>3, <1>4, <1>5, <1>7, <1>8, <1>9, <1>10, <1>11, <1>12, <1>13, <1>14, <1>15
  DEF Next, Parse

(* The other four, variable by variable.                                   *)
LEMMA RequestStep ==
  ASSUME TypeOK, NEW d \in Fobs, HandleRequest(d)
  PROVE  /\ mode[d] = "parse" /\ mode'[d] = "slow" /\ DevType(dev[d]) = "p"
         /\ \A e \in Fobs : e # d => mode'[e] = mode[e]
         /\ UNCHANGED <<dev, eeprom, k>>
<1>1. /\ mode[d] = "parse" /\ DevType(dev[d]) = "p" /\ mode \in [Fobs -> Modes]
      /\ mode' = [mode EXCEPT ![d] = "slow"] /\ UNCHANGED <<dev, eeprom, k>>
  BY DEF HandleRequest, ForPairing, TypeOK
<1> QED  BY <1>1

LEMMA TakeStep ==
  ASSUME TypeOK, NEW d \in Fobs, TakeResponse(d)
  PROVE  /\ mode[d] = "parse" /\ mode'[d] = "store"
         /\ DevType(dev[d]) = "u" /\ DevType(msg[d].secrets) = "p"
         /\ dev'[d] = msg[d].secrets /\ k' = 1
         /\ \A e \in Fobs : e # d => mode'[e] = mode[e] /\ dev'[e] = dev[e]
         /\ UNCHANGED eeprom
<1>1. /\ mode[d] = "parse" /\ DevType(dev[d]) = "u" /\ DevType(msg[d].secrets) = "p"
      /\ mode' = [mode EXCEPT ![d] = "store"] /\ k' = 1
      /\ dev' = [dev EXCEPT ![d] = msg[d].secrets] /\ UNCHANGED eeprom
  BY DEF TakeResponse, ForPairing
<1>2. mode \in [Fobs -> Modes] /\ dev \in [Fobs -> Secrets]
  BY DEF TypeOK
<1> QED  BY <1>1, <1>2

LEMMA OnStep ==
  ASSUME TypeOK, NEW d \in Fobs, PowerOn(d)
  PROVE  /\ mode[d] = "off" /\ mode'[d] = "loop" /\ dev'[d] = eeprom[d]
         /\ \A e \in Fobs : e # d => mode'[e] = mode[e] /\ dev'[e] = dev[e]
         /\ UNCHANGED <<eeprom, k>>
<1>1. mode \in [Fobs -> Modes] /\ dev \in [Fobs -> Secrets]
  BY DEF TypeOK
<1>2. /\ mode[d] = "off" /\ mode' = [mode EXCEPT ![d] = "loop"]
      /\ dev' = [dev EXCEPT ![d] = eeprom[d]] /\ UNCHANGED <<eeprom, k>>
  BY DEF PowerOn
<1> QED  BY <1>1, <1>2

LEMMA StoreStep ==
  ASSUME TypeOK, NEW d \in Fobs, StoreWord(d)
  PROVE  /\ mode[d] = "store" /\ k \in Places /\ UNCHANGED <<dev, msg>>
         /\ \A e \in Fobs : e # d => mode'[e] = mode[e] /\ eeprom'[e] = eeprom[e]
         /\ \A p \in Places : p # k => eeprom'[d][p] = eeprom[d][p]
         /\ eeprom'[d][k] = dev[d][k]
         /\ \/ /\ k < SecretWords /\ k' = k + 1 /\ mode'[d] = "store"
               /\ DevType(eeprom'[d]) = DevType(eeprom[d])
            \/ /\ k = SecretWords /\ mode'[d] = "loop"
               /\ DevType(eeprom'[d]) = DevType(dev[d])
<1>1. /\ mode[d] = "store" /\ k \in Places
      /\ eeprom' = [eeprom EXCEPT ![d][k] = dev[d][k]] /\ UNCHANGED <<dev, msg>>
      /\ \/ k < SecretWords /\ k' = k + 1 /\ UNCHANGED mode
         \/ k = SecretWords /\ mode' = [mode EXCEPT ![d] = "loop"]
  BY PlaceFacts DEF StoreWord, TypeOK
<1>2. eeprom \in [Fobs -> Secrets] /\ dev \in [Fobs -> Secrets] /\ mode \in [Fobs -> Modes]
  BY DEF TypeOK
<1>3. \A e \in Fobs : e # d => mode'[e] = mode[e] /\ eeprom'[e] = eeprom[e]
  BY <1>1, <1>2
<1>4. /\ \A p \in Places : p # k => eeprom'[d][p] = eeprom[d][p]
      /\ eeprom'[d][k] = dev[d][k]
  BY <1>1, <1>2 DEF Secrets
<1>5. CASE k < SecretWords
  <2>1. k # SecretWords /\ k' = k + 1 /\ mode'[d] = "store"
    BY <1>1, <1>5, PlaceFacts
  <2>2. eeprom'[d][SecretWords] = eeprom[d][SecretWords]
    BY <1>4, <2>1, PlaceFacts
  <2>3. DevType(eeprom'[d]) = DevType(eeprom[d])
    BY <2>2 DEF DevType
  <2> QED  BY <1>1, <1>3, <1>4, <1>5, <2>1, <2>3
<1>6. CASE k = SecretWords
  <2>1. mode'[d] = "loop"
    BY <1>1, <1>2, <1>6, PlaceFacts
  <2>2. DevType(eeprom'[d]) = DevType(dev[d])
    BY <1>4, <1>6 DEF DevType
  <2> QED  BY <1>1, <1>3, <1>4, <1>6, <2>1, <2>2
<1> QED  BY <1>1, <1>5, <1>6

-----------------------------------------------------------------------------
(* The type a fob goes by.  In the delays of handle_pair_request it is a   *)
(* paired fob's, in eeprom_write the one it will have.                     *)
TypesOf(d) ==
    /\ mode[d] = "store" => DevType(eeprom[d]) = "u"
    /\ mode[d] \notin {"off", "store"} => DevType(dev[d]) = DevType(eeprom[d])
    /\ mode[d] \in {"slow", "store"} => DevType(dev[d]) = "p"
TypesInv == \A d \in Fobs : TypesOf(d)

LEMMA TypesInit == Init => TypesInv
  BY DEF Init, TypesInv, TypesOf

LEMMA TypesStep == TypeOK /\ TypesInv /\ [Next]_vars => TypesInv'
<1> SUFFICES ASSUME TypeOK, TypesInv, [Next]_vars, NEW e \in Fobs PROVE TypesOf(e)'
  BY DEF TypesInv
<1>1. TypesOf(e)
  BY DEF TypesInv
<1>2. ASSUME mode'[e] = mode[e], dev'[e] = dev[e], eeprom'[e] = eeprom[e] PROVE TypesOf(e)'
  BY <1>1, <1>2 DEF TypesOf, DevType
<1>3. CASE Plain
  <2>1. dev'[e] = dev[e] /\ eeprom'[e] = eeprom[e]
    BY <1>3 DEF Plain
  <2>2. \/ mode'[e] = mode[e]
        \/ mode'[e] = "off"
        \/ mode[e] \notin {"off", "store"} /\ mode'[e] \notin {"off", "slow", "store"}
    BY <1>3 DEF Plain
  <2> QED  BY <1>1, <2>1, <2>2 DEF TypesOf, DevType
<1>4. ASSUME NEW d \in Fobs, HandleRequest(d) PROVE TypesOf(e)'
  BY <1>1, <1>2, <1>4, RequestStep DEF TypesOf, DevType
<1>5. ASSUME NEW d \in Fobs, TakeResponse(d) PROVE TypesOf(e)'
  BY <1>1, <1>2, <1>5, TakeStep DEF TypesOf, DevType
<1>6. ASSUME NEW d \in Fobs, StoreWord(d) PROVE TypesOf(e)'
  <2>1. CASE e # d
    BY <1>2, <1>6, <2>1, StoreStep
  <2>2. CASE e = d
    BY <1>1, <1>6, <2>2, StoreStep DEF TypesOf, DevType
  <2> QED  BY <2>1, <2>2
<1>7. ASSUME NEW d \in Fobs, PowerOn(d) PROVE TypesOf(e)'
  BY <1>1, <1>2, <1>7, OnStep DEF TypesOf, DevType
<1> QED  BY <1>3, <1>4, <1>5, <1>6, <1>7, StepKinds

-----------------------------------------------------------------------------
(* What the history variables remember of a step.                          *)
Remembers ==
    /\ \/ UNCHANGED <<given, leaked, damaged>>
       \/ given' = TRUE /\ UNCHANGED <<leaked, damaged>>
       \/ leaked' = TRUE /\ UNCHANGED <<given, damaged>>
       \/ damaged' = TRUE /\ given' \in {given, TRUE} /\ UNCHANGED leaked
    /\ lost => lost'
    /\ \A d \in Fobs : /\ mode[d] = "store" /\ mode'[d] = "off" => lost'
                       /\ mode'[d] = "torn" /\ mode[d] # "torn" => damaged'

LEMMA HistoryStep ==
  ASSUME TypeOK, [Next]_vars
  PROVE  /\ Remembers
         /\ told' = "success" => told = "success" \/ \E d \in Fobs : TakeResponse(d)
<1> USE FobFacts
<1>0. /\ mode \in [Fobs -> Modes] /\ given \in BOOLEAN /\ leaked \in BOOLEAN
      /\ damaged \in BOOLEAN /\ lost \in BOOLEAN
  BY DEF TypeOK
<1>a. ASSUME UNCHANGED <<given, leaked, damaged, lost>>,
             \A d \in Fobs : /\ mode[d] = "store" => mode'[d] # "off"
                             /\ mode[d] # "torn" => mode'[d] # "torn"
      PROVE  Remembers
  BY <1>a DEF Remembers
<1>1. ASSUME NEW d \in Fobs, Press(d) PROVE Remembers /\ told' = told
  <2>1. mode[d] = "loop" /\ Transmit(d, Hello) /\ UNCHANGED <<given, leaked, damaged, lost, told>>
    BY <1>1 DEF Press, history
  <2> QED  BY <1>a, <2>1, SendMoves
<1>2. ASSUME NEW d \in Fobs, NEW pin \in {"right", "wrong"}, Command(d, pin)
      PROVE  Remembers /\ told' = told
  <2>1. mode[d] = "loop" /\ UNCHANGED <<leaked, damaged, lost, told>> /\ given' = (given \/ pin = "right")
    BY <1>2 DEF Command
  <2>2. Transmit(d, Request(pin)) \/ UNCHANGED mode
    BY <1>2 DEF Command
  <2>3. given' = given \/ given' = TRUE
    BY <1>0, <2>1, Zenon
  <2>4. \A e \in Fobs : /\ mode[e] = "store" => mode'[e] # "off"
                        /\ mode[e] # "torn" => mode'[e] # "torn"
    BY <2>1, <2>2, SendMoves
  <2> QED  BY <2>1, <2>3, <2>4 DEF Remembers
<1>3. ASSUME NEW d \in Fobs, StartRead(d) PROVE Remembers /\ told' = told
  BY <1>0, <1>3 DEF StartRead, Remembers, history
<1>4. ASSUME NEW d \in Fobs, FinishSend(d) PROVE Remembers /\ told' = told
  BY <1>0, <1>4 DEF FinishSend, Remembers, history
<1>5. ASSUME NEW d \in Fobs, Reject(d) PROVE Remembers /\ told' = told
  BY <1>0, <1>5 DEF Reject, BackToLoop, Remembers, history
<1>6. ASSUME NEW d \in Fobs, HandleRequest(d) PROVE Remembers /\ told' = told
  BY <1>0, <1>6 DEF HandleRequest, Remembers, history
<1>7. ASSUME NEW d \in Fobs, RefuseResponse(d) PROVE Remembers /\ told' = "failure"
  BY <1>0, <1>7 DEF RefuseResponse, BackToLoop, Remembers
<1>8. ASSUME NEW d \in Fobs, TakeResponse(d) PROVE Remembers
  BY <1>0, <1>8 DEF TakeResponse, Remembers
<1>9. ASSUME NEW d \in Fobs, Respond(d) PROVE Remembers /\ told' = told
  <2>1. PICK m : Transmit(d, m)
    BY <1>9 DEF Respond
  <2>2. mode[d] = "slow" /\ UNCHANGED <<given, damaged, lost, told>>
    BY <1>9 DEF Respond
  <2>3. \E rest \in Rests : leaked' = (leaked \/ rest = "secret")
    BY <1>9 DEF Respond
  <2>4. leaked' = leaked \/ leaked' = TRUE
    BY <1>0, <2>3, Zenon
  <2>5. \A e \in Fobs : /\ mode[e] = "store" => mode'[e] # "off"
                        /\ mode[e] # "torn" => mode'[e] # "torn"
    BY <2>1, <2>2, SendMoves
  <2> QED  BY <2>2, <2>4, <2>5 DEF Remembers
<1>10. ASSUME NEW d \in Fobs, StoreWord(d) PROVE Remembers /\ told' = told
  <2>1. UNCHANGED <<given, leaked, damaged, lost, told>>
    BY <1>10 DEF StoreWord, history
  <2>2. mode' = mode \/ mode' = [mode EXCEPT ![d] = "loop"]
    BY <1>10 DEF StoreWord
  <2> QED  BY <1>0, <2>1, <2>2 DEF Remembers
<1>11. ASSUME Collide PROVE Remembers /\ told' = told
  BY <1>0, <1>11 DEF Collide, Remembers, history
<1>12. ASSUME NEW d \in Fobs, FillTorn(d) PROVE Remembers /\ told' = told
  <2>1. \E c : given' = (given \/ c.pin = "right")
    BY <1>12 DEF FillTorn
  <2>2. given' = given \/ given' = TRUE
    BY <1>0, <2>1, Zenon
  <2>3. UNCHANGED <<leaked, damaged, lost, told>>
    BY <1>12 DEF FillTorn
  <2>4. \A e \in Fobs : mode'[e] = mode[e] \/ mode'[e] \in {"parse", "loop", "cut"}
    BY <1>0, <1>12 DEF FillTorn
  <2> QED  BY <2>2, <2>3, <2>4 DEF Remembers
<1>13. ASSUME NEW d \in Fobs, StarveTorn(d) PROVE Remembers /\ told' = told
  BY <1>0, <1>13 DEF StarveTorn, Remembers, history
<1>14. ASSUME NEW d \in Fobs, PowerOff(d) PROVE Remembers /\ told' = told
  <2>1. /\ lost' = (lost \/ mode[d] = "store") /\ damaged' = (damaged \/ mode[Peer(d)] = "read")
        /\ UNCHANGED <<given, leaked, told>>
    BY <1>14 DEF PowerOff
  <2>2. UNCHANGED damaged \/ damaged' = TRUE
    BY <1>0, <2>1, Zenon
  <2>3. \A e \in Fobs : /\ mode'[e] = "off" => e = d \/ mode[e] = "off"
                        /\ mode'[e] = "torn" /\ mode[e] # "torn" => e = Peer(d) /\ mode[e] = "read"
    BY <1>0, <1>14 DEF PowerOff
  <2>4. \A e \in Fobs : /\ mode[e] = "store" /\ mode'[e] = "off" => lost'
                        /\ mode'[e] = "torn" /\ mode[e] # "torn" => damaged'
    BY <2>1, <2>3
  <2> QED  BY <1>0, <2>1, <2>2, <2>4 DEF Remembers
<1>15. ASSUME NEW d \in Fobs, PowerOn(d) PROVE Remembers /\ told' = told
  BY <1>0, <1>15 DEF PowerOn, Remembers, history
<1>16. ASSUME NEW d \in Fobs, Garble(d) PROVE Remembers /\ told' = told
  <2>1. \E g : given' = (given \/ g.pin = "right")
    BY <1>16 DEF Garble
  <2>2. given' = given \/ given' = TRUE
    BY <1>0, <2>1, Zenon
  <2>3. damaged' = TRUE /\ UNCHANGED <<mode, leaked, lost, told>>
    BY <1>16 DEF Garble
  <2> QED  BY <2>2, <2>3 DEF Remembers
<1>17. ASSUME NEW d \in Fobs, DropByte(d) PROVE Remembers /\ told' = told
  <2>1. damaged' = TRUE /\ UNCHANGED <<given, leaked, lost, told>>
    BY <1>17 DEF DropByte
  <2>2. \A e \in Fobs : mode'[e] = mode[e] \/ mode'[e] \in {"torn", "loop", "cut"}
    BY <1>0, <1>17 DEF DropByte
  <2> QED  BY <2>1, <2>2 DEF Remembers
<1>18. CASE UNCHANGED vars
  BY <1>a, <1>18 DEF vars
<1> QED
  BY <1>1, <1>2, <1>3, <1>4, <1>5, <1>6, <1>7, <1>8, <1>9, <1>10, <1>11, <1>12, <1>13,
     <1>14, <1>15, <1>16, <1>17, <1>18
  DEF Next, Parse, vars

-----------------------------------------------------------------------------
(* Where the message of a fob can come from in a step.                     *)
Origin(d) ==
    \/ \E e \in Fobs : msg'[d] = msg[e]
    \/ msg'[d] \in {Zeroed, Hello}
    \/ \E pin \in {"right", "wrong"} : msg'[d] = Request(pin) /\ (pin = "right" => given')
    \/ /\ mode[d] = "torn" /\ msg'[d] \in Completions(msg[d], msg[Peer(d)].rest)
       /\ msg'[d].pin = "right" => given'
    \/ msg'[d] \in Garblings(msg[d]) /\ damaged' /\ (msg'[d].pin = "right" => given')
    \/ \E rest \in Rests : /\ mode[d] = "slow" /\ (rest = "secret" => leaked')
                          /\ \/ msg[d].pin = "right" /\ msg'[d] = Response(dev[d], rest)
                             \/ msg'[d] = Response(All("zero"), rest)

LEMMA OriginStep ==
  ASSUME TypeOK, [Next]_vars
  PROVE  \A d \in Fobs : Origin(d)
<1> USE FobFacts
<1>0. msg \in [Fobs -> Message]
  BY DEF TypeOK
<1>a. ASSUME NEW d \in Fobs, NEW m, msg' = [msg EXCEPT ![d] = m]
      PROVE  msg'[d] = m /\ \A e \in Fobs : e # d => Origin(e)
  <2>1. msg'[d] = m /\ \A e \in Fobs : e # d => msg'[e] = msg[e]
    BY <1>0, <1>a
  <2> QED  BY <2>1 DEF Origin
<1>b. ASSUME UNCHANGED msg PROVE \A e \in Fobs : Origin(e)
  BY <1>b DEF Origin
<1>c. ASSUME NEW d \in Fobs, msg' = [msg EXCEPT ![d] = Zeroed] PROVE \A e \in Fobs : Origin(e)
  <2>1. Origin(d)
    BY <1>a, <1>c DEF Origin
  <2> QED  BY <1>a, <1>c, <2>1
<1>1. ASSUME NEW d \in Fobs, Press(d) PROVE \A e \in Fobs : Origin(e)
  <2>1. msg' = [msg EXCEPT ![d] = Hello]
    BY <1>1 DEF Press, Transmit
  <2>2. Origin(d)
    BY <1>a, <2>1 DEF Origin
  <2> QED  BY <1>a, <2>1, <2>2
<1>2. ASSUME NEW d \in Fobs, NEW pin \in {"right", "wrong"}, Command(d, pin)
      PROVE  \A e \in Fobs : Origin(e)
  <2>1. CASE UNCHANGED msg
    BY <1>b, <2>1
  <2>2. CASE msg' = [msg EXCEPT ![d] = Request(pin)]
    <3>1. pin = "right" => given'
      BY <1>2 DEF Command
    <3>2. Origin(d)
      BY <1>a, <2>2, <3>1 DEF Origin
    <3> QED  BY <1>a, <2>2, <3>2
  <2> QED  BY <1>2, <2>1, <2>2 DEF Command, Transmit
<1>3. ASSUME NEW d \in Fobs, StartRead(d) PROVE \A e \in Fobs : Origin(e)
  <2>1. msg' = [msg EXCEPT ![d] = msg[Peer(d)]]
    BY <1>3 DEF StartRead
  <2>2. Origin(d)
    BY <1>a, <2>1 DEF Origin
  <2> QED  BY <1>a, <2>1, <2>2
<1>4. ASSUME NEW d \in Fobs, FinishSend(d) \/ Reject(d) \/ RefuseResponse(d) \/ TakeResponse(d)
                              \/ PowerOff(d)
      PROVE  \A e \in Fobs : Origin(e)
  <2>1. msg' = [msg EXCEPT ![d] = Zeroed]
    BY <1>4 DEF FinishSend, Reject, RefuseResponse, TakeResponse, PowerOff, BackToLoop
  <2> QED  BY <1>c, <2>1
<1>5. ASSUME NEW d \in Fobs, HandleRequest(d) \/ StoreWord(d) \/ StarveTorn(d) \/ PowerOn(d)
      PROVE  \A e \in Fobs : Origin(e)
  <2>1. UNCHANGED msg
    BY <1>5 DEF HandleRequest, StoreWord, StarveTorn, PowerOn
  <2> QED  BY <1>b, <2>1
<1>6. ASSUME NEW d \in Fobs, Respond(d) PROVE \A e \in Fobs : Origin(e)
  <2> DEFINE s == IF PinMatches(d, msg[d].pin) THEN dev[d] ELSE All("zero")
  <2>1. PICK rest \in Rests : /\ mode[d] = "slow" /\ msg' = [msg EXCEPT ![d] = Response(s, rest)]
                             /\ leaked' = (leaked \/ rest = "secret")
    BY <1>6 DEF Respond, Transmit
  <2>2. s = All("zero") \/ (s = dev[d] /\ msg[d].pin = "right")
    BY DEF PinMatches
  <2> HIDE DEF s
  <2>3. msg'[d] = Response(s, rest)
    BY <1>a, <2>1
  <2>4. Origin(d)
    BY <2>1, <2>2, <2>3 DEF Origin
  <2> QED  BY <1>a, <2>1, <2>4
<1>7. ASSUME Collide PROVE \A e \in Fobs : Origin(e)
  <2>1. \A e \in Fobs : msg'[e] \in {msg[e], Zeroed}
    BY <1>0, <1>7 DEF Collide
  <2> QED  BY <2>1 DEF Origin
<1>8. ASSUME NEW d \in Fobs, FillTorn(d) PROVE \A e \in Fobs : Origin(e)
  <2>1. PICK c \in Completions(msg[d], msg[Peer(d)].rest), after \in {"loop", "cut"} :
          /\ msg' = [msg EXCEPT ![d] = c, ![Peer(d)] = IF after = "loop" THEN Zeroed ELSE @]
          /\ given' = (given \/ c.pin = "right")
    BY <1>8 DEF FillTorn
  <2>2. mode[d] = "torn" /\ msg'[d] = c /\ msg'[Peer(d)] \in {msg[Peer(d)], Zeroed}
    BY <1>0, <1>8, <2>1 DEF FillTorn
  <2>3. Origin(d)
    BY <2>1, <2>2 DEF Origin
  <2>4. Origin(Peer(d))
    BY <2>2 DEF Origin
  <2> QED  BY <2>3, <2>4
<1>9. ASSUME NEW d \in Fobs, Garble(d) PROVE \A e \in Fobs : Origin(e)
  <2>1. PICK g \in Garblings(msg[d]) : /\ msg' = [msg EXCEPT ![d] = g]
                                      /\ given' = (given \/ g.pin = "right")
    BY <1>9 DEF Garble
  <2>2. msg'[d] = g /\ damaged'
    BY <1>a, <1>9, <2>1 DEF Garble
  <2>3. Origin(d)
    BY <2>1, <2>2 DEF Origin
  <2> QED  BY <1>a, <2>1, <2>3
<1>10. ASSUME NEW d \in Fobs, DropByte(d) PROVE \A e \in Fobs : Origin(e)
  <2>1. \A e \in Fobs : msg'[e] \in {msg[e], Zeroed}
    BY <1>0, <1>10 DEF DropByte
  <2> QED  BY <2>1 DEF Origin
<1>11. CASE UNCHANGED vars
  BY <1>b, <1>11 DEF vars
<1> QED
  BY <1>1, <1>2, <1>3, <1>4, <1>5, <1>6, <1>7, <1>8, <1>9, <1>10, <1>11 DEF Next, Parse

-----------------------------------------------------------------------------
(* What the history remembers of the messages.                             *)
LineInv ==
    \A d \in Fobs : /\ mode[d] = "torn" => damaged
                    /\ msg[d].rest = "secret" => leaked
                    /\ msg[d].pin = "right" => given

LEMMA LineInit == Init => LineInv
  BY ZeroedFacts DEF Init, LineInv

LEMMA LineStep == TypeOK /\ LineInv /\ [Next]_vars => LineInv'
<1> SUFFICES ASSUME TypeOK, LineInv, [Next]_vars, NEW d \in Fobs
             PROVE  /\ mode'[d] = "torn" => damaged'
                    /\ msg'[d].rest = "secret" => leaked'
                    /\ msg'[d].pin = "right" => given'
  BY DEF LineInv
<1>0. /\ (given => given') /\ (leaked => leaked') /\ (damaged => damaged')
      /\ mode'[d] = "torn" => damaged'
  BY HistoryStep DEF Remembers, LineInv, TypeOK
<1>m. \A e \in Fobs : msg[e] \in Message /\ msg[e].rest \in Rests
  BY MessageFacts DEF TypeOK
<1>1. CASE \E e \in Fobs : msg'[d] = msg[e]
  BY <1>0, <1>1 DEF LineInv
<1>2. CASE msg'[d] \in {Zeroed, Hello}
  BY <1>0, <1>2, ZeroedFacts
<1>3. CASE \E pin \in {"right", "wrong"} : msg'[d] = Request(pin) /\ (pin = "right" => given')
  BY <1>0, <1>3, RequestFacts
<1>4. CASE msg'[d] \in Completions(msg[d], msg[Peer(d)].rest) /\ (msg'[d].pin = "right" => given')
  <2>1. msg'[d].rest \in {msg[d].rest, "clean"}
    BY <1>4, <1>m, FobFacts, CompletionFacts
  <2> QED  BY <1>0, <1>4, <2>1 DEF LineInv
<1>5. CASE msg'[d] \in Garblings(msg[d]) /\ (msg'[d].pin = "right" => given')
  <2>1. msg'[d].rest = msg[d].rest
    BY <1>5, <1>m, GarblingFacts
  <2> QED  BY <1>0, <1>5, <2>1 DEF LineInv
<1>6. ASSUME NEW rest \in Rests, rest = "secret" => leaked',
             NEW s \in Secrets, msg'[d] = Response(s, rest)
      PROVE  (msg'[d].rest = "secret" => leaked') /\ msg'[d].pin # "right"
  BY <1>6, ResponseFacts
<1>7. dev[d] \in Secrets /\ All("zero") \in Secrets
  BY SecretFacts DEF TypeOK
<1> QED  BY <1>0, <1>1, <1>2, <1>3, <1>4, <1>5, <1>6, <1>7, OriginStep DEF Origin

(* What is known without the PIN: no word of the paired fob's secrets is   *)
(* outside it, but for those among the rest of a response, which are never *)
(* taken for the 40 bytes as long as no message is damaged.                *)
Secret == ~given /\ ~(leaked /\ damaged)
Clean(m) == \A p \in Places : m.secrets[p] # "pfob"
KnowInv ==
    Secret => /\ \A p \in Places : dev["ufob"][p] # "pfob" /\ eeprom["ufob"][p] # "pfob"
              /\ \A d \in Fobs : Clean(msg[d])

LEMMA KnowInit == Init => KnowInv
<1> SUFFICES ASSUME Init PROVE KnowInv
  OBVIOUS
<1>1. \A p \in Places : All("zero")[p] = "zero" /\ All("own")[p] = "own"
  BY SecretFacts DEF Words
<1>2. \A d \in Fobs : Clean(msg[d])
  BY <1>1, ZeroedFacts DEF Init, Clean
<1>3. dev["ufob"] = All("zero") /\ eeprom["ufob"] = All("own")
  BY FobFacts DEF Init
<1> QED  BY <1>1, <1>2, <1>3 DEF KnowInv

LEMMA SecretStays ==
  ASSUME TypeOK, [Next]_vars, Secret'
  PROVE  Secret /\ (damaged => ~leaked)
  BY HistoryStep DEF Remembers, Secret, TypeOK

LEMMA CleanStep ==
  ASSUME TypeOK, LineInv, [Next]_vars, Secret', NEW d \in Fobs, \A e \in Fobs : Clean(msg[e])
  PROVE  Clean(msg'[d])
<1>0. \A p \in Places : All("zero")[p] # "pfob"
  BY SecretFacts DEF Words
<1>s. ~given /\ ~given' /\ (damaged => ~leaked)
  BY SecretStays DEF Secret
<1>m. \A e \in Fobs : msg[e] \in Message /\ msg[e].rest \in Rests
  BY MessageFacts DEF TypeOK
<1>1. CASE \E e \in Fobs : msg'[d] = msg[e]
  BY <1>1
<1>2. CASE msg'[d] \in {Zeroed, Hello}
  BY <1>0, <1>2, ZeroedFacts DEF Clean
<1>3. CASE \E pin \in {"right", "wrong"} : msg'[d] = Request(pin)
  BY <1>0, <1>3, RequestFacts DEF Clean
<1>4. CASE mode[d] = "torn" /\ msg'[d] \in Completions(msg[d], msg[Peer(d)].rest)
  <2>1. msg[Peer(d)].rest = "clean"
    BY <1>4, <1>m, <1>s, FobFacts DEF LineInv, Rests
  <2>2. \A p \in Places : msg'[d].secrets[p] = "pfob" => msg[d].secrets[p] = "pfob"
    BY <1>4, <1>m, <2>1, FobFacts, CompletionFacts
  <2> QED  BY <2>2 DEF Clean
<1>5. CASE msg'[d] \in Garblings(msg[d])
  <2>1. \A p \in Places : msg'[d].secrets[p] = "pfob" => msg[d].secrets[p] = "pfob"
    BY <1>5, <1>m, GarblingFacts
  <2> QED  BY <2>1 DEF Clean
<1>6. CASE \E rest \in Rests : msg'[d] = Response(All("zero"), rest)
  BY <1>0, <1>6, SecretFacts, ResponseFacts DEF Clean
<1>7. msg[d].pin # "right"
  BY <1>s DEF LineInv
<1> QED  BY <1>1, <1>2, <1>3, <1>4, <1>5, <1>6, <1>7, OriginStep DEF Origin

LEMMA KnowStep == TypeOK /\ LineInv /\ KnowInv /\ [Next]_vars => KnowInv'
<1> SUFFICES ASSUME TypeOK, LineInv, KnowInv, [Next]_vars, Secret'
             PROVE  /\ \A p \in Places : dev'["ufob"][p] # "pfob" /\ eeprom'["ufob"][p] # "pfob"
                    /\ \A d \in Fobs : Clean(msg'[d])
  BY DEF KnowInv, Clean
<1> USE FobFacts
<1>1. Secret
  BY SecretStays
<1>2. \A d \in Fobs : Clean(msg'[d])
  BY <1>1, CleanStep DEF KnowInv
<1>3. \A p \in Places : dev["ufob"][p] # "pfob" /\ eeprom["ufob"][p] # "pfob"
  BY <1>1 DEF KnowInv
<1>4. CASE Plain
  BY <1>2, <1>3, <1>4 DEF Plain
<1>5. ASSUME NEW d \in Fobs, HandleRequest(d) \/ PowerOn(d)
      PROVE  \A p \in Places : dev'["ufob"][p] # "pfob" /\ eeprom'["ufob"][p] # "pfob"
  <2>1. UNCHANGED eeprom /\ dev'["ufob"] \in {dev["ufob"], eeprom["ufob"]}
    BY <1>5, RequestStep, OnStep
  <2> QED  BY <1>3, <2>1
<1>6. ASSUME NEW d \in Fobs, TakeResponse(d)
      PROVE  \A p \in Places : dev'["ufob"][p] # "pfob" /\ eeprom'["ufob"][p] # "pfob"
  <2>1. UNCHANGED eeprom /\ dev'["ufob"] \in {dev["ufob"], msg["ufob"].secrets}
    BY <1>6, TakeStep
  <2>2. \A p \in Places : msg["ufob"].secrets[p] # "pfob"
    BY <1>1 DEF KnowInv, Clean
  <2> QED  BY <1>3, <2>1, <2>2
<1>7. ASSUME NEW d \in Fobs, StoreWord(d)
      PROVE  \A p \in Places : dev'["ufob"][p] # "pfob" /\ eeprom'["ufob"][p] # "pfob"
  <2>1. /\ dev' = dev /\ k \in Places
        /\ \A p \in Places : eeprom'["ufob"][p] \in {eeprom["ufob"][p], dev["ufob"][p]}
    BY <1>7, StoreStep
  <2> QED  BY <1>3, <2>1
<1> QED  BY <1>2, <1>4, <1>5, <1>6, <1>7, StepKinds

(* Without the right PIN no word of the paired fob's secrets is in the 40  *)
(* bytes of a response or in the other fob: SecretNeedsPin.                *)
THEOREM SecretsNeedPin == Spec => []SecretNeedsPin
<1>1. KnowInv => SecretNeedsPin
  BY DEF KnowInv, SecretNeedsPin, Clean, Secret
<1> QED
  BY <1>1, KnowInit, KnowStep, LineInit, LineStep, PairTypeInit, PairTypeStep, PTL DEF Spec

-----------------------------------------------------------------------------
(* The paired fob keeps its secrets: the stored ones never change, and     *)
(* those in RAM are the same from its first boot on.                       *)
PfobInv ==
    /\ eeprom["pfob"] = All("pfob")
    /\ dev["pfob"] \in {All("zero"), All("pfob")}
    /\ mode["pfob"] # "store"
    /\ mode["pfob"] # "off" => dev["pfob"] = All("pfob")

LEMMA PfobInit == Init => PfobInv
  BY FobFacts DEF Init, PfobInv

LEMMA OnlyUfobStores ==
  ASSUME TypeOK, PfobInv, NEW d \in Fobs, TakeResponse(d) \/ StoreWord(d)
  PROVE  d = "ufob"
<1>1. CASE TakeResponse(d)
  <2>1. DevType(dev[d]) = "u" /\ mode[d] = "parse"
    BY <1>1, TakeStep
  <2>2. mode["pfob"] = "parse" => DevType(dev["pfob"]) = "p"
    BY TypeFacts DEF PfobInv
  <2> QED  BY <2>1, <2>2, FobFacts
<1>2. CASE StoreWord(d)
  BY <1>2, FobFacts DEF StoreWord, PfobInv
<1> QED  BY <1>1, <1>2

LEMMA PfobStep == TypeOK /\ PfobInv /\ [Next]_vars => PfobInv'
<1> SUFFICES ASSUME TypeOK, PfobInv, [Next]_vars PROVE PfobInv'
  OBVIOUS
<1> USE FobFacts
<1>1. CASE Plain
  <2>1. \/ mode'["pfob"] = mode["pfob"]
        \/ mode'["pfob"] = "off"
        \/ mode["pfob"] # "off" /\ mode'["pfob"] # "store"
    BY <1>1 DEF Plain
  <2>2. dev'["pfob"] = dev["pfob"] /\ eeprom'["pfob"] = eeprom["pfob"]
    BY <1>1 DEF Plain
  <2> QED  BY <2>1, <2>2 DEF PfobInv
<1>2. ASSUME NEW d \in Fobs, HandleRequest(d) PROVE PfobInv'
  BY <1>2, RequestStep DEF PfobInv
<1>3. ASSUME NEW d \in Fobs, PowerOn(d) PROVE PfobInv'
  BY <1>3, OnStep DEF PfobInv
<1>4. ASSUME NEW d \in Fobs, TakeResponse(d) PROVE PfobInv'
  BY <1>4, OnlyUfobStores, TakeStep DEF PfobInv
<1>5. ASSUME NEW d \in Fobs, StoreWord(d) PROVE PfobInv'
  BY <1>5, OnlyUfobStores, StoreStep DEF PfobInv
<1> QED  BY <1>1, <1>2, <1>3, <1>4, <1>5, StepKinds

-----------------------------------------------------------------------------
(* While no message has been damaged: a response under way carries all of  *)
(* the secrets or none; they are stored in order, the type last.           *)
LineWhole == \A d \in Fobs : /\ mode[d] # "torn"
                             /\ msg[d].secrets \in {All("zero"), All("pfob")}
FobWhole ==
    /\ DevType(dev["ufob"]) = "p" => dev["ufob"] = All("pfob")
    /\ DevType(eeprom["ufob"]) = "p" => eeprom["ufob"] = All("pfob")
    /\ mode["ufob"] = "store" => \A p \in Places : p < k => eeprom["ufob"][p] = dev["ufob"][p]
UndamagedInv == ~damaged => LineWhole /\ FobWhole

LEMMA UndamagedInit == Init => UndamagedInv
<1> SUFFICES ASSUME Init PROVE LineWhole /\ FobWhole
  BY DEF UndamagedInv
<1>1. LineWhole
  BY ZeroedFacts DEF Init, LineWhole
<1>2. FobWhole
  BY FobFacts, TypeFacts DEF Init, FobWhole
<1> QED  BY <1>1, <1>2

LEMMA LineWholeStep ==
  ASSUME TypeOK, TypesInv, PfobInv, LineWhole, FobWhole, [Next]_vars, ~damaged'
  PROVE  LineWhole'
<1> SUFFICES ASSUME NEW d \in Fobs
             PROVE  mode'[d] # "torn" /\ msg'[d].secrets \in {All("zero"), All("pfob")}
  BY DEF LineWhole, All
<1>1. mode'[d] # "torn"
  BY HistoryStep DEF Remembers, LineWhole
<1>2. CASE \E e \in Fobs : msg'[d] = msg[e]
  BY <1>1, <1>2 DEF LineWhole
<1>3. CASE msg'[d] \in {Zeroed, Hello}
  BY <1>1, <1>3, ZeroedFacts
<1>4. CASE \E pin \in {"right", "wrong"} : msg'[d] = Request(pin)
  BY <1>1, <1>4, RequestFacts
<1>5. CASE mode[d] = "slow" /\ \E rest \in Rests : msg'[d] = Response(dev[d], rest)
  <2>1. dev[d] = All("pfob")
    <3>1. CASE d = "pfob"
      BY <1>5, <3>1 DEF PfobInv
    <3>2. CASE d = "ufob"
      BY <1>5, <3>2 DEF TypesInv, TypesOf, FobWhole
    <3> QED  BY <3>1, <3>2, FobFacts
  <2> QED  BY <1>1, <1>5, <2>1, SecretFacts, ResponseFacts
<1>6. CASE \E rest \in Rests : msg'[d] = Response(All("zero"), rest)
  BY <1>1, <1>6, SecretFacts, ResponseFacts
<1>7. mode[d] # "torn"
  BY DEF LineWhole
<1> QED  BY <1>2, <1>3, <1>4, <1>5, <1>6, <1>7, OriginStep DEF Origin

LEMMA FobWholeStep ==
  ASSUME TypeOK, TypesInv, PfobInv, LineWhole, FobWhole, [Next]_vars
  PROVE  FobWhole'
<1> USE FobFacts
<1>0. dev \in [Fobs -> Secrets] /\ eeprom \in [Fobs -> Secrets]
  BY DEF TypeOK
<1>1. CASE Plain
  <2>1. mode'["ufob"] = "store" => mode["ufob"] = "store"
    BY <1>1 DEF Plain
  <2>2. dev' = dev /\ eeprom' = eeprom /\ k' = k
    BY <1>1 DEF Plain
  <2> QED  BY <2>1, <2>2 DEF FobWhole, DevType
<1>2. ASSUME NEW d \in Fobs, HandleRequest(d) PROVE FobWhole'
  <2>1. mode'["ufob"] = "store" => mode["ufob"] = "store"
    BY <1>2, RequestStep
  <2>2. dev' = dev /\ eeprom' = eeprom /\ k' = k
    BY <1>2, RequestStep
  <2> QED  BY <2>1, <2>2 DEF FobWhole, DevType
<1>3. ASSUME NEW d \in Fobs, PowerOn(d) PROVE FobWhole'
  <2>1. CASE d = "ufob"
    <3>1. mode'["ufob"] = "loop" /\ dev'["ufob"] = eeprom["ufob"] /\ eeprom' = eeprom
      BY <1>3, <2>1, OnStep
    <3> QED  BY <3>1 DEF FobWhole, DevType
  <2>2. CASE d # "ufob"
    <3>1. /\ mode'["ufob"] = mode["ufob"] /\ dev'["ufob"] = dev["ufob"]
          /\ eeprom' = eeprom /\ k' = k
      BY <1>3, <2>2, OnStep
    <3> QED  BY <3>1 DEF FobWhole, DevType
  <2> QED  BY <2>1, <2>2
<1>4. ASSUME NEW d \in Fobs, TakeResponse(d) PROVE FobWhole'
  <2>1. d = "ufob"
    BY <1>4, OnlyUfobStores
  <2>2. /\ dev'["ufob"] = msg["ufob"].secrets /\ DevType(msg["ufob"].secrets) = "p"
        /\ eeprom' = eeprom /\ k' = 1
    BY <1>4, <2>1, TakeStep
  <2>3. dev'["ufob"] = All("pfob")
    BY <2>2, TypeFacts DEF LineWhole
  <2>4. \A p \in Places : ~(p < k')
    BY <2>2 DEF Places
  <2> QED  BY <2>2, <2>3, <2>4 DEF FobWhole, DevType
<1>5. ASSUME NEW d \in Fobs, StoreWord(d) PROVE FobWhole'
  <2>1. d = "ufob"
    BY <1>5, OnlyUfobStores
  <2>2. /\ mode["ufob"] = "store" /\ k \in Places /\ dev' = dev
        /\ \A p \in Places : p # k => eeprom'["ufob"][p] = eeprom["ufob"][p]
        /\ eeprom'["ufob"][k] = dev["ufob"][k]
    BY <1>5, <2>1, StoreStep
  <2>3. \A p \in Places : p < k => eeprom["ufob"][p] = dev["ufob"][p]
    BY <2>2 DEF FobWhole
  <2>4. DevType(eeprom["ufob"]) = "u" /\ DevType(dev["ufob"]) = "p"
    BY <2>2 DEF TypesInv, TypesOf
  <2>5. CASE k < SecretWords
    <3>1. k' = k + 1 /\ DevType(eeprom'["ufob"]) = "u"
      BY <1>5, <2>1, <2>4, <2>5, StoreStep, PlaceFacts
    <3>2. \A p \in Places : p < k' => p < k \/ p = k
      BY <2>2, <3>1 DEF Places
    <3>3. \A p \in Places : p < k' => eeprom'["ufob"][p] = dev["ufob"][p]
      <4> SUFFICES ASSUME NEW p \in Places, p < k' PROVE eeprom'["ufob"][p] = dev["ufob"][p]
        OBVIOUS
      <4>1. CASE p = k
        BY <2>2, <4>1
      <4>2. CASE p # k
        BY <2>2, <2>3, <3>2, <4>2
      <4> QED  BY <4>1, <4>2
    <3> QED  BY <2>2, <3>1, <3>3 DEF FobWhole, DevType
  <2>6. CASE k = SecretWords
    <3>1. mode'["ufob"] = "loop"
      BY <1>5, <2>1, <2>6, StoreStep, PlaceFacts
    <3>2. \A p \in Places : p < k \/ p = k
      BY <2>6, PlaceFacts
    <3>3. \A p \in Places : eeprom'["ufob"][p] = dev["ufob"][p]
      <4> TAKE p \in Places
      <4>1. CASE p = k
        BY <2>2, <4>1
      <4>2. CASE p # k
        BY <2>2, <2>3, <3>2, <4>2
      <4> QED  BY <4>1, <4>2
    <3>4. eeprom' \in [Fobs -> Secrets]
      BY PairTypeStep DEF TypeOK
    <3>5. eeprom'["ufob"] = dev["ufob"]
      BY <1>0, <3>3, <3>4, SecretFacts
    <3> QED  BY <2>2, <3>1, <3>5 DEF FobWhole, DevType
  <2> QED  BY <2>2, <2>5, <2>6, PlaceFacts, StoreStep, <1>5
<1> QED  BY <1>1, <1>2, <1>3, <1>4, <1>5, StepKinds

LEMMA UndamagedStep == TypeOK /\ TypesInv /\ PfobInv /\ UndamagedInv /\ [Next]_vars => UndamagedInv'
<1> SUFFICES ASSUME TypeOK, TypesInv, PfobInv, UndamagedInv, [Next]_vars, ~damaged'
             PROVE  LineWhole' /\ FobWhole'
  BY DEF UndamagedInv
<1>1. ~damaged
  BY HistoryStep DEF Remembers, TypeOK
<1>2. LineWhole /\ FobWhole
  BY <1>1 DEF UndamagedInv
<1> QED  BY <1>2, LineWholeStep, FobWholeStep

-----------------------------------------------------------------------------
(* A fob told to be paired is, or is about to be.                          *)
ToldInv == told = "success" /\ ~lost => Paired("ufob") \/ mode["ufob"] = "store"

LEMMA ToldInit == Init => ToldInv
  BY DEF Init, ToldInv

LEMMA ToldStep == TypeOK /\ TypesInv /\ PfobInv /\ ToldInv /\ [Next]_vars => ToldInv'
<1> SUFFICES ASSUME TypeOK, TypesInv, PfobInv, ToldInv, [Next]_vars,
                    told' = "success", ~lost'
             PROVE  DevType(eeprom'["ufob"]) = "p" \/ mode'["ufob"] = "store"
  BY DEF ToldInv, Paired, DevType
<1> USE FobFacts
<1>1. ASSUME NEW d \in Fobs, TakeResponse(d)
      PROVE  mode'["ufob"] = "store"
  BY <1>1, OnlyUfobStores, TakeStep
<1>2. SUFFICES ASSUME ~\E d \in Fobs : TakeResponse(d)
               PROVE  DevType(eeprom'["ufob"]) = "p" \/ mode'["ufob"] = "store"
  BY <1>1
<1>3. DevType(eeprom["ufob"]) = "p" \/ mode["ufob"] = "store"
  BY <1>2, HistoryStep DEF Remembers, ToldInv, Paired
<1>4. ASSUME eeprom'["ufob"] = eeprom["ufob"], mode["ufob"] = "store" => mode'["ufob"] = "store"
      PROVE  DevType(eeprom'["ufob"]) = "p" \/ mode'["ufob"] = "store"
  BY <1>3, <1>4 DEF DevType
<1>5. CASE Plain
  <2>1. mode["ufob"] = "store" => mode'["ufob"] # "off"
    BY HistoryStep DEF Remembers
  <2>2. eeprom'["ufob"] = eeprom["ufob"]
    BY <1>5 DEF Plain
  <2>3. mode["ufob"] = "store" => mode'["ufob"] = "store"
    BY <1>5, <2>1 DEF Plain
  <2> QED  BY <1>4, <2>2, <2>3
<1>6. ASSUME NEW d \in Fobs, HandleRequest(d) PROVE DevType(eeprom'["ufob"]) = "p" \/ mode'["ufob"] = "store"
  BY <1>4, <1>6, RequestStep
<1>7. ASSUME NEW d \in Fobs, PowerOn(d) PROVE DevType(eeprom'["ufob"]) = "p" \/ mode'["ufob"] = "store"
  BY <1>4, <1>7, OnStep
<1>8. ASSUME NEW d \in Fobs, StoreWord(d) PROVE DevType(eeprom'["ufob"]) = "p" \/ mode'["ufob"] = "store"
  <2>1. d = "ufob"
    BY <1>8, OnlyUfobStores
  <2>2. DevType(dev["ufob"]) = "p"
    BY <1>8, <2>1, StoreStep DEF TypesInv, TypesOf
  <2> QED  BY <1>8, <2>1, <2>2, StoreStep
<1> QED  BY <1>2, <1>5, <1>6, <1>7, <1>8, StepKinds

-----------------------------------------------------------------------------
(* All of it together.                                                     *)
PairingInv == TypeOK /\ TypesInv /\ LineInv /\ KnowInv /\ PfobInv /\ UndamagedInv /\ ToldInv

LEMMA PairingInvInit == Init => PairingInv
  BY PairTypeInit, TypesInit, LineInit, KnowInit, PfobInit, UndamagedInit, ToldInit DEF PairingInv

LEMMA PairingInvStep == PairingInv /\ [Next]_vars => PairingInv'
  BY PairTypeStep, TypesStep, LineStep, KnowStep, PfobStep, UndamagedStep, ToldStep DEF PairingInv

LEMMA PairingInvariance == Spec => []PairingInv
  BY PairingInvInit, PairingInvStep, PTL DEF Spec

(* A fob that goes by a paired fob's type has all of its secrets, unless a *)
(* message was cut off in the middle or hit by noise.                      *)
THEOREM PairedHasAll == Spec => []PairedIsWhole
<1>1. PairingInv => PairedIsWhole
  <2> SUFFICES ASSUME PairingInv, ~damaged, NEW d \in Fobs
               PROVE  /\ DevType(dev[d]) = "p" => dev[d] = All("pfob")
                      /\ Paired(d) => eeprom[d] = All("pfob")
    BY DEF PairedIsWhole
  <2>1. CASE d = "pfob"
    BY <2>1, TypeFacts DEF PairingInv, PfobInv
  <2>2. CASE d = "ufob"
    BY <2>2 DEF PairingInv, UndamagedInv, FobWhole, Paired
  <2> QED  BY <2>1, <2>2, FobFacts
<1> QED  BY <1>1, PairingInvariance, PTL

(* Told "success" and not interrupted while storing, the fob is paired.    *)
THEOREM SuccessIsLasting == Spec => []SuccessIsKept
<1>1. PairingInv => SuccessIsKept
  BY DEF PairingInv, ToldInv, SuccessIsKept
<1> QED  BY <1>1, PairingInvariance, PTL

LEMMA PairedStays ==
  ASSUME TypeOK, TypesInv, [Next]_vars, NEW d \in Fobs, Paired(d)
  PROVE  eeprom'[d] = eeprom[d]
<1>2. CASE Plain
  BY <1>2 DEF Plain
<1>3. ASSUME NEW e \in Fobs, HandleRequest(e) \/ TakeResponse(e) \/ PowerOn(e)
      PROVE  eeprom'[d] = eeprom[d]
  BY <1>3, RequestStep, TakeStep, OnStep
<1>4. ASSUME NEW e \in Fobs, StoreWord(e) PROVE eeprom'[d] = eeprom[d]
  <2>1. mode[e] = "store"
    BY <1>4, StoreStep
  <2>2. e # d
    BY <2>1 DEF TypesInv, TypesOf, Paired
  <2> QED  BY <1>4, <2>2, StoreStep
<1> QED  BY <1>2, <1>3, <1>4, StepKinds

(* What a paired fob has stored is never written again.                    *)
THEOREM PairingStays == Spec => PairingIsFinal
<1>1. PairingInv /\ [Next]_vars => [\A d \in Fobs : Paired(d) => eeprom'[d] = eeprom[d]]_vars
  BY PairedStays DEF PairingInv
<1> QED  BY <1>1, PairingInvariance, PTL DEF Spec, PairingIsFinal

-----------------------------------------------------------------------------
(* The refinement.                                                         *)
Copies == {d \in Fobs : eeprom[d] = All("pfob")}
Spoilt == {d \in Fobs : Paired(d) /\ eeprom[d] # All("pfob")}

LEMMA SetsOfFobs ==
  ASSUME NEW S \in SUBSET Fobs, NEW T \in SUBSET Fobs, "pfob" \in S <=> "pfob" \in T
  PROVE  /\ ("ufob" \in S <=> "ufob" \in T) => T = S
         /\ "ufob" \in T => T = S \cup {"ufob"}
<1>1. \A x \in S \cup T : x = "ufob" \/ x = "pfob"
  BY FobFacts
<1>2. ASSUME "ufob" \in S <=> "ufob" \in T PROVE T = S
  <2>1. \A x : x \in S <=> x \in T
    BY <1>1, <1>2
  <2> QED  BY <2>1
<1>3. ASSUME "ufob" \in T PROVE T = S \cup {"ufob"}
  <2>1. \A x : x \in T <=> x \in S \cup {"ufob"}
    BY <1>1, <1>3
  <2> QED  BY <2>1
<1> QED  BY <1>2, <1>3

LEMMA ServiceInit == Init => Service!Init
<1> SUFFICES ASSUME Init PROVE Service!Init
  OBVIOUS
<1>1. eeprom["ufob"] = All("own") /\ eeprom["pfob"] = All("pfob")
  BY FobFacts DEF Init
<1>2. Copies = {"pfob"} /\ Spoilt = {}
  BY <1>1, FobFacts, TypeFacts DEF Copies, Spoilt, Paired
<1> QED  BY <1>2 DEF Init, Service!Init, Copies, Spoilt

LEMMA ServiceStep ==
  PairingInv /\ [Next]_vars
    => [Service!Give \/ Service!Leak \/ Service!Damage \/ Service!Copy \/ Service!Spoil]_(Service!serviceVars)
<1> DEFINE Remember == \/ Service!Give \/ Service!Leak \/ Service!Damage
                       \/ UNCHANGED <<given, leaked, damaged, Copies, Spoilt>>
<1> SUFFICES ASSUME PairingInv, [Next]_vars
             PROVE  Remember \/ Service!Copy \/ Service!Spoil
  BY DEF Service!serviceVars, Copies, Spoilt
<1> USE FobFacts
<1>1. TypeOK /\ TypesInv /\ LineInv /\ KnowInv /\ PfobInv /\ UndamagedInv
  BY DEF PairingInv
<1>2. ASSUME eeprom' = eeprom PROVE Remember
  <2>1. UNCHANGED <<Copies, Spoilt>>
    BY <1>2 DEF Copies, Spoilt, Paired, DevType
  <2>2. \/ UNCHANGED <<given, leaked, damaged>>
        \/ given' = TRUE /\ UNCHANGED <<leaked, damaged>>
        \/ leaked' = TRUE /\ UNCHANGED <<given, damaged>>
        \/ damaged' = TRUE /\ given' \in {given, TRUE} /\ UNCHANGED leaked
    BY <1>1, HistoryStep DEF Remembers
  <2> QED  BY <2>1, <2>2 DEF Service!Give, Service!Leak, Service!Damage, Copies, Spoilt
<1>3. CASE Plain
  BY <1>2, <1>3 DEF Plain
<1>4. ASSUME NEW d \in Fobs, HandleRequest(d) \/ TakeResponse(d) \/ PowerOn(d) PROVE Remember
  BY <1>1, <1>2, <1>4, RequestStep, TakeStep, OnStep
<1>5. ASSUME NEW d \in Fobs, StoreWord(d)
      PROVE  Service!Copy \/ Service!Spoil \/ UNCHANGED <<given, leaked, damaged, Copies, Spoilt>>
  <2>1. d = "ufob"
    BY <1>1, <1>5, OnlyUfobStores
  <2>2. /\ UNCHANGED <<given, leaked, damaged>> /\ dev' = dev /\ mode["ufob"] = "store"
        /\ eeprom'["pfob"] = eeprom["pfob"]
    BY <1>1, <1>5, <2>1, StoreStep DEF StoreWord, history
  <2>3. DevType(eeprom["ufob"]) = "u" /\ DevType(dev["ufob"]) = "p"
    BY <1>1, <2>2 DEF TypesInv, TypesOf
  <2>4. "ufob" \notin Copies /\ "ufob" \notin Spoilt
    BY <2>3, TypeFacts DEF Copies, Spoilt, Paired
  <2>5. /\ "pfob" \in Copies <=> "pfob" \in Copies'
        /\ "pfob" \in Spoilt <=> "pfob" \in Spoilt'
    BY <2>2 DEF Copies, Spoilt, Paired, DevType, All
  <2>6. Copies \subseteq Fobs /\ Copies' \subseteq Fobs /\ Spoilt \subseteq Fobs /\ Spoilt' \subseteq Fobs
    BY DEF Copies, Spoilt
  <2>7. CASE DevType(eeprom'["ufob"]) = "u"
    <3>1. "ufob" \notin Copies' /\ "ufob" \notin Spoilt'
      BY <2>7, TypeFacts DEF Copies, Spoilt, Paired, DevType, All
    <3>2. Copies' = Copies /\ Spoilt' = Spoilt
      BY <2>4, <2>5, <2>6, <3>1, SetsOfFobs
    <3> QED  BY <2>2, <3>2
  <2>8. CASE DevType(eeprom'["ufob"]) = "p"
    <3>1. CASE eeprom'["ufob"] = All("pfob")
      <4>1. eeprom'["ufob"][SecretWords] = "pfob"
        BY <3>1, SecretFacts, PlaceFacts DEF Words
      <4>2. given \/ (leaked /\ damaged)
        BY <1>1, <2>2, <4>1, KnowStep, PlaceFacts DEF KnowInv, Secret
      <4>3. "ufob" \in Copies' /\ "ufob" \notin Spoilt'
        BY <3>1 DEF Copies, Spoilt, All
      <4>4. Copies' = Copies \cup {"ufob"} /\ Spoilt' = Spoilt
        BY <2>4, <2>5, <2>6, <4>3, SetsOfFobs
      <4> QED  BY <2>2, <2>4, <4>2, <4>4 DEF Service!Copy, Copies, Spoilt
    <3>2. CASE eeprom'["ufob"] # All("pfob")
      <4>1. damaged
        BY <1>1, <2>2, <2>8, <3>2, UndamagedStep DEF UndamagedInv, FobWhole, DevType, All
      <4>2. "ufob" \notin Copies' /\ "ufob" \in Spoilt'
        BY <2>8, <3>2 DEF Copies, Spoilt, Paired, DevType, All
      <4>3. Spoilt' = Spoilt \cup {"ufob"} /\ Copies' = Copies
        BY <2>4, <2>5, <2>6, <4>2, SetsOfFobs
      <4> QED  BY <2>2, <2>4, <4>1, <4>3 DEF Service!Spoil, Copies, Spoilt
    <3> QED  BY <3>1, <3>2
  <2> QED  BY <1>1, <1>5, <2>1, <2>3, <2>7, <2>8, StoreStep
<1> QED  BY <1>1, <1>3, <1>4, <1>5, StepKinds

(* The two fobs, with the power cut at any point and messages mixed or     *)
(* garbled, do what PairingService promises.                               *)
THEOREM PairingImplements == Spec => ImplementsService
  BY ServiceInit, ServiceStep, PairingInvariance, PTL DEF Spec, ImplementsService, Service!Spec

-----------------------------------------------------------------------------
(* That a command with the right PIN pairs.  From send_pair_request to the *)
(* end of handle_pair_resp's eeprom_write the fobs go through the          *)
(* following places, one after the other, as long as nothing disturbs      *)
(* them; the place of handle_pair_request's delays is Deciding.            *)
At(u, p) == mode["ufob"] = u /\ mode["pfob"] = p
Exchange(u, p, d, m) == At(u, p) /\ DevType(dev["ufob"]) = "u" /\ msg[d] = m
Answer == {Response(All("pfob"), rest) : rest \in Rests}   \* all a paired fob may send
Carrying(u, p, d) == \E m \in Answer : Exchange(u, p, d, m)

Asking == Exchange("send", "loop", "ufob", Request("right"))
Hearing == Exchange("send", "read", "pfob", Request("right"))
Checking == Exchange("loop", "parse", "pfob", Request("right"))
Deciding == Exchange("loop", "slow", "pfob", Request("right"))
Answering == Carrying("loop", "send", "pfob")
Listening == Carrying("read", "send", "ufob")
Taking == Carrying("parse", "loop", "ufob")
Storing == At("store", "loop")

InExchange == \/ Asking \/ Hearing \/ Checking \/ Deciding
              \/ Answering \/ Listening \/ Taking \/ Storing

AskedInv ==
    /\ DevType(eeprom["ufob"]) \in {"u", "p"}
    /\ asked => Paired("ufob") \/ InExchange

LEMMA AskedInit == Init => AskedInv
<1>1. Init => eeprom["ufob"] = All("own") /\ ~asked
  BY FobFacts DEF Init
<1> QED  BY <1>1, TypeFacts DEF AskedInv

(* As long as nothing disturbs the fobs, each place has one step.          *)
LEMMA OnlyStep ==
  ASSUME TypeOK, Next, asked', ~Quiet
  PROVE  /\ At("send", "loop") => StartRead("pfob")
         /\ At("send", "read") => FinishSend("ufob")
         /\ At("loop", "parse") => Parse("pfob")
         /\ At("loop", "slow") => Respond("pfob")
         /\ At("loop", "send") => StartRead("ufob")
         /\ At("read", "send") => FinishSend("pfob")
         /\ At("parse", "loop") => Parse("ufob")
         /\ At("store", "loop") => StoreWord("ufob")
<1> USE FobFacts
<1>1. \A d \in Fobs : /\ ~Press(d) /\ ~PowerOff(d) /\ ~Garble(d) /\ ~DropByte(d)
                      /\ \A pin \in {"right", "wrong"} : ~Command(d, pin)
  BY DEF Press, PowerOff, Garble, DropByte, Command
<1>2. \/ \E d \in Fobs : \/ StartRead(d) \/ FinishSend(d) \/ Parse(d) \/ Respond(d) \/ StoreWord(d)
                         \/ FillTorn(d) \/ StarveTorn(d) \/ PowerOn(d)
      \/ Collide
  BY <1>1 DEF Next
<1>3. \A d \in Fobs :
        /\ StartRead(d) => mode[d] = "loop" /\ mode[Peer(d)] = "send"
        /\ FinishSend(d) => mode[d] = "send" /\ mode[Peer(d)] = "read"
        /\ Parse(d) => mode[d] = "parse"
        /\ Respond(d) => mode[d] = "slow"
        /\ StoreWord(d) => mode[d] = "store"
        /\ FillTorn(d) \/ StarveTorn(d) => mode[d] = "torn"
        /\ PowerOn(d) => mode[d] = "off"
  BY DEF StartRead, FinishSend, Parse, Reject, HandleRequest, RefuseResponse, TakeResponse, ForPairing,
         Respond, StoreWord, FillTorn, StarveTorn, PowerOn
<1>4. Collide => \E d \in Fobs : mode[d] = "send" /\ mode[Peer(d)] \in {"send", "cut"}
  BY DEF Collide
<1> QED  BY <1>2, <1>3, <1>4 DEF At

(* And that step leads to the next place.                                  *)
LEMMA ExchangeStep ==
  ASSUME TypeOK, PfobInv, TypesInv, Next, asked', InExchange
  PROVE  /\ Asking => Hearing'
         /\ Hearing => Checking'
         /\ Checking => Deciding'
         /\ Deciding => Answering'
         /\ Answering => Listening'
         /\ Listening => Taking'
         /\ Taking => Storing'
         /\ Storing => \/ Storing' /\ k < SecretWords /\ k' = k + 1
                       \/ Paired("ufob")'
<1> USE FobFacts
<1>q. ~Quiet
  BY DEF InExchange, Asking, Hearing, Checking, Deciding, Answering, Listening, Taking, Storing,
         Carrying, Exchange, At, Quiet
<1>t. /\ mode \in [Fobs -> Modes] /\ msg \in [Fobs -> Message] /\ dev \in [Fobs -> Secrets]
      /\ eeprom \in [Fobs -> Secrets]
  BY DEF TypeOK
<1>p. mode["pfob"] # "off" => dev["pfob"] = All("pfob") /\ DevType(dev["pfob"]) = "p"
  BY TypeFacts DEF PfobInv
<1>r. /\ Request("right").magic = "P" /\ Request("right").target = "p" /\ Request("right").pin = "right"
      /\ \A m \in Answer : m.magic = "P" /\ m.target = "u" /\ m.secrets = All("pfob")
  <2>1. \A rest \in Rests : /\ Response(All("pfob"), rest).magic = "P"
                            /\ Response(All("pfob"), rest).target = "u"
                            /\ Response(All("pfob"), rest).secrets = All("pfob")
    BY DEF Response, Zeroed
  <2>2. /\ Request("right").magic = "P" /\ Request("right").target = "p"
        /\ Request("right").pin = "right"
    BY DEF Request, Zeroed
  <2> QED  BY <2>1, <2>2 DEF Answer
<1>d. ASSUME UNCHANGED dev PROVE DevType(dev["ufob"])' = DevType(dev["ufob"])
  BY <1>d DEF DevType
<1>1. ASSUME Asking PROVE Hearing'
  <2>1. StartRead("pfob")
    BY <1>q, <1>1, OnlyStep DEF Asking, Exchange
  <2> QED  BY <1>1, <1>d, <1>t, <2>1 DEF StartRead, Asking, Hearing, Exchange, At
<1>2. ASSUME Hearing PROVE Checking'
  <2>1. FinishSend("ufob")
    BY <1>q, <1>2, OnlyStep DEF Hearing, Exchange
  <2> QED  BY <1>2, <1>d, <1>t, <2>1 DEF FinishSend, Hearing, Checking, Exchange, At
<1>3. ASSUME Checking PROVE Deciding'
  <2>1. Parse("pfob") /\ ForPairing("pfob", "p") /\ ~ForPairing("pfob", "u")
    BY <1>p, <1>q, <1>r, <1>3, OnlyStep DEF Checking, Exchange, At, ForPairing
  <2>2. HandleRequest("pfob")
    BY <2>1 DEF Parse, Reject, RefuseResponse, TakeResponse
  <2> QED  BY <1>3, <1>d, <1>t, <2>2 DEF HandleRequest, Checking, Deciding, Exchange, At
<1>4. ASSUME Deciding PROVE Answering'
  <2>1. Respond("pfob") /\ mode["ufob"] = "loop" /\ msg["pfob"] = Request("right")
    BY <1>q, <1>4, OnlyStep DEF Deciding, Exchange, At
  <2>2. PinMatches("pfob", msg["pfob"].pin)
    BY <1>4, <1>p, <1>r, <2>1, SecretFacts, PlaceFacts DEF PinMatches, Deciding, Exchange, At, Words
  <2>3. PICK m \in Answer : Transmit("pfob", m) /\ UNCHANGED dev
    BY <1>4, <1>p, <2>1, <2>2 DEF Respond, Deciding, Exchange, At, Answer
  <2>4. Exchange("loop", "send", "pfob", m)'
    BY <1>4, <1>d, <1>t, <2>1, <2>3 DEF Transmit, Deciding, Exchange, At
  <2>5. \E x \in Answer : Exchange("loop", "send", "pfob", x)'
    BY <2>4
  <2> QED  BY <2>5 DEF Answering, Carrying, Answer, Response, Zeroed, All
<1>5. ASSUME Answering PROVE Listening'
  <2>1. PICK m \in Answer : Exchange("loop", "send", "pfob", m)
    BY <1>5 DEF Answering, Carrying
  <2>2. StartRead("ufob")
    BY <1>q, <2>1, OnlyStep DEF Exchange
  <2>3. Exchange("read", "send", "ufob", m)'
    BY <2>1, <1>d, <1>t, <2>2 DEF StartRead, Exchange, At
  <2>4. \E x \in Answer : Exchange("read", "send", "ufob", x)'
    BY <2>3
  <2> QED  BY <2>4 DEF Listening, Carrying, Answer, Response, Zeroed, All
<1>6. ASSUME Listening PROVE Taking'
  <2>1. PICK m \in Answer : Exchange("read", "send", "ufob", m)
    BY <1>6 DEF Listening, Carrying
  <2>2. FinishSend("pfob")
    BY <1>q, <2>1, OnlyStep DEF Exchange
  <2>3. Exchange("parse", "loop", "ufob", m)'
    BY <2>1, <1>d, <1>t, <2>2 DEF FinishSend, Exchange, At
  <2>4. \E x \in Answer : Exchange("parse", "loop", "ufob", x)'
    BY <2>3
  <2> QED  BY <2>4 DEF Taking, Carrying, Answer, Response, Zeroed, All
<1>7. ASSUME Taking PROVE Storing'
  <2>m. PICK m \in Answer : Exchange("parse", "loop", "ufob", m)
    BY <1>7 DEF Taking, Carrying
  <2>1. Parse("ufob") /\ ForPairing("ufob", "u") /\ ~ForPairing("ufob", "p")
    BY <1>q, <1>r, <2>m, OnlyStep DEF Exchange, At, ForPairing
  <2>2. DevType(msg["ufob"].secrets) = "p"
    BY <1>r, <2>m, TypeFacts DEF Exchange
  <2>3. TakeResponse("ufob")
    BY <2>1, <2>2 DEF Parse, Reject, RefuseResponse, HandleRequest
  <2> QED  BY <2>m, <2>3, TakeStep DEF Storing, Exchange, At
<1>8. ASSUME Storing PROVE \/ Storing' /\ k < SecretWords /\ k' = k + 1
                           \/ Paired("ufob")'
  <2>1. StoreWord("ufob")
    BY <1>q, <1>8, OnlyStep DEF Storing
  <2>2. DevType(dev["ufob"]) = "p"
    BY <1>8 DEF Storing, At, TypesInv, TypesOf
  <2>3. mode'["pfob"] = "loop"
    BY <1>8, <2>1, StoreStep DEF Storing, At
  <2>4. CASE k < SecretWords /\ k' = k + 1 /\ mode'["ufob"] = "store"
    BY <2>3, <2>4 DEF Storing, At
  <2>5. CASE k = SecretWords /\ DevType(eeprom'["ufob"]) = DevType(dev["ufob"])
    BY <2>2, <2>5 DEF Paired, DevType
  <2> QED  BY <2>1, <2>4, <2>5, StoreStep
<1> QED  BY <1>1, <1>2, <1>3, <1>4, <1>5, <1>6, <1>7, <1>8

LEMMA PlacesStay ==
  UNCHANGED vars => /\ \A u, p : At(u, p) => At(u, p)'
                    /\ \A u, p, d, m : Exchange(u, p, d, m) => Exchange(u, p, d, m)'
                    /\ \A u, p, d : Carrying(u, p, d) => Carrying(u, p, d)'
                    /\ Paired("ufob") => Paired("ufob")'
                    /\ InExchange => InExchange'
<1> SUFFICES ASSUME UNCHANGED vars
             PROVE  /\ \A u, p : At(u, p) => At(u, p)'
                    /\ \A u, p, d, m : Exchange(u, p, d, m) => Exchange(u, p, d, m)'
                    /\ \A u, p, d : Carrying(u, p, d) => Carrying(u, p, d)'
                    /\ Paired("ufob") => Paired("ufob")'
                    /\ InExchange => InExchange'
  OBVIOUS
<1>1. \A u, p : At(u, p) => At(u, p)'
  BY DEF vars, At
<1>2. \A u, p, d, m : Exchange(u, p, d, m) => Exchange(u, p, d, m)'
  BY <1>1 DEF vars, Exchange, DevType
<1>3. \A u, p, d : Carrying(u, p, d) => Carrying(u, p, d)'
  BY <1>2 DEF Carrying, Answer, Response, Zeroed, All
<1>4. Paired("ufob") => Paired("ufob")'
  BY DEF vars, Paired, DevType
<1> QED  BY <1>1, <1>2, <1>3, <1>4
         DEF InExchange, Asking, Hearing, Checking, Deciding, Answering, Listening, Taking, Storing

LEMMA AskedStep == PairingInv /\ AskedInv /\ [Next]_vars => AskedInv'
<1> SUFFICES ASSUME PairingInv, AskedInv, [Next]_vars PROVE AskedInv'
  OBVIOUS
<1> USE FobFacts
<1>t. TypeOK /\ TypesInv /\ PfobInv
  BY DEF PairingInv
<1>1. DevType(eeprom'["ufob"]) \in {"u", "p"}
  <2>1. ASSUME eeprom'["ufob"] = eeprom["ufob"] PROVE DevType(eeprom'["ufob"]) \in {"u", "p"}
    BY <2>1 DEF AskedInv, DevType
  <2>2. CASE Plain
    BY <2>1, <2>2 DEF Plain
  <2>3. ASSUME NEW e \in Fobs, HandleRequest(e) \/ TakeResponse(e) \/ PowerOn(e)
        PROVE  eeprom' = eeprom
    BY <1>t, <2>3, RequestStep, TakeStep, OnStep
  <2>4. ASSUME NEW e \in Fobs, StoreWord(e) PROVE DevType(eeprom'["ufob"]) \in {"u", "p"}
    <3>1. e = "ufob" /\ DevType(dev["ufob"]) = "p"
      BY <1>t, <2>4, OnlyUfobStores, StoreStep DEF TypesInv, TypesOf
    <3> QED  BY <1>t, <2>4, <3>1, StoreStep DEF AskedInv
  <2> QED  BY <1>t, <2>1, <2>2, <2>3, <2>4, StepKinds
<1>2. ASSUME asked' PROVE Paired("ufob")' \/ InExchange'
  <2>1. CASE UNCHANGED vars
    <3>1. asked
      BY <1>2, <2>1 DEF vars
    <3> QED  BY <2>1, <3>1, PlacesStay DEF AskedInv
  <2>2. CASE Paired("ufob")
    <3>1. eeprom'["ufob"] = eeprom["ufob"]
      BY <1>t, <2>2, PairedStays
    <3> QED  BY <2>2, <3>1 DEF Paired, DevType
  <2>3. CASE Next /\ asked /\ InExchange
    BY <1>t, <1>2, <2>3, ExchangeStep DEF InExchange
  <2>4. CASE Next /\ ~asked /\ ~Paired("ufob")
    <3>1. Command("ufob", "right") /\ Quiet
      <4>1. ASSUME NEW d \in Fobs, Press(d) \/ PowerOff(d) \/ Garble(d) \/ DropByte(d) \/ StartRead(d)
                               \/ FinishSend(d) \/ Parse(d) \/ Respond(d) \/ StoreWord(d) \/ FillTorn(d) \/ StarveTorn(d)
                               \/ PowerOn(d) \/ Collide
            PROVE  ~asked' \/ asked' = asked
        BY <4>1 DEF Press, PowerOff, Garble, DropByte, StartRead, FinishSend, Parse, Reject, HandleRequest, RefuseResponse,
                    TakeResponse, Respond, StoreWord, FillTorn, StarveTorn, PowerOn, Collide
      <4>2. \E d \in Fobs, pin \in {"right", "wrong"} : Command(d, pin)
        BY <1>2, <2>4, <4>1 DEF Next
      <4> QED  BY <1>2, <4>2 DEF Command
    <3>2. DevType(dev["ufob"]) = "u"
      BY <1>t, <2>4, <3>1 DEF Quiet, TypesInv, TypesOf, AskedInv, Paired
    <3>3. Transmit("ufob", Request("right")) /\ UNCHANGED dev /\ mode["pfob"] = "loop"
      BY <3>1, <3>2 DEF Command, Quiet
    <3>4. mode \in [Fobs -> Modes] /\ msg \in [Fobs -> Message]
      BY <1>t DEF TypeOK
    <3>5. Asking'
      BY <3>2, <3>3, <3>4 DEF Transmit, Asking, Exchange, At, DevType
    <3> QED  BY <3>5 DEF InExchange
  <2> QED  BY <2>1, <2>2, <2>3, <2>4 DEF AskedInv
<1> QED  BY <1>1, <1>2 DEF AskedInv

LEMMA AskedInvariance == Spec => [](PairingInv /\ AskedInv)
<1>1. Init => PairingInv /\ AskedInv
  BY PairingInvInit, AskedInit
<1> QED  BY <1>1, AskedStep, PairingInvStep, PTL DEF Spec

(* Two things the provers do not know are hypotheses of the next theorem,  *)
(* and no behaviour of Spec is without them: an action is ENABLED when its *)
(* guard holds (GuardsEnable), and from any moment on, a natural number    *)
(* that never grows is the same from some time on (StoreSettles).          *)
GuardsEnable ==
    /\ At("send", "loop") => ENABLED <<StartRead("pfob")>>_vars
    /\ At("send", "read") => ENABLED <<FinishSend("ufob")>>_vars
    /\ mode["pfob"] = "parse" => ENABLED <<Parse("pfob")>>_vars
    /\ mode["pfob"] = "slow" => ENABLED <<Respond("pfob")>>_vars
    /\ At("loop", "send") => ENABLED <<StartRead("ufob")>>_vars
    /\ At("read", "send") => ENABLED <<FinishSend("pfob")>>_vars
    /\ mode["ufob"] = "parse" => ENABLED <<Parse("ufob")>>_vars
    /\ mode["ufob"] = "store" => ENABLED <<StoreWord("ufob")>>_vars

WordsLeft == SecretWords - k
StoreSettles ==
    [](WordsLeft \in Nat) /\ [][WordsLeft' <= WordsLeft]_vars => <>[][WordsLeft' = WordsLeft]_vars

(* The right PIN, given while both fobs are idle, pairs the fob unless a   *)
(* press, a command, a power cut or noise disturbs it: CommandPairs.       *)
THEOREM RightPinPairs == FairSpec /\ []GuardsEnable /\ []StoreSettles => CommandPairs
<1> DEFINE Goal == Paired("ufob") \/ ~asked
<1>a. FairSpec => [](PairingInv /\ AskedInv) /\ [][Next]_vars
  BY AskedInvariance, PTL DEF FairSpec, Spec
<1>b. ASSUME PairingInv, [Next]_vars, InExchange
      PROVE  \/ Goal'
             \/ [FALSE]_vars
             \/ /\ Asking => Hearing'
                /\ Hearing => Checking'
                /\ Checking => Deciding'
                /\ Deciding => Answering'
                /\ Answering => Listening'
                /\ Listening => Taking'
                /\ Taking => Storing'
                /\ Storing => Storing' /\ k < SecretWords /\ k' = k + 1
  BY <1>b, ExchangeStep DEF PairingInv
<1>c. [FALSE]_vars => /\ Asking => Asking'
                      /\ Hearing => Hearing'
                      /\ Checking => Checking'
                      /\ Deciding => Deciding'
                      /\ Answering => Answering'
                      /\ Listening => Listening'
                      /\ Taking => Taking'
                      /\ Storing => Storing'
  BY PlacesStay DEF Asking, Hearing, Checking, Deciding, Answering, Listening, Taking, Storing
<1>d. /\ Asking => At("send", "loop")
      /\ Hearing => At("send", "read")
      /\ Checking => mode["pfob"] = "parse"
      /\ Deciding => mode["pfob"] = "slow"
      /\ Answering => At("loop", "send")
      /\ Listening => At("read", "send")
      /\ Taking => mode["ufob"] = "parse"
      /\ Storing => mode["ufob"] = "store"
  BY DEF Asking, Hearing, Checking, Deciding, Answering, Listening, Taking, Storing, Carrying, Exchange, At
<1>1. FairSpec /\ []GuardsEnable => (Asking ~> Hearing \/ Goal)
  <2>1. PairingInv /\ [Next]_vars /\ Asking => Hearing' \/ Goal' \/ (Asking' /\ [FALSE]_vars)
    BY <1>b, <1>c DEF InExchange
  <2> HIDE DEF Goal
  <2> QED  BY <1>a, <1>d, <2>1, PTL DEF FairSpec, Fairness, GuardsEnable
<1>2. FairSpec /\ []GuardsEnable => (Hearing ~> Checking \/ Goal)
  <2>1. PairingInv /\ [Next]_vars /\ Hearing => Checking' \/ Goal' \/ (Hearing' /\ [FALSE]_vars)
    BY <1>b, <1>c DEF InExchange
  <2> HIDE DEF Goal
  <2> QED  BY <1>a, <1>d, <2>1, PTL DEF FairSpec, Fairness, GuardsEnable
<1>3. FairSpec /\ []GuardsEnable => (Checking ~> Deciding \/ Goal)
  <2>1. PairingInv /\ [Next]_vars /\ Checking => Deciding' \/ Goal' \/ (Checking' /\ [FALSE]_vars)
    BY <1>b, <1>c DEF InExchange
  <2> HIDE DEF Goal
  <2> QED  BY <1>a, <1>d, <2>1, PTL DEF FairSpec, Fairness, GuardsEnable
<1>4. FairSpec /\ []GuardsEnable => (Deciding ~> Answering \/ Goal)
  <2>1. PairingInv /\ [Next]_vars /\ Deciding => Answering' \/ Goal' \/ (Deciding' /\ [FALSE]_vars)
    BY <1>b, <1>c DEF InExchange
  <2> HIDE DEF Goal
  <2> QED  BY <1>a, <1>d, <2>1, PTL DEF FairSpec, Fairness, GuardsEnable
<1>5. FairSpec /\ []GuardsEnable => (Answering ~> Listening \/ Goal)
  <2>1. PairingInv /\ [Next]_vars /\ Answering => Listening' \/ Goal' \/ (Answering' /\ [FALSE]_vars)
    BY <1>b, <1>c DEF InExchange
  <2> HIDE DEF Goal
  <2> QED  BY <1>a, <1>d, <2>1, PTL DEF FairSpec, Fairness, GuardsEnable
<1>6. FairSpec /\ []GuardsEnable => (Listening ~> Taking \/ Goal)
  <2>1. PairingInv /\ [Next]_vars /\ Listening => Taking' \/ Goal' \/ (Listening' /\ [FALSE]_vars)
    BY <1>b, <1>c DEF InExchange
  <2> HIDE DEF Goal
  <2> QED  BY <1>a, <1>d, <2>1, PTL DEF FairSpec, Fairness, GuardsEnable
<1>7. FairSpec /\ []GuardsEnable => (Taking ~> Storing \/ Goal)
  <2>1. PairingInv /\ [Next]_vars /\ Taking => Storing' \/ Goal' \/ (Taking' /\ [FALSE]_vars)
    BY <1>b, <1>c DEF InExchange
  <2> HIDE DEF Goal
  <2> QED  BY <1>a, <1>d, <2>1, PTL DEF FairSpec, Fairness, GuardsEnable
<1>8. FairSpec /\ []GuardsEnable /\ []StoreSettles => (Storing ~> Goal)
  <2>1. PairingInv /\ [Next]_vars /\ Storing => Goal' \/ (Storing' /\ [WordsLeft' < WordsLeft]_vars)
    <3>1. PairingInv => k \in Int /\ SecretWords \in Int
      BY PlaceFacts DEF PairingInv, TypeOK, Places
    <3> QED  BY <1>b, <1>c, <3>1 DEF InExchange, WordsLeft
  <2>2. PairingInv => WordsLeft \in Nat
    BY PlaceFacts, PairingAssumption DEF PairingInv, TypeOK, Places, WordsLeft
  <2>3. WordsLeft \in Nat /\ (WordsLeft \in Nat)' /\ [WordsLeft' < WordsLeft]_vars
          => [WordsLeft' <= WordsLeft]_vars
    BY DEF vars, WordsLeft
  <2>4. WordsLeft \in Nat /\ (WordsLeft \in Nat)' /\ [WordsLeft' < WordsLeft]_vars
          /\ [WordsLeft' = WordsLeft]_vars => [FALSE]_vars
    BY DEF WordsLeft
  <2> HIDE DEF Goal
  <2> QED  BY <1>a, <1>d, <2>1, <2>2, <2>3, <2>4, PTL DEF FairSpec, Fairness, GuardsEnable, StoreSettles
<1>9. PairingInv /\ AskedInv => Goal \/ Asking \/ Hearing \/ Checking \/ Deciding \/ Answering
                                  \/ Listening \/ Taking \/ Storing
  BY DEF AskedInv, InExchange
<1>10. FairSpec /\ []GuardsEnable /\ []StoreSettles => (asked ~> Goal)
  <2> HIDE DEF Goal
  <2> QED  BY <1>a, <1>1, <1>2, <1>3, <1>4, <1>5, <1>6, <1>7, <1>8, <1>9, PTL
<1> QED  BY <1>10 DEF CommandPairs
=============================================================================
