----------------------------- MODULE BootProofs -----------------------------
(***************************************************************************)
(* Proofs about Boot, for any number of words, any memory contents and any *)
(* number of power cuts: random streams never repeat, and secrets are lost *)
(* exactly by a cut first boot.                                            *)
(***************************************************************************)
EXTENDS Boot, TLAPS

-----------------------------------------------------------------------------
(* Why streams are fresh, as an inductive invariant: the first word of the *)
(* stored seed is at least every number a known state was reached from and *)
(* every number the loop was reached with, while a state is reached from   *)
(* numbers below its own only.                                             *)
SeedInv ==
    /\ \A i \in DOMAIN known : known[i].seed[1] < i /\ known[i].seed[1] <= seed[1]
    /\ \A a \in DOMAIN streams : streams[a] <= seed[1]
    /\ seed[1] <= Len(known)
    /\ pc \in {"check", "flag", "first", "load", "loop"} => seed[1] = id
    /\ pc = "seed" => (IF k = 1 THEN known[id].seed = seed ELSE seed[1] = id)
    /\ pc \in {"seed", "check", "flag", "first", "load"} =>
         \A a \in DOMAIN streams : streams[a] < id

(* Why a type comes with all secrets: words are written in ascending order *)
(* and only once.                                                          *)
SecretsInv ==
    /\ pc = "first" => flag /\ dev = Factory /\ ~cutFirst
                       /\ secrets = [p \in Places |-> IF p < k THEN "factory" ELSE "erased"]
    /\ pc = "flag" => ~flag
    /\ pc = "load" => flag
    /\ ~flag => secrets = Erased
    /\ flag /\ cutFirst => DevType(secrets) = "erased"
    /\ flag /\ ~cutFirst /\ pc # "first" => secrets = Factory
    /\ cutFirst => flag
    /\ pc = "loop" => flag /\ dev = secrets

LEMMA BootTypeInit == Init => TypeOK
<1> SUFFICES ASSUME Init PROVE TypeOK
  OBVIOUS
<1>1. /\ secrets \in [Places -> {"zero", "erased", "factory"}]
      /\ dev \in [Places -> {"zero", "erased", "factory"}]
      /\ key \in [Places -> {"zero", "erased", "factory"}]
  BY DEF Init, Zeroes, Erased
<1>2. seed \in [1 .. SeedWords -> Nat]
  BY DEF Init
<1>3. /\ known \in Seq([seed: [1 .. SeedWords -> Nat], ram: Rams])
      /\ streams \in Seq(Nat)
  <2> DEFINE S == [seed: [1 .. SeedWords -> Nat], ram: Rams]
  <2>1. <<>> \in Seq(S) /\ <<>> \in Seq(Nat)
    <3> HIDE DEF S
    <3> QED  OBVIOUS
  <2> QED  BY <2>1 DEF Init
<1>4. pc = "off" /\ k = 1 /\ id = 0 /\ cuts = 0 /\ flag = FALSE /\ cutFirst = FALSE
  BY DEF Init
<1>5. pc # "seed" /\ pc # "first" /\ k \in Nat \ {0} /\ id \in Nat /\ cuts \in Nat
  BY <1>4, SMT
<1>6. flag \in BOOLEAN /\ cutFirst \in BOOLEAN
  BY <1>4, Zenon
<1> QED  BY <1>1, <1>2, <1>3, <1>4, <1>5, <1>6, Zenon DEF TypeOK

LEMMA GeneratorTypes == TypeOK /\ StartGenerator => TypeOK'
<1> SUFFICES ASSUME TypeOK, StartGenerator PROVE TypeOK'
  OBVIOUS
<1> USE SizesAssumption
<1>1. /\ pc' = "seed" /\ k' = 1
      /\ UNCHANGED <<seed, flag, secrets, dev, key, streams, cuts, cutFirst>>
  BY DEF StartGenerator, eeprom, history
<1>2. PICK ram \in Rams :
         \/ /\ id' \in DOMAIN known /\ known[id'] = [seed |-> seed, ram |-> ram]
            /\ UNCHANGED known
         \/ /\ \A i \in DOMAIN known : known[i] # [seed |-> seed, ram |-> ram]
            /\ id' = Len(known) + 1
            /\ known' = Append(known, [seed |-> seed, ram |-> ram])
  BY DEF StartGenerator
<1>3. [seed |-> seed, ram |-> ram] \in [seed: [1 .. SeedWords -> Nat], ram: Rams]
  BY DEF TypeOK
<1>4. /\ known' \in Seq([seed: [1 .. SeedWords -> Nat], ram: Rams])
      /\ id' \in Nat /\ id' \in 1 .. Len(known')
  <2> DEFINE S == [seed: [1 .. SeedWords -> Nat], ram: Rams]
             state == [seed |-> seed, ram |-> ram]
  <2>1. state \in S /\ known \in Seq(S)
    BY <1>3 DEF TypeOK
  <2>2. \/ id' \in DOMAIN known /\ known' = known
        \/ id' = Len(known) + 1 /\ known' = Append(known, state)
    BY <1>2
  <2> HIDE DEF S, state
  <2>3. known' \in Seq(S) /\ id' \in Nat /\ id' \in 1 .. Len(known')
    BY <2>1, <2>2
  <2> QED  BY <2>3 DEF S
<1> QED  BY <1>1, <1>4 DEF TypeOK

LEMMA BootTypeStep == TypeOK /\ [Next]_vars => TypeOK'
<1> SUFFICES ASSUME TypeOK, [Next]_vars PROVE TypeOK'
  OBVIOUS
<1> USE SizesAssumption
<1>1. CASE PowerOn
  <2>1. dev' \in [Places -> {"zero", "erased", "factory"}]
    BY <1>1 DEF PowerOn, Zeroes
  <2> QED  BY <1>1, <2>1 DEF TypeOK, PowerOn, eeprom, generator, history
<1>9. CASE StartGenerator  BY <1>9, GeneratorTypes
<1>0. CASE EepromFails
  BY <1>0 DEF TypeOK, EepromFails, eeprom, generator
<1>2. CASE StoreSeed
  <2>1. seed' \in [1 .. SeedWords -> Nat]
    BY <1>2 DEF TypeOK, StoreSeed
  <2>2. /\ pc' \in {"seed", "check", "spin"} /\ k' \in Nat \ {0}
        /\ pc' = "seed" => k' <= SeedWords
        /\ key' \in [Places -> {"zero", "erased", "factory"}]
    <3>1. CASE k < SeedWords
      BY <1>2, <3>1 DEF TypeOK, StoreSeed
    <3>2. CASE ~(k < SeedWords)
      BY <1>2, <3>2 DEF TypeOK, StoreSeed
    <3> QED  BY <3>1, <3>2
  <2>3. pc = "seed" /\ UNCHANGED <<flag, secrets, dev, id, known, streams, cuts, cutFirst>>
    BY <1>2 DEF StoreSeed, generator, history
  <2> QED  BY <2>1, <2>2, <2>3 DEF TypeOK
<1>3. CASE CheckFlag
  BY <1>3 DEF TypeOK, CheckFlag, eeprom, generator, history
<1>4. CASE StoreFlag
  <2>1. dev' \in [Places -> {"zero", "erased", "factory"}]
    BY <1>4 DEF StoreFlag, Factory
  <2> QED  BY <1>4, <2>1 DEF TypeOK, StoreFlag, generator, history
<1>5. CASE StoreSecret
  <2>1. secrets' \in [Places -> {"zero", "erased", "factory"}]
    BY <1>5 DEF TypeOK, StoreSecret, Places
  <2>2. /\ pc' \in {"first", "load"} /\ k' \in Nat \ {0}
        /\ pc' = "first" => k' <= SecretWords
    BY <1>5 DEF TypeOK, StoreSecret
  <2>3. pc = "first" /\ UNCHANGED <<seed, flag, dev, key, id, known, streams, cuts, cutFirst>>
    BY <1>5 DEF StoreSecret, generator, history
  <2> QED  BY <2>1, <2>2, <2>3 DEF TypeOK
<1>6. CASE LoadSecrets
  <2>1. dev' \in [Places -> {"zero", "erased", "factory"}] /\ streams' \in Seq(Nat)
    BY <1>6 DEF TypeOK, LoadSecrets
  <2> QED  BY <1>6, <2>1 DEF TypeOK, LoadSecrets, eeprom, generator
<1>7. CASE PowerOff
  BY <1>7 DEF TypeOK, PowerOff, eeprom, generator
<1>8. CASE UNCHANGED vars
  BY <1>8 DEF TypeOK, vars
<1> QED
  BY <1>0, <1>1, <1>2, <1>3, <1>4, <1>5, <1>6, <1>7, <1>8, <1>9 DEF Next, Booting

(* The variables keep their types and no eeprom_write leaves its buffer,   *)
(* wherever the power is cut.                                              *)
THEOREM BootTypeCorrect == Spec => []TypeOK
  BY BootTypeInit, BootTypeStep, PTL DEF Spec

-----------------------------------------------------------------------------
LEMMA SeedInit == Init => SeedInv
  BY SizesAssumption DEF Init, SeedInv

LEMMA HistoryTypes ==
  ASSUME TypeOK
  PROVE  /\ seed[1] \in Nat /\ DOMAIN known = 1 .. Len(known) /\ Len(known) \in Nat
         /\ \A a \in DOMAIN streams : streams[a] \in Nat
         /\ \A i \in DOMAIN known : known[i].seed[1] \in Nat
<1> USE SizesAssumption
<1>1. seed[1] \in Nat
  BY DEF TypeOK
<1>2. \A a \in DOMAIN streams : streams[a] \in Nat
  BY DEF TypeOK
<1> DEFINE S == [seed: [1 .. SeedWords -> Nat], ram: Rams]
<1>3. known \in Seq(S) /\ \A x \in S : x.seed[1] \in Nat
  BY DEF TypeOK
<1> HIDE DEF S
<1>4. /\ DOMAIN known = 1 .. Len(known) /\ Len(known) \in Nat
      /\ \A i \in DOMAIN known : known[i] \in S
  BY <1>3
<1> QED  BY <1>1, <1>2, <1>3, <1>4

LEMMA SeedGenerator == TypeOK /\ SeedInv /\ StartGenerator => SeedInv'
<1> SUFFICES ASSUME TypeOK, SeedInv, StartGenerator PROVE SeedInv'
  OBVIOUS
<1> USE SizesAssumption
<1>1. /\ pc' = "seed" /\ k' = 1 /\ seed' = seed /\ streams' = streams
      /\ seed[1] \in Nat /\ DOMAIN known = 1 .. Len(known) /\ Len(known) \in Nat
      /\ \A a \in DOMAIN streams : streams[a] \in Nat
  <2>1. pc' = "seed" /\ k' = 1 /\ seed' = seed /\ streams' = streams
    BY DEF StartGenerator, eeprom, history
  <2> QED  BY <2>1, HistoryTypes
<1>2. PICK ram \in Rams :
         \/ /\ id' \in DOMAIN known /\ known[id'] = [seed |-> seed, ram |-> ram]
            /\ UNCHANGED known
         \/ /\ \A i \in DOMAIN known : known[i] # [seed |-> seed, ram |-> ram]
            /\ id' = Len(known) + 1
            /\ known' = Append(known, [seed |-> seed, ram |-> ram])
  BY DEF StartGenerator
<1> DEFINE state == [seed |-> seed, ram |-> ram]
<1>3. state.seed = seed
  OBVIOUS
<1>4. CASE id' \in DOMAIN known /\ known[id'] = state /\ known' = known
  <2>1. seed[1] < id' /\ id' \in Nat /\ known'[id'].seed = seed
    BY <1>1, <1>3, <1>4 DEF SeedInv
  <2>2. \A a \in DOMAIN streams : streams[a] < id'
    BY <1>1, <2>1 DEF SeedInv
  <2> QED  BY <1>1, <1>4, <2>1, <2>2 DEF SeedInv
<1>5. CASE id' = Len(known) + 1 /\ known' = Append(known, state)
  <2>1. /\ DOMAIN known' = 1 .. Len(known) + 1 /\ Len(known') = Len(known) + 1
        /\ known'[Len(known) + 1] = state
        /\ \A i \in 1 .. Len(known) : known'[i] = known[i]
    BY <1>5 DEF TypeOK
  <2>2. seed[1] <= Len(known) /\ seed[1] < id'
    BY <1>1, <1>5 DEF SeedInv
  <2>3. \A i \in 1 .. Len(known) + 1 :
           known'[i].seed[1] < i /\ known'[i].seed[1] <= seed[1]
    <3> TAKE i \in 1 .. Len(known) + 1
    <3>1. CASE i = Len(known) + 1
      BY <1>1, <1>3, <1>5, <2>1, <2>2, <3>1
    <3>2. CASE i \in 1 .. Len(known)
      BY <1>1, <2>1, <3>2 DEF SeedInv
    <3> QED  BY <1>1, <3>1, <3>2
  <2>4. \A a \in DOMAIN streams : streams[a] < id'
    BY <1>1, <1>5, <2>2 DEF SeedInv
  <2>5. known'[id'].seed = seed
    BY <1>3, <1>5, <2>1
  <2>6. seed[1] <= Len(known')
    BY <1>1, <2>1, <2>2
  <2> QED  BY <1>1, <2>1, <2>3, <2>4, <2>5, <2>6 DEF SeedInv
<1> QED  BY <1>2, <1>4, <1>5

LEMMA SeedStoreSeed == TypeOK /\ SeedInv /\ StoreSeed => SeedInv'
<1> SUFFICES ASSUME TypeOK, SeedInv, StoreSeed PROVE SeedInv'
  OBVIOUS
<1> USE SizesAssumption
<1>1. /\ pc = "seed" /\ seed' = [seed EXCEPT ![k] = id] /\ k \in 1 .. SeedWords
      /\ \/ pc' = "seed" /\ k' = k + 1
         \/ pc' \in {"check", "spin"}
      /\ UNCHANGED <<id, known, streams>>
      /\ id \in 1 .. Len(known) /\ DOMAIN known = 1 .. Len(known)
      /\ seed[1] \in Nat /\ seed \in [1 .. SeedWords -> Nat] /\ Len(known) \in Nat
      /\ \A a \in DOMAIN streams : streams[a] \in Nat
      /\ \A i \in DOMAIN known : known[i].seed[1] \in Nat
  <2>1. /\ pc = "seed" /\ seed' = [seed EXCEPT ![k] = id] /\ k \in 1 .. SeedWords
        /\ \/ pc' = "seed" /\ k' = k + 1
           \/ pc' \in {"check", "spin"}
        /\ UNCHANGED <<id, known, streams>>
    BY DEF StoreSeed, generator, history, TypeOK
  <2>2. id \in 1 .. Len(known) /\ seed \in [1 .. SeedWords -> Nat]
    BY <2>1 DEF TypeOK
  <2> QED  BY <2>1, <2>2, HistoryTypes
<1>2. seed'[1] = id
  <2>1. CASE k = 1
    BY <1>1, <2>1
  <2>2. CASE k # 1
    BY <1>1, <2>2 DEF SeedInv
  <2> QED  BY <2>1, <2>2
<1>3. seed[1] <= id
  BY <1>1 DEF SeedInv
<1>4. \A i \in DOMAIN known : known[i].seed[1] < i /\ known[i].seed[1] <= seed'[1]
  BY <1>1, <1>2, <1>3 DEF SeedInv
<1>5. \A a \in DOMAIN streams : streams[a] < id
  BY <1>1 DEF SeedInv
<1> QED  BY <1>1, <1>2, <1>4, <1>5 DEF SeedInv

LEMMA SeedStep == TypeOK /\ SeedInv /\ [Next]_vars => SeedInv'
<1> SUFFICES ASSUME TypeOK, SeedInv, [Next]_vars PROVE SeedInv'
  OBVIOUS
<1>1. CASE PowerOn
  BY <1>1 DEF PowerOn, SeedInv, eeprom, generator, history
<1>9. CASE StartGenerator  BY <1>9, SeedGenerator
<1>0. CASE EepromFails
  BY <1>0 DEF EepromFails, SeedInv, eeprom, generator
<1>2. CASE StoreSeed    BY <1>2, SeedStoreSeed
<1>3. CASE CheckFlag
  BY <1>3 DEF CheckFlag, SeedInv, eeprom, generator, history
<1>4. CASE StoreFlag
  BY <1>4 DEF StoreFlag, SeedInv, generator, history
<1>5. CASE StoreSecret
  BY <1>5 DEF StoreSecret, SeedInv, generator, history
<1>6. CASE LoadSecrets
  <2>1. /\ pc = "load" /\ pc' = "loop" /\ streams' = Append(streams, id)
        /\ UNCHANGED <<seed, id, known>> /\ id \in Nat /\ seed[1] = id
        /\ streams \in Seq(Nat)
    BY <1>6 DEF LoadSecrets, eeprom, generator, TypeOK, SeedInv
  <2>2. \A a \in DOMAIN streams' : streams'[a] <= seed[1]
    BY <2>1 DEF SeedInv
  <2> QED  BY <2>1, <2>2 DEF SeedInv
<1>7. CASE PowerOff
  BY <1>7 DEF PowerOff, SeedInv, eeprom, generator
<1>8. CASE UNCHANGED vars
  BY <1>8 DEF SeedInv, vars
<1> QED
  BY <1>0, <1>1, <1>2, <1>3, <1>4, <1>5, <1>6, <1>7, <1>8, <1>9 DEF Next, Booting

(* The stored seed is newer than every state reached and every stream used. *)
THEOREM SeedInvariance == Spec => []SeedInv
  BY SeedInit, SeedStep, BootTypeCorrect, PTL DEF Spec

LEMMA FreshInit == Init => StreamsAreFresh
  BY DEF Init, StreamsAreFresh

LEMMA FreshStep == TypeOK /\ SeedInv /\ StreamsAreFresh /\ [Next]_vars => StreamsAreFresh'
<1> SUFFICES ASSUME TypeOK, SeedInv, StreamsAreFresh, [Next]_vars PROVE StreamsAreFresh'
  OBVIOUS
<1>1. CASE LoadSecrets
  <2>1. /\ streams' = Append(streams, id) /\ id \in Nat /\ streams \in Seq(Nat)
        /\ \A a \in DOMAIN streams : streams[a] < id
    BY <1>1 DEF LoadSecrets, TypeOK, SeedInv
  <2> QED  BY <2>1 DEF StreamsAreFresh
<1>2. CASE ~LoadSecrets
  <2>1. UNCHANGED streams
    BY <1>2 DEF Next, Booting, vars, PowerOn, StartGenerator, StoreSeed, CheckFlag,
                StoreFlag, StoreSecret, EepromFails, PowerOff, history
  <2> QED  BY <2>1 DEF StreamsAreFresh
<1> QED  BY <1>1, <1>2

(* A device never draws the random bytes of an earlier life again, for any *)
(* number of seed words and power cuts, even with constant memory.         *)
THEOREM StreamsNeverRepeat == Spec => []StreamsAreFresh
  BY FreshInit, FreshStep, SeedInvariance, BootTypeCorrect, PTL DEF Spec

-----------------------------------------------------------------------------
LEMMA SecretsInit == Init => SecretsInv
  BY SizesAssumption DEF Init, SecretsInv, DevType, Erased, Places

LEMMA SecretsStep == TypeOK /\ SecretsInv /\ [Next]_vars => SecretsInv'
<1> SUFFICES ASSUME TypeOK, SecretsInv, [Next]_vars PROVE SecretsInv'
  OBVIOUS
<1> USE SizesAssumption
<1>1. CASE PowerOn
  BY <1>1 DEF PowerOn, SecretsInv, eeprom, history
<1>9. CASE StartGenerator
  BY <1>9 DEF StartGenerator, SecretsInv, eeprom, history
<1>0. CASE EepromFails
  BY <1>0 DEF EepromFails, SecretsInv, eeprom
<1>2. CASE StoreSeed
  BY <1>2 DEF StoreSeed, SecretsInv, generator, history
<1>3. CASE CheckFlag
  BY <1>3 DEF CheckFlag, SecretsInv, eeprom, generator, history
<1>4. CASE StoreFlag
  <2>1. /\ pc = "flag" /\ ~flag /\ flag' /\ pc' = "first" /\ k' = 1 /\ dev' = Factory
        /\ UNCHANGED <<secrets, cutFirst>> /\ ~cutFirst
    BY <1>4 DEF StoreFlag, SecretsInv, generator, history
  <2>2. secrets = [p \in Places |-> IF p < 1 THEN "factory" ELSE "erased"]
    <3>1. secrets = Erased /\ \A p \in Places : ~(p < 1)
      BY <2>1 DEF SecretsInv, Places
    <3> QED  BY <3>1 DEF Erased
  <2> QED  BY <2>1, <2>2 DEF SecretsInv
<1>5. CASE StoreSecret
  <2>1. /\ pc = "first" /\ flag /\ flag' = flag /\ dev = Factory /\ dev' = dev
        /\ ~cutFirst /\ cutFirst' = cutFirst
        /\ secrets = [p \in Places |-> IF p < k THEN "factory" ELSE "erased"]
        /\ k \in Places /\ SecretWords \in Nat \ {0}
        /\ secrets' = [secrets EXCEPT ![k] = dev[k]]
    BY <1>5 DEF StoreSecret, SecretsInv, generator, history, TypeOK, Places
  <2>2. secrets' = [p \in Places |-> IF p < k + 1 THEN "factory" ELSE "erased"]
    <3>1. \A p \in Places : p < k + 1 <=> p = k \/ p < k
      BY <2>1 DEF Places
    <3>2. \A p \in Places :
             secrets'[p] = IF p < k + 1 THEN "factory" ELSE "erased"
      BY <2>1, <3>1 DEF Factory
    <3> QED  BY <2>1, <3>2
  <2>3. CASE k < SecretWords
    BY <1>5, <2>1, <2>2, <2>3 DEF StoreSecret, SecretsInv
  <2>4. CASE k = SecretWords
    <3>1. pc' = "load"
      BY <1>5, <2>4 DEF StoreSecret
    <3>2. secrets' = Factory
      <4>1. \A p \in Places : p < k + 1
        BY <2>1, <2>4 DEF Places
      <4> QED  BY <2>2, <4>1 DEF Factory
    <3> QED  BY <2>1, <3>1, <3>2 DEF SecretsInv
  <2> QED  BY <2>1, <2>3, <2>4 DEF Places
<1>6. CASE LoadSecrets
  BY <1>6 DEF LoadSecrets, SecretsInv, eeprom, generator
<1>7. CASE PowerOff
  <2>1. /\ pc # "off" /\ pc' = "off" /\ UNCHANGED <<flag, secrets, dev, k>>
        /\ cutFirst' = (cutFirst \/ pc = "first")
    BY <1>7 DEF PowerOff, eeprom, generator
  <2>2. CASE pc = "first"
    <3>1. DevType(secrets) = "erased"
      BY <2>2 DEF SecretsInv, DevType, TypeOK, Places
    <3> QED  BY <2>1, <2>2, <3>1 DEF SecretsInv, DevType
  <2>3. CASE pc # "first"
    BY <2>1, <2>3 DEF SecretsInv, DevType
  <2> QED  BY <2>2, <2>3
<1>8. CASE UNCHANGED vars
  BY <1>8 DEF SecretsInv, DevType, vars
<1> QED
  BY <1>0, <1>1, <1>2, <1>3, <1>4, <1>5, <1>6, <1>7, <1>8, <1>9 DEF Next, Booting

(* What the EEPROM holds of the secrets, in every reachable state.         *)
THEOREM SecretsInvariance == Spec => []SecretsInv
  BY SecretsInit, SecretsStep, BootTypeCorrect, PTL DEF Spec

(* A device with a type has all its secrets, wherever the power was cut.   *)
THEOREM TypeComesWithSecrets == Spec => []TypedIsWhole
<1>1. SecretsInv => TypedIsWhole
  BY DEF SecretsInv, TypedIsWhole, DevType
<1> QED  BY <1>1, SecretsInvariance, PTL

(* Secrets are lost by a cut between the flag and the last secret word and *)
(* by nothing else, and then for good.                                     *)
THEOREM FirstBootIsTheOnlyRisk == Spec => []LostOnlyInFirstBoot
<1>1. TypeOK /\ SecretsInv => LostOnlyInFirstBoot
  BY SizesAssumption DEF TypeOK, SecretsInv, LostOnlyInFirstBoot, DevType, Factory, Places
<1> QED  BY <1>1, SecretsInvariance, BootTypeCorrect, PTL

-----------------------------------------------------------------------------
(* Where the endless loop of rand_init is, and what it keeps from running. *)
SpinInv ==
    /\ pc = "spin" => SpinsInRandInit
    /\ pc \in {"check", "flag", "first", "load", "loop"} => ~SpinsInRandInit

LEMMA SpinIsTheLoop == Spec => []SpinInv
<1>1. Init => SpinInv
  BY DEF Init, SpinInv
<1>2. SpinInv /\ [Next]_vars => SpinInv'
  BY DEF SpinInv, vars, Next, Booting, PowerOn, StartGenerator, StoreSeed, CheckFlag,
         StoreFlag, StoreSecret, LoadSecrets, EepromFails, PowerOff
<1> QED  BY <1>1, <1>2, PTL DEF Spec

(* The fob as committed never gets behind rand_init, however often it is   *)
(* started: it stores a new seed at every start, and its secrets and its   *)
(* first boot flag never.                                                  *)
FobStandsStill == pc # "loop" /\ ~flag /\ secrets = Erased
THEOREM CommittedFobNeverStarts == SpinsInRandInit => (Spec => []FobStandsStill)
<1>1. SpinInv /\ SpinsInRandInit => pc \notin {"check", "flag", "first", "load", "loop"}
  BY DEF SpinInv
<1>2. Init => FobStandsStill
  BY DEF Init, FobStandsStill
<1>3. SpinInv /\ SpinInv' /\ SpinsInRandInit /\ FobStandsStill /\ [Next]_vars
        => FobStandsStill'
  BY <1>1 DEF SpinInv, FobStandsStill, vars, Next, Booting, PowerOn, StartGenerator,
              StoreSeed, CheckFlag, StoreFlag, StoreSecret, LoadSecrets, EepromFails,
              PowerOff, eeprom
<1>4. CASE ~SpinsInRandInit
  BY <1>4
<1>5. CASE SpinsInRandInit
  <2>1. SpinInv /\ SpinInv' /\ FobStandsStill /\ [Next]_vars => FobStandsStill'
    BY <1>3, <1>5
  <2> QED  BY <1>2, <2>1, SpinIsTheLoop, PTL DEF Spec
<1> QED  BY <1>4, <1>5

-----------------------------------------------------------------------------
(* That a boot ends.  What is left of it, with the boots that power cuts   *)
(* still cause, is a number that every step lowers.                        *)
Life == SeedWords + SecretWords + 5
BootWork ==
    IF pc = "off" THEN Life
    ELSE IF pc = "init" THEN SecretWords + 4 + SeedWords
    ELSE IF pc = "seed" THEN SecretWords + 4 + SeedWords - k
    ELSE IF pc = "check" THEN SecretWords + 3
    ELSE IF pc = "flag" THEN SecretWords + 2
    ELSE IF pc = "first" THEN SecretWords + 2 - k
    ELSE IF pc = "load" THEN 1 ELSE 0
CutsLeft == IF cuts <= MaxCuts THEN MaxCuts - cuts ELSE 0
AllWork == (Life + 1) * CutsLeft + BootWork

WorkTyped ==
    /\ BootWork \in Nat /\ BootWork <= Life /\ CutsLeft \in Nat
    /\ (Life + 1) * CutsLeft \in Nat /\ AllWork \in Nat

LEMMA WorkTypes == TypeOK => WorkTyped
<1> SUFFICES ASSUME TypeOK PROVE WorkTyped
  OBVIOUS
<1>1. BootWork \in Nat /\ BootWork <= Life
  BY SizesAssumption DEF TypeOK, BootWork, Life
<1>2. CutsLeft \in Nat /\ Life + 1 \in Nat
  BY SizesAssumption DEF TypeOK, CutsLeft, Life
<1>3. (Life + 1) * CutsLeft \in Nat
  <2> HIDE DEF Life, CutsLeft
  <2> QED  BY <1>2
<1> QED  BY <1>1, <1>2, <1>3 DEF WorkTyped, AllWork

LEMMA SumShrinks ==
  ASSUME NEW c \in Nat, NEW d \in Nat, NEW x \in Nat, NEW y \in Nat, d <= c, y <= x - 1
  PROVE  d + y < c + x
  OBVIOUS

LEMMA CutShrinks ==
  ASSUME NEW d \in Nat, NEW x \in Nat, NEW y \in Nat, NEW l \in Nat, y <= l
  PROVE  d + y < (d + (l + 1)) + x
  OBVIOUS

LEMMA WorkShrinks == TypeOK /\ TypeOK' /\ [Next]_vars => [AllWork' < AllWork]_vars
<1> SUFFICES ASSUME TypeOK, TypeOK', Next PROVE AllWork' < AllWork
  OBVIOUS
<1> DEFINE C == (Life + 1) * CutsLeft
<1>l. WorkTyped /\ WorkTyped'
  BY WorkTypes, PTL
<1>t. /\ BootWork \in Nat /\ BootWork' \in Nat /\ BootWork' <= Life /\ Life \in Nat
      /\ CutsLeft \in Nat /\ CutsLeft' \in Nat /\ C \in Nat /\ C' \in Nat
  <2>1. Life \in Nat /\ Life' = Life
    BY SizesAssumption DEF Life
  <2> QED  BY <1>l, <2>1 DEF WorkTyped
<1>1. AllWork = C + BootWork /\ AllWork' = C' + BootWork'
  BY DEF AllWork
<1>2. cuts' = cuts => C' = C
  BY DEF Life, CutsLeft
<1>c. C = (Life + 1) * CutsLeft /\ C' = (Life + 1) * CutsLeft'
  BY DEF Life
<1> HIDE DEF C
<1>3. CASE PowerOn
  <2>1. BootWork' = BootWork - 1 /\ cuts' = cuts
    BY <1>3, SizesAssumption DEF PowerOn, BootWork, Life, history
  <2> QED  BY <1>1, <1>2, <1>t, <2>1
<1>0. CASE StartGenerator
  <2>1. BootWork' = BootWork - 1 /\ cuts' = cuts
    BY <1>0, SizesAssumption DEF StartGenerator, BootWork, history
  <2> QED  BY <1>1, <1>2, <1>t, <2>1
<1>4. CASE StoreSeed
  <2>1. BootWork' <= BootWork - 1 /\ cuts' = cuts
    <3>1. k \in Nat /\ k <= SeedWords /\ cuts' = cuts /\ SeedWords \in Nat
      BY <1>4, SizesAssumption DEF StoreSeed, history, TypeOK
    <3>2. CASE k < SeedWords
      BY <1>4, <3>1, <3>2, SizesAssumption DEF StoreSeed, BootWork
    <3>3. CASE k = SeedWords
      BY <1>4, <3>1, <3>3, SizesAssumption DEF StoreSeed, BootWork
    <3> QED  BY <3>1, <3>2, <3>3
  <2>2. C' <= C
    BY <1>2, <1>t, <2>1
  <2> QED  BY <1>1, <1>t, <2>1, <2>2, SumShrinks
<1>5. CASE CheckFlag
  <2>1. BootWork' <= BootWork - 1 /\ cuts' = cuts
    BY <1>5, SizesAssumption DEF CheckFlag, BootWork, history
  <2>2. C' <= C
    BY <1>2, <1>t, <2>1
  <2> QED  BY <1>1, <1>t, <2>1, <2>2, SumShrinks
<1>6. CASE StoreFlag
  <2>1. BootWork' <= BootWork - 1 /\ cuts' = cuts
    BY <1>6, SizesAssumption DEF StoreFlag, BootWork, history
  <2>2. C' <= C
    BY <1>2, <1>t, <2>1
  <2> QED  BY <1>1, <1>t, <2>1, <2>2, SumShrinks
<1>7. CASE StoreSecret
  <2>1. BootWork' = BootWork - 1 /\ cuts' = cuts
    <3>1. k \in Nat /\ k <= SecretWords /\ cuts' = cuts /\ SecretWords \in Nat
      BY <1>7, SizesAssumption DEF StoreSecret, history, TypeOK
    <3>2. CASE k < SecretWords
      BY <1>7, <3>1, <3>2, SizesAssumption DEF StoreSecret, BootWork
    <3>3. CASE k = SecretWords
      BY <1>7, <3>1, <3>3, SizesAssumption DEF StoreSecret, BootWork
    <3> QED  BY <3>1, <3>2, <3>3
  <2> QED  BY <1>1, <1>2, <1>t, <2>1
<1>8. CASE LoadSecrets
  <2>1. BootWork' <= BootWork - 1 /\ cuts' = cuts
    BY <1>8 DEF LoadSecrets, BootWork
  <2>2. C' <= C
    BY <1>2, <1>t, <2>1
  <2> QED  BY <1>1, <1>t, <2>1, <2>2, SumShrinks
<1>9. CASE PowerOff \/ EepromFails
  <2>1. CutsLeft' = CutsLeft - 1
    <3>1. cuts < MaxCuts /\ cuts' = cuts + 1
      BY <1>9 DEF PowerOff, EepromFails
    <3>2. cuts \in Nat /\ MaxCuts \in Nat
      BY SizesAssumption DEF TypeOK
    <3> QED  BY <3>1, <3>2 DEF CutsLeft
  <2>2. (Life + 1) * (CutsLeft - 1) = (Life + 1) * CutsLeft - (Life + 1)
    BY <1>t
  <2>3. C' = C - (Life + 1)
    BY <1>c, <2>1, <2>2
  <2>4. C = C' + (Life + 1)
    BY <1>t, <2>3
  <2>5. C' + BootWork' < (C' + (Life + 1)) + BootWork
    BY <1>t, CutShrinks
  <2> QED  BY <1>1, <2>4, <2>5
<1> QED  BY <1>0, <1>3, <1>4, <1>5, <1>6, <1>7, <1>8, <1>9 DEF Next, Booting

(* Two things the provers do not know are hypotheses of the next theorem,  *)
(* and no behaviour of Spec is without them: an action is ENABLED when its *)
(* guard holds (GuardsEnable), and a natural number that never grows is    *)
(* the same from some time on (WorkSettles).                               *)
BootCanGo == pc \in {"init", "seed", "check", "flag", "first", "load"}
GuardsEnable == BootCanGo => ENABLED <<Booting>>_vars
WorkSettles ==
    [](AllWork \in Nat) /\ [][AllWork' <= AllWork]_vars => <>[][AllWork' = AllWork]_vars

(* The car, and the fob once the endless loop is out of its rand_init,     *)
(* gets through rand_init, first_boot and secrets_init if it keeps its     *)
(* power and its EEPROM comes up, for any number of words: BootEnds.       *)
THEOREM BootReachesLoop == FairSpec /\ []GuardsEnable /\ WorkSettles => BootEnds
<1>1. TypeOK => AllWork \in Nat
  BY WorkTypes DEF WorkTyped
<1>2. TypeOK /\ TypeOK' /\ [Next]_vars => [AllWork' <= AllWork]_vars
  <2> SUFFICES ASSUME TypeOK, TypeOK', [AllWork' < AllWork]_vars
               PROVE  [AllWork' <= AllWork]_vars
    BY WorkShrinks
  <2>l. WorkTyped /\ WorkTyped'
    BY WorkTypes, PTL
  <2>1. AllWork \in Nat /\ AllWork' \in Nat
    BY <2>l DEF WorkTyped
  <2> HIDE DEF AllWork
  <2> QED  BY <2>1
<1>3. TypeOK /\ TypeOK' /\ [Next]_vars /\ [AllWork' = AllWork]_vars => [FALSE]_vars
  <2> SUFFICES ASSUME TypeOK, [AllWork' < AllWork]_vars, AllWork' = AllWork PROVE [FALSE]_vars
    BY WorkShrinks
  <2>1. AllWork \in Nat
    BY WorkTypes DEF WorkTyped
  <2> HIDE DEF AllWork
  <2> QED  BY <2>1
<1>4. [FALSE]_vars => (BootCanGo => BootCanGo')
  BY DEF vars, BootCanGo
<1>5. TypeOK /\ pc # "spin" =>
        (BootCanGo <=> pc \notin {"off", "loop"}) /\ (~BootCanGo <=> pc \in {"off", "loop"})
  BY DEF TypeOK, BootCanGo
<1>6. Spec => [](AllWork \in Nat) /\ [][AllWork' <= AllWork]_vars
  BY <1>1, <1>2, BootTypeCorrect, PTL DEF Spec
<1>7. Spec /\ WorkSettles => <>[][FALSE]_vars
  BY <1>3, <1>6, BootTypeCorrect, PTL DEF Spec, WorkSettles
<1>8. FairSpec /\ []GuardsEnable /\ WorkSettles => <>[]~BootCanGo
  BY <1>4, <1>7, PTL DEF FairSpec, GuardsEnable
<1>9. CASE SpinsInRandInit
  BY <1>9 DEF BootEnds
<1>10. CASE ~SpinsInRandInit
  <2>1. SpinInv => pc # "spin"
    BY <1>10 DEF SpinInv
  <2>2. FairSpec /\ []GuardsEnable /\ WorkSettles
          => (pc \notin {"off", "loop"} ~> pc \in {"off", "loop"})
    BY <1>5, <1>8, <2>1, BootTypeCorrect, SpinIsTheLoop, PTL DEF FairSpec
  <2> QED  BY <2>2, <1>10 DEF BootEnds
<1> QED  BY <1>9, <1>10

=============================================================================
