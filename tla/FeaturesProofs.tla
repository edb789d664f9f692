--------------------------- MODULE FeaturesProofs ---------------------------
(***************************************************************************)
(* Proofs about Features, for any number of features, runs and power cuts: *)
(* what is stored is kept, a completed run unlocks the car, and the two    *)
(* word-by-word commands implement FeatureStore's atomic ones.             *)
(***************************************************************************)
EXTENDS Features, TLAPS

LEMMA WordFacts ==
  /\ BlockWords \in Nat /\ PaddedWords = BlockWords + 1 /\ BlockWords >= 3
  /\ SigWord(1) = BlockWords /\ SigWord(2) = PaddedWords
  /\ \A f \in FeatureIds, h \in Halves : DataWord(f, h) \in Nat /\ 1 <= DataWord(f, h) /\ DataWord(f, h) < BlockWords
  /\ \A f \in FeatureIds : DataWord(f, 2) = DataWord(f, 1) + 1
  BY NumbersAssumption DEF BlockWords, PaddedWords, SigWord, DataWord, FeatureIds, Halves

LEMMA BlockFacts ==
  ASSUME NEW b \in Block
  PROVE  /\ b.flags \in SUBSET FeatureIds
         /\ b.data \in [FeatureIds -> [Halves -> {"erased", "factory"}]]
         /\ b.sig \in [Halves -> SUBSET FeatureIds]
         /\ \A f \in FeatureIds, h \in Halves : b.data[f][h] \in {"erased", "factory"}
         /\ \A h \in Halves : b.sig[h] \in SUBSET FeatureIds
  BY DEF Block

LEMMA SameBlock ==
  ASSUME NEW a \in Block, NEW b \in Block, a.flags = b.flags,
         \A f \in FeatureIds, h \in Halves : a.data[f][h] = b.data[f][h],
         \A h \in Halves : a.sig[h] = b.sig[h]
  PROVE  a = b
<1>1. a.data = b.data
  <2>1. a.data \in [FeatureIds -> [Halves -> {"erased", "factory"}]]
    BY DEF Block
  <2>2. b.data \in [FeatureIds -> [Halves -> {"erased", "factory"}]]
    BY DEF Block
  <2>3. \A f \in FeatureIds : a.data[f] = b.data[f]
    BY <2>1, <2>2
  <2> QED  BY <2>1, <2>2, <2>3
<1>2. a.sig = b.sig
  BY DEF Block
<1> QED  BY <1>1, <1>2 DEF Block

(* The blocks the fob makes are blocks.                                    *)
LEMMA MadeBlocks ==
  /\ ErasedBlock \in Block
  /\ \A b \in Block, f \in FeatureIds : WithFeature(b, f) \in Block
  /\ \A b \in Block, o \in Block, w \in Nat : WithWord(b, o, w) \in Block
<1>1. ErasedBlock \in Block
  BY DEF ErasedBlock, Block
<1>2. ASSUME NEW b \in Block, NEW f \in FeatureIds PROVE WithFeature(b, f) \in Block
  BY DEF WithFeature, Block
<1>3. ASSUME NEW b \in Block, NEW o \in Block, NEW w \in Nat PROVE WithWord(b, o, w) \in Block
  BY DEF WithWord, Block
<1> QED  BY <1>1, <1>2, <1>3

LEMMA ReadFacts ==
  ASSUME eeprom \in Block
  PROVE  /\ ReadBlock(BlockWords) \in Block
         /\ ReadBlock(BlockWords).flags = eeprom.flags
         /\ ReadBlock(BlockWords).data = eeprom.data
         /\ ReadBlock(BlockWords).sig[1] = eeprom.sig[1]
<1>1. ReadBlock(BlockWords) \in Block
  BY DEF ReadBlock, Block
<1>2. /\ ReadBlock(BlockWords).flags = eeprom.flags
      /\ ReadBlock(BlockWords).data = eeprom.data
      /\ ReadBlock(BlockWords).sig = [h \in Halves |-> IF SigWord(h) <= BlockWords THEN eeprom.sig[h] ELSE {}]
  BY DEF ReadBlock, Block
<1>3. SigWord(1) <= BlockWords /\ 1 \in Halves
  BY WordFacts DEF Halves
<1> QED  BY <1>1, <1>2, <1>3

-----------------------------------------------------------------------------
LEMMA FeatureTypeInit == Init => TypeOK
<1> SUFFICES ASSUME Init PROVE TypeOK
  OBVIOUS
<1>1. eeprom \in Block /\ c \in Block /\ before \in Block
  BY MadeBlocks DEF Init
<1>2. 1 \in FeatureIds /\ 1 \in 1 .. PaddedWords
  BY NumbersAssumption, WordFacts DEF FeatureIds
<1> QED  BY <1>1, <1>2 DEF Init, TypeOK

LEMMA FeatureTypeStep == TypeOK /\ [Next]_vars => TypeOK'
<1> SUFFICES ASSUME TypeOK, [Next]_vars PROVE TypeOK'
  OBVIOUS
<1>0. /\ eeprom \in Block /\ c \in Block /\ before \in Block
      /\ arg \in SUBSET FeatureIds /\ broken \in SUBSET FeatureIds
      /\ k \in 1 .. PaddedWords /\ k \in Nat /\ runs \in Nat /\ cuts \in Nat
  BY WordFacts DEF TypeOK
<1>1. ASSUME NEW f \in FeatureIds, UploadFeature(f) PROVE TypeOK'
  <2>1. c' \in Block
    BY <1>0, <1>1, ReadFacts, MadeBlocks DEF UploadFeature
  <2> QED  BY <1>0, <1>1, <2>1, WordFacts DEF UploadFeature, TypeOK
<1>2. CASE RefuseFeature
  BY <1>0, <1>2 DEF RefuseFeature, TypeOK
<1>3. CASE QueryFeatures
  <2>1. answer' \in SUBSET FeatureIds
    BY <1>0, <1>3, ReadFacts, BlockFacts DEF QueryFeatures
  <2> QED  BY <1>0, <1>3, <2>1 DEF QueryFeatures, TypeOK
<1>4. CASE UploadSig
  <2>1. c' \in Block
    <3>1. ReadBlock(BlockWords) \in Block /\ answer \in SUBSET FeatureIds
      BY <1>0, ReadFacts DEF TypeOK
    <3>2. c' = [ReadBlock(BlockWords) EXCEPT !.sig = [h \in Halves |-> answer]]
      BY <1>4 DEF UploadSig
    <3> QED  BY <3>1, <3>2 DEF Block
  <2>2. arg' \in SUBSET FeatureIds
    BY <1>4 DEF UploadSig, TypeOK
  <2> QED  BY <1>0, <1>4, <2>1, <2>2, WordFacts DEF UploadSig, TypeOK, hostVars
<1>5. CASE StoreWord
  <2>1. eeprom' \in Block
    BY <1>0, <1>5, MadeBlocks DEF StoreWord
  <2>2. k' \in 1 .. PaddedWords /\ (job' = "feature" => k' <= BlockWords)
    BY <1>0, <1>5, WordFacts DEF StoreWord, JobWords, TypeOK
  <2>3. /\ job' \in {"poll", "feature", "sig"} /\ host' \in {"idle", "added", "queried", "done"}
        /\ broken' \in SUBSET FeatureIds /\ open' \in BOOLEAN
    BY <1>5 DEF StoreWord, TypeOK
  <2> QED  BY <1>0, <1>5, <2>1, <2>2, <2>3 DEF StoreWord, TypeOK
<1>6. CASE Abandon
  BY <1>0, <1>6 DEF Abandon, TypeOK
<1>7. CASE PowerOff
  <2>1. open' \in BOOLEAN
    BY <1>7 DEF PowerOff
  <2>2. broken' \in SUBSET FeatureIds /\ host' \in {"idle", "added", "queried", "done"} /\ cuts' \in Nat
    BY <1>0, <1>7 DEF PowerOff
  <2> QED  BY <1>0, <1>7, <2>1, <2>2 DEF PowerOff, TypeOK
<1>8. CASE PowerOn
  BY <1>0, <1>8 DEF PowerOn, TypeOK, hostVars
<1>9. CASE UNCHANGED vars
  BY <1>0, <1>9 DEF vars, TypeOK
<1> QED  BY <1>1, <1>2, <1>3, <1>4, <1>5, <1>6, <1>7, <1>8, <1>9 DEF Next

(* Every variable of the feature block and its host has its type, and      *)
(* eeprom_write stays in the block.                                        *)
THEOREM FeatureTypeCorrect == Spec => []TypeOK
  BY FeatureTypeInit, FeatureTypeStep, PTL DEF Spec

-----------------------------------------------------------------------------
(* What eeprom_write has done of the command at hand: the words before     *)
(* word k are the command's, the others still those it began with.         *)
Written ==
    /\ eeprom.flags = (IF 1 < k THEN c.flags ELSE before.flags)
    /\ \A f \in FeatureIds, h \in Halves :
          eeprom.data[f][h] = IF DataWord(f, h) < k THEN c.data[f][h] ELSE before.data[f][h]
    /\ \A h \in Halves : eeprom.sig[h] = IF SigWord(h) < k THEN c.sig[h] ELSE before.sig[h]

(* What the command's copy of the block differs in.                        *)
ForFeature(f) ==
    /\ arg = {f} /\ c.flags = before.flags \cup {f}
    /\ \A g \in FeatureIds, h \in Halves :
          c.data[g][h] = IF g = f THEN "factory" ELSE before.data[g][h]
    /\ c.sig[1] = before.sig[1]
ForSignature ==
    /\ c.flags = before.flags
    /\ \A g \in FeatureIds, h \in Halves : c.data[g][h] = before.data[g][h]
    /\ \A h \in Halves : c.sig[h] = arg

JobInv ==
    /\ Busy => Written
    /\ job = "feature" => \E f \in FeatureIds : ForFeature(f)
    /\ job = "sig" => ForSignature

LEMMA JobInit == Init => JobInv
  BY DEF Init, JobInv, Busy

LEMMA WordStep ==
  ASSUME TypeOK, StoreWord
  PROVE  /\ Busy /\ k \in Nat /\ k >= 1
         /\ eeprom'.flags = (IF k = 1 THEN c.flags ELSE eeprom.flags)
         /\ \A f \in FeatureIds, h \in Halves :
               eeprom'.data[f][h] = IF k = DataWord(f, h) THEN c.data[f][h] ELSE eeprom.data[f][h]
         /\ \A h \in Halves : eeprom'.sig[h] = IF k = SigWord(h) THEN c.sig[h] ELSE eeprom.sig[h]
         /\ UNCHANGED <<c, arg, before>>
         /\ \/ job' = job /\ k' = k + 1 /\ k < JobWords /\ UNCHANGED <<host, broken, open>>
            \/ job' = "poll" /\ k' = k /\ k = JobWords
<1>1. eeprom' = WithWord(c, eeprom, k)
  BY DEF StoreWord
<1>2. /\ eeprom'.flags = (IF k = 1 THEN c.flags ELSE eeprom.flags)
      /\ \A f \in FeatureIds, h \in Halves :
            eeprom'.data[f][h] = IF k = DataWord(f, h) THEN c.data[f][h] ELSE eeprom.data[f][h]
      /\ \A h \in Halves : eeprom'.sig[h] = IF k = SigWord(h) THEN c.sig[h] ELSE eeprom.sig[h]
  BY <1>1 DEF WithWord
<1>3. k \in Nat /\ k >= 1 /\ k <= JobWords /\ JobWords \in Nat
  BY WordFacts DEF TypeOK, StoreWord, JobWords
<1>4. Busy /\ UNCHANGED <<c, arg, before>>
  BY DEF StoreWord, Busy
<1>5. \/ job' = job /\ k' = k + 1 /\ k < JobWords /\ UNCHANGED <<host, broken, open>>
      \/ job' = "poll" /\ k' = k /\ k = JobWords
  BY <1>3 DEF StoreWord
<1> QED  BY <1>2, <1>3, <1>4, <1>5

(* The same invariant one word on, whether or not it is the last.          *)
LEMMA WrittenStep ==
  ASSUME TypeOK, JobInv, StoreWord
  PROVE  /\ eeprom'.flags = c.flags
         /\ \A f \in FeatureIds, h \in Halves :
               eeprom'.data[f][h] = IF DataWord(f, h) <= k THEN c.data[f][h] ELSE before.data[f][h]
         /\ \A h \in Halves : eeprom'.sig[h] = IF SigWord(h) <= k THEN c.sig[h] ELSE before.sig[h]
<1>1. Written
  BY WordStep DEF JobInv
<1>2. eeprom'.flags = c.flags
  BY <1>1, WordStep DEF Written
<1>3. ASSUME NEW f \in FeatureIds, NEW h \in Halves
      PROVE  eeprom'.data[f][h] = IF DataWord(f, h) <= k THEN c.data[f][h] ELSE before.data[f][h]
  <2>1. DataWord(f, h) \in Nat
    BY WordFacts
  <2>2. /\ eeprom'.data[f][h] = IF k = DataWord(f, h) THEN c.data[f][h] ELSE eeprom.data[f][h]
        /\ eeprom.data[f][h] = IF DataWord(f, h) < k THEN c.data[f][h] ELSE before.data[f][h]
        /\ k \in Nat
    BY <1>1, WordStep DEF Written
  <2> QED  BY <2>1, <2>2
<1>4. ASSUME NEW h \in Halves
      PROVE  eeprom'.sig[h] = IF SigWord(h) <= k THEN c.sig[h] ELSE before.sig[h]
  <2>1. SigWord(h) \in Nat
    BY WordFacts DEF Halves
  <2>2. /\ eeprom'.sig[h] = IF k = SigWord(h) THEN c.sig[h] ELSE eeprom.sig[h]
        /\ eeprom.sig[h] = IF SigWord(h) < k THEN c.sig[h] ELSE before.sig[h]
        /\ k \in Nat
    BY <1>1, WordStep DEF Written
  <2> QED  BY <2>1, <2>2
<1> QED  BY <1>2, <1>3, <1>4

LEMMA JobStep == TypeOK /\ JobInv /\ [Next]_vars => JobInv'
<1> SUFFICES ASSUME TypeOK, JobInv, [Next]_vars PROVE JobInv'
  OBVIOUS
<1>0. eeprom \in Block
  BY DEF TypeOK
<1>1. ASSUME NEW f \in FeatureIds, UploadFeature(f) PROVE JobInv'
  <2>1. /\ c' = WithFeature(ReadBlock(BlockWords), f) /\ before' = eeprom /\ eeprom' = eeprom
        /\ job' = "feature" /\ arg' = {f} /\ k' = 1
    BY <1>1 DEF UploadFeature
  <2>2. Written'
    <3>1. \A g \in FeatureIds, h \in Halves : ~(DataWord(g, h) < 1)
      BY WordFacts
    <3>2. \A h \in Halves : ~(SigWord(h) < 1)
      BY WordFacts DEF Halves
    <3> QED  BY <2>1, <3>1, <3>2 DEF Written, DataWord, SigWord
  <2>3. ForFeature(f)'
    <3>1. /\ c'.flags = eeprom.flags \cup {f} /\ c'.sig[1] = eeprom.sig[1]
          /\ c'.data = [eeprom.data EXCEPT ![f] = [h \in Halves |-> "factory"]]
      BY <1>0, <2>1, ReadFacts DEF WithFeature, Block
    <3>2. \A g \in FeatureIds, h \in Halves :
             c'.data[g][h] = IF g = f THEN "factory" ELSE eeprom.data[g][h]
      BY <1>0, <3>1, BlockFacts
    <3> QED  BY <2>1, <3>1, <3>2 DEF ForFeature
  <2> QED  BY <2>1, <2>2, <2>3 DEF JobInv
<1>2. CASE UploadSig
  <2>1. /\ c' = [ReadBlock(BlockWords) EXCEPT !.sig = [h \in Halves |-> answer]]
        /\ before' = eeprom /\ eeprom' = eeprom /\ job' = "sig" /\ arg' = answer /\ k' = 1
    BY <1>2 DEF UploadSig
  <2>2. Written'
    <3>1. \A g \in FeatureIds, h \in Halves : ~(DataWord(g, h) < 1)
      BY WordFacts
    <3>2. \A h \in Halves : ~(SigWord(h) < 1)
      BY WordFacts DEF Halves
    <3> QED  BY <2>1, <3>1, <3>2 DEF Written, DataWord, SigWord
  <2>3. ForSignature'
    <3>1. /\ c'.flags = eeprom.flags /\ c'.data = eeprom.data
          /\ c'.sig = [h \in Halves |-> answer]
      BY <1>0, <2>1, ReadFacts DEF Block
    <3> QED  BY <2>1, <3>1 DEF ForSignature
  <2> QED  BY <2>1, <2>2, <2>3 DEF JobInv
<1>3. CASE StoreWord
  <2>1. CASE job' = "poll"
    BY <2>1 DEF JobInv, Busy
  <2>2. CASE job' = job /\ k' = k + 1
    <3>1. UNCHANGED <<c, arg, before>> /\ k \in Nat /\ k >= 1
      BY <1>3, WordStep
    <3>2. /\ eeprom'.flags = c.flags
          /\ \A f \in FeatureIds, h \in Halves :
                eeprom'.data[f][h] = IF DataWord(f, h) < k' THEN c.data[f][h] ELSE before.data[f][h]
          /\ \A h \in Halves : eeprom'.sig[h] = IF SigWord(h) < k' THEN c.sig[h] ELSE before.sig[h]
      <4>1. \A w \in Nat : w <= k <=> w < k'
        BY <2>2, <3>1
      <4>2. \A h \in Halves : SigWord(h) \in Nat
        BY WordFacts DEF Halves
      <4>3. \A f \in FeatureIds, h \in Halves : DataWord(f, h) \in Nat
        BY WordFacts
      <4> QED  BY <1>3, <4>1, <4>2, <4>3, WrittenStep
    <3>3. 1 < k'
      BY <2>2, <3>1
    <3>4. Written'
      BY <3>1, <3>2, <3>3 DEF Written, DataWord, SigWord
    <3>5. (\A f \in FeatureIds : ForFeature(f) => ForFeature(f)') /\ (ForSignature => ForSignature')
      BY <3>1 DEF ForFeature, ForSignature
    <3> QED  BY <2>2, <3>4, <3>5 DEF JobInv
  <2> QED  BY <1>3, <2>1, <2>2, WordStep
<1>4. CASE RefuseFeature \/ QueryFeatures \/ Abandon \/ UNCHANGED vars
  <2>1. UNCHANGED <<eeprom, c, job, arg, k, before>>
    BY <1>4 DEF RefuseFeature, QueryFeatures, Abandon, vars
  <2> QED  BY <2>1 DEF JobInv, Busy, Written, ForFeature, ForSignature, DataWord, SigWord
<1>5. CASE PowerOff \/ PowerOn
  <2>1. job' \in {"off", "poll"}
    BY <1>5 DEF PowerOff, PowerOn
  <2> QED  BY <2>1 DEF JobInv, Busy
<1> QED  BY <1>1, <1>2, <1>3, <1>4, <1>5 DEF Next

LEMMA JobInvariance == Spec => [](TypeOK /\ JobInv)
  BY FeatureTypeInit, FeatureTypeStep, JobInit, JobStep, PTL DEF Spec

(* No word of an upload, cut where it may be, takes away a flag or data    *)
(* stored before.                                                          *)
THEOREM StoredStays == Spec => StoredIsKept
<1>1. TypeOK /\ JobInv /\ [Next]_vars
        => [/\ eeprom.flags \subseteq eeprom'.flags
            /\ \A f \in FeatureIds, h \in Halves :
                  eeprom.data[f][h] = "factory" => eeprom'.data[f][h] = "factory"]_vars
  <2> SUFFICES ASSUME TypeOK, JobInv, [Next]_vars
               PROVE  /\ eeprom.flags \subseteq eeprom'.flags
                      /\ \A f \in FeatureIds, h \in Halves :
                            eeprom.data[f][h] = "factory" => eeprom'.data[f][h] = "factory"
    OBVIOUS
  <2>1. CASE UNCHANGED eeprom
    BY <2>1
  <2>2. CASE StoreWord
    <3>1. Written /\ (job = "feature" \/ job = "sig")
      BY <2>2, WordStep DEF JobInv, Busy
    <3>2. /\ before.flags \subseteq c.flags
          /\ \A f \in FeatureIds, h \in Halves :
                before.data[f][h] = "factory" => c.data[f][h] = "factory"
      BY <3>1 DEF JobInv, ForFeature, ForSignature
    <3>3. eeprom.flags \subseteq eeprom'.flags
      BY <2>2, <3>1, <3>2, WrittenStep DEF Written
    <3>4. ASSUME NEW f \in FeatureIds, NEW h \in Halves, eeprom.data[f][h] = "factory"
          PROVE  eeprom'.data[f][h] = "factory"
      BY <2>2, <3>1, <3>2, <3>4, WordStep DEF Written
    <3> QED  BY <3>3, <3>4
  <2> QED
    BY <2>1, <2>2
    DEF Next, UploadFeature, RefuseFeature, QueryFeatures, UploadSig, Abandon, PowerOff, PowerOn, vars
<1> QED  BY <1>1, JobInvariance, PTL DEF Spec, StoredIsKept

-----------------------------------------------------------------------------
(* What a step does to the block as the world sees it.                     *)
SameData(f) == \A h \in Halves : Shown'.data[f][h] = Shown.data[f][h]
Installed(f) ==
    /\ Shown'.flags = Shown.flags \cup {f}
    /\ \A g \in FeatureIds : g # f => SameData(g)
    /\ \A h \in Halves : Shown'.data[f][h] = "factory"
    /\ \A h \in Halves : Shown'.sig[h] = Shown.sig[h]
HalfInstalled(f) ==
    /\ Shown'.flags = Shown.flags \cup {f}
    /\ \A g \in FeatureIds : g # f => SameData(g)
    /\ \/ SameData(f)
       \/ Shown'.data[f][1] = "factory" /\ Shown'.data[f][2] = Shown.data[f][2]
       \/ \A h \in Halves : Shown'.data[f][h] = "factory"
    /\ \A h \in Halves : Shown'.sig[h] = Shown.sig[h]
Signed ==
    /\ Shown'.flags = Shown.flags /\ \A f \in FeatureIds : SameData(f)
    /\ \A h \in Halves : Shown'.sig[h] = arg
HalfSigned ==
    /\ Shown'.flags = Shown.flags /\ \A f \in FeatureIds : SameData(f)
    /\ Shown'.sig[1] = arg /\ Shown'.sig[2] = Shown.sig[2]

SeenStep ==
    \/ Shown' = Shown /\ broken \subseteq broken' /\ ~(Busy /\ job' = "poll")
    \/ \E f \in FeatureIds : /\ job = "feature" /\ arg = {f} /\ broken' = broken \ {f}
                             /\ job' = "poll" /\ Installed(f)
    \/ \E f \in FeatureIds : /\ job = "feature" /\ arg = {f} /\ broken' = broken \cup {f}
                             /\ job' = "off" /\ HalfInstalled(f)
    \/ job = "sig" /\ broken' = broken /\ job' = "poll" /\ Signed
    \/ job = "sig" /\ broken' = broken /\ job' = "off" /\ HalfSigned

LEMMA ShownType == TypeOK => Shown \in Block
  BY DEF TypeOK, Shown

(* eeprom_write has come to its end.                                       *)
LEMMA EndStep ==
  ASSUME TypeOK, JobInv, StoreWord, job' = "poll"
  PROVE  SeenStep
<1>1. Shown = before /\ Shown' = eeprom' /\ k = JobWords /\ (job = "feature" \/ job = "sig")
  BY WordStep DEF Shown, Busy
<1>2. CASE job = "feature"
  <2>1. PICK f \in FeatureIds : ForFeature(f)
    BY <1>2 DEF JobInv
  <2>2. k = BlockWords /\ broken' = broken \ {f} /\ arg = {f}
    BY <1>1, <1>2, <2>1, WordFacts DEF JobWords, StoreWord, ForFeature
  <2>3. \A g \in FeatureIds, h \in Halves : DataWord(g, h) <= k
    BY <2>2, WordFacts
  <2>4. SigWord(1) <= k /\ ~(SigWord(2) <= k)
    BY <2>2, WordFacts
  <2>5. \A g \in FeatureIds, h \in Halves : eeprom'.data[g][h] = c.data[g][h]
    BY <2>3, WrittenStep
  <2>6. eeprom'.sig[1] = c.sig[1] /\ eeprom'.sig[2] = before.sig[2]
    BY <2>4, WrittenStep DEF Halves
  <2>7. eeprom'.flags = c.flags
    BY WrittenStep
  <2>8. /\ \A g \in FeatureIds : g # f => SameData(g)
        /\ \A h \in Halves : Shown'.data[f][h] = "factory"
    BY <1>1, <2>1, <2>5 DEF ForFeature, SameData
  <2>9. \A h \in Halves : Shown'.sig[h] = Shown.sig[h]
    BY <1>1, <2>1, <2>6 DEF ForFeature, Halves
  <2>10. Shown'.flags = Shown.flags \cup {f}
    BY <1>1, <2>1, <2>7 DEF ForFeature
  <2> QED  BY <1>2, <2>2, <2>8, <2>9, <2>10 DEF SeenStep, Installed
<1>3. CASE job = "sig"
  <2>1. ForSignature
    BY <1>3 DEF JobInv
  <2>2. k = PaddedWords /\ broken' = broken
    BY <1>1, <1>3 DEF JobWords, StoreWord
  <2>3. \A g \in FeatureIds, h \in Halves : DataWord(g, h) <= k
    BY <2>2, WordFacts
  <2>4. \A h \in Halves : SigWord(h) <= k
    BY <2>2, WordFacts DEF Halves
  <2>5. \A g \in FeatureIds, h \in Halves : eeprom'.data[g][h] = c.data[g][h]
    BY <2>3, WrittenStep
  <2>6. \A h \in Halves : eeprom'.sig[h] = c.sig[h]
    BY <2>4, WrittenStep
  <2>7. eeprom'.flags = c.flags
    BY WrittenStep
  <2>8. Signed
    BY <1>1, <2>1, <2>5, <2>6, <2>7 DEF ForSignature, Signed, SameData
  <2> QED  BY <1>3, <2>2, <2>8 DEF SeenStep
<1> QED  BY <1>1, <1>2, <1>3

(* Power fails in eeprom_write.                                            *)
LEMMA CutStep ==
  ASSUME TypeOK, JobInv, PowerOff, Busy
  PROVE  SeenStep
<1>1. /\ Shown = before /\ Shown' = eeprom /\ job' = "off" /\ Written
      /\ job = "feature" \/ job = "sig"
  BY DEF Shown, Busy, PowerOff, JobInv
<1>2. eeprom \in Block /\ before \in Block /\ k \in Nat /\ k >= 1 /\ k <= PaddedWords
  BY WordFacts DEF TypeOK
<1>3. CASE k = 1
  <2>1. \A g \in FeatureIds, h \in Halves : ~(DataWord(g, h) < k)
    BY <1>3, WordFacts
  <2>2. \A h \in Halves : ~(SigWord(h) < k)
    BY <1>3, WordFacts DEF Halves
  <2>3. /\ eeprom.flags = before.flags
        /\ \A g \in FeatureIds, h \in Halves : eeprom.data[g][h] = before.data[g][h]
        /\ \A h \in Halves : eeprom.sig[h] = before.sig[h]
    BY <1>1, <1>3, <2>1, <2>2 DEF Written
  <2>4. eeprom = before
    BY <1>2, <2>3, SameBlock
  <2>5. broken \subseteq broken'
    BY DEF PowerOff
  <2> QED  BY <1>1, <2>4, <2>5 DEF SeenStep
<1>4. CASE k # 1 /\ job = "feature"
  <2>1. PICK f \in FeatureIds : ForFeature(f)
    BY <1>4 DEF JobInv
  <2>2. arg = {f} /\ broken' = broken \cup {f}
    BY <1>4, <2>1 DEF PowerOff, ForFeature
  <2>3. k <= BlockWords /\ 1 < k
    BY <1>2, <1>4, WordFacts DEF TypeOK
  <2>4. \A h \in Halves : ~(SigWord(h) < k)
    BY <1>2, <2>3, WordFacts DEF Halves
  <2>5. Shown'.flags = Shown.flags \cup {f}
    BY <1>1, <2>1, <2>3 DEF Written, ForFeature
  <2>6. \A h \in Halves : Shown'.sig[h] = Shown.sig[h]
    BY <1>1, <2>4 DEF Written
  <2>7. \A g \in FeatureIds : g # f => SameData(g)
    BY <1>1, <2>1 DEF Written, ForFeature, SameData
  <2>8. \A h \in Halves : Shown'.data[f][h] = IF DataWord(f, h) < k THEN "factory" ELSE Shown.data[f][h]
    BY <1>1, <2>1 DEF Written, ForFeature
  <2>9. DataWord(f, 2) < k => DataWord(f, 1) < k
    BY <1>2, WordFacts DEF Halves
  <2>10. \/ SameData(f)
         \/ Shown'.data[f][1] = "factory" /\ Shown'.data[f][2] = Shown.data[f][2]
         \/ \A h \in Halves : Shown'.data[f][h] = "factory"
    BY <2>8, <2>9 DEF SameData, Halves
  <2> QED  BY <1>1, <1>4, <2>2, <2>5, <2>6, <2>7, <2>10 DEF SeenStep, HalfInstalled
<1>5. CASE k # 1 /\ job = "sig"
  <2>1. ForSignature
    BY <1>5 DEF JobInv
  <2>2. broken' = broken
    BY <1>5 DEF PowerOff
  <2>3. Shown'.flags = Shown.flags /\ \A g \in FeatureIds : SameData(g)
    BY <1>1, <2>1 DEF Written, ForSignature, SameData
  <2>4. Shown'.sig[2] = Shown.sig[2]
    <3>1. ~(SigWord(2) < k)
      BY <1>2, WordFacts
    <3> QED  BY <1>1, <3>1 DEF Written, Halves
  <2>5. CASE SigWord(1) < k
    <3>1. Shown'.sig[1] = arg
      BY <1>1, <2>1, <2>5 DEF Written, ForSignature, Halves
    <3> QED  BY <1>1, <1>5, <2>2, <2>3, <2>4, <3>1 DEF SeenStep, HalfSigned
  <2>6. CASE ~(SigWord(1) < k)
    <3>1. \A h \in Halves : eeprom.sig[h] = before.sig[h]
      BY <1>1, <2>4, <2>6 DEF Written, Halves
    <3>2. eeprom = before
      BY <1>1, <1>2, <2>3, <3>1, SameBlock DEF SameData
    <3> QED  BY <1>1, <2>2, <3>2 DEF SeenStep
  <2> QED  BY <2>5, <2>6
<1> QED  BY <1>1, <1>3, <1>4, <1>5

LEMMA SeenSteps == TypeOK /\ JobInv /\ [Next]_vars => SeenStep
<1> SUFFICES ASSUME TypeOK, JobInv, [Next]_vars PROVE SeenStep
  OBVIOUS
<1>1. CASE \E f \in FeatureIds : UploadFeature(f)
  <2>1. job = "poll" /\ before' = eeprom /\ broken' = broken /\ job' = "feature"
    BY <1>1 DEF UploadFeature
  <2> QED  BY <2>1 DEF SeenStep, Shown, Busy
<1>2. CASE UploadSig
  <2>1. job = "poll" /\ before' = eeprom /\ broken' = broken /\ job' = "sig"
    BY <1>2 DEF UploadSig
  <2> QED  BY <2>1 DEF SeenStep, Shown, Busy
<1>3. CASE StoreWord
  <2>1. CASE job' = "poll"
    BY <1>3, <2>1, EndStep
  <2>2. CASE job' # "poll"
    <3>1. job' = job /\ before' = before /\ broken' = broken /\ Busy
      BY <1>3, <2>2, WordStep
    <3> QED  BY <2>2, <3>1 DEF SeenStep, Shown, Busy
  <2> QED  BY <2>1, <2>2
<1>4. CASE PowerOff
  <2>1. CASE Busy
    BY <1>4, <2>1, CutStep
  <2>2. CASE ~Busy
    BY <1>4, <2>2 DEF PowerOff, SeenStep, Shown, Busy
  <2> QED  BY <2>1, <2>2
<1>5. CASE PowerOn
  BY <1>5 DEF PowerOn, SeenStep, Shown, Busy
<1>6. CASE RefuseFeature \/ QueryFeatures \/ Abandon \/ UNCHANGED vars
  <2>1. UNCHANGED <<eeprom, before, job, broken>>
    BY <1>6 DEF RefuseFeature, QueryFeatures, Abandon, vars
  <2> QED  BY <2>1 DEF SeenStep, Shown, Busy
<1> QED  BY <1>1, <1>2, <1>3, <1>4, <1>5, <1>6 DEF Next

-----------------------------------------------------------------------------
(* The data agree with the flags, but for uploads that were cut.           *)
DataInv ==
    /\ \A f \in Shown.flags \ broken : Whole(Shown, f)
    /\ \A f \in FeatureIds \ Shown.flags : Untouched(Shown, f)

LEMMA DataInit == Init => DataInv
  BY DEF Init, DataInv, Shown, Busy, ErasedBlock, Whole, Untouched

LEMMA DataStep == TypeOK /\ JobInv /\ DataInv /\ [Next]_vars => DataInv'
<1> SUFFICES ASSUME TypeOK, JobInv, DataInv, [Next]_vars PROVE DataInv'
  OBVIOUS
<1>1. CASE Shown' = Shown /\ broken \subseteq broken'
  BY <1>1 DEF DataInv, Whole, Untouched
<1>a. ASSUME NEW f \in FeatureIds, Shown'.flags = Shown.flags \cup {f},
             \A g \in FeatureIds : g # f => SameData(g),
             Whole(Shown', f) \/ f \in broken', \A g \in broken : g = f \/ g \in broken'
      PROVE  DataInv'
  <2>1. \A g \in FeatureIds : g # f => /\ Whole(Shown, g) => Whole(Shown', g)
                                       /\ Untouched(Shown, g) => Untouched(Shown', g)
    BY <1>a DEF SameData, Whole, Untouched
  <2>2. Shown.flags \subseteq FeatureIds
    BY ShownType, BlockFacts
  <2>3. ASSUME NEW g \in Shown'.flags \ broken' PROVE Whole(Shown', g)
    <3>1. CASE g = f
      BY <1>a, <2>3, <3>1
    <3>2. CASE g # f
      <4>1. g \in Shown.flags \ broken
        BY <1>a, <2>3, <3>2
      <4> QED  BY <2>1, <2>2, <3>2, <4>1 DEF DataInv
    <3> QED  BY <3>1, <3>2
  <2>4. ASSUME NEW g \in FeatureIds \ Shown'.flags PROVE Untouched(Shown', g)
    <3>1. g # f /\ g \in FeatureIds \ Shown.flags
      BY <1>a, <2>4
    <3> QED  BY <2>1, <3>1 DEF DataInv
  <2> QED  BY <2>3, <2>4 DEF DataInv, Whole, Untouched
<1>2. ASSUME NEW f \in FeatureIds, broken' = broken \ {f}, Installed(f) PROVE DataInv'
  <2>1. Whole(Shown', f)
    BY <1>2 DEF Installed, Whole
  <2> QED  BY <1>2, <1>a, <2>1 DEF Installed
<1>3. ASSUME NEW f \in FeatureIds, broken' = broken \cup {f}, HalfInstalled(f) PROVE DataInv'
  <2>1. f \in broken' /\ \A g \in broken : g \in broken'
    BY <1>3
  <2> QED  BY <1>3, <1>a, <2>1 DEF HalfInstalled
<1>4. CASE broken' = broken /\ Signed
  <2>1. Shown.flags \subseteq FeatureIds
    BY ShownType, BlockFacts
  <2> QED  BY <1>4, <2>1 DEF Signed, SameData, DataInv, Whole, Untouched
<1>5. CASE broken' = broken /\ HalfSigned
  <2>1. Shown.flags \subseteq FeatureIds
    BY ShownType, BlockFacts
  <2> QED  BY <1>5, <2>1 DEF HalfSigned, SameData, DataInv, Whole, Untouched
<1> QED  BY <1>1, <1>2, <1>3, <1>4, <1>5, SeenSteps DEF SeenStep

(* Where a run of the host stands, and what the block then holds for it.   *)
RunInv ==
    /\ Busy => open
    /\ host \in {"added", "queried"} => open /\ job # "off"
    /\ host = "added" => \/ job = "feature" /\ arg = {wanted}
                         \/ job = "poll" /\ wanted \in Shown.flags
    /\ host = "queried" => /\ job \in {"poll", "sig"}
                           /\ answer = Shown.flags /\ wanted \in Shown.flags
                           /\ job = "sig" => arg = answer
    /\ host = "done" => ~open /\ wanted \in Shown.flags
    /\ ~open => \A h \in Halves : Shown.sig[h] = Shown.flags

LEMMA RunInit == Init => RunInv
  BY DEF Init, RunInv, Shown, Busy, ErasedBlock

LEMMA RunStep == TypeOK /\ JobInv /\ RunInv /\ [Next]_vars => RunInv'
<1> SUFFICES ASSUME TypeOK, JobInv, RunInv, [Next]_vars PROVE RunInv'
  OBVIOUS
<1>a. SeenStep
  BY SeenSteps
<1>1. ASSUME NEW f \in FeatureIds, UploadFeature(f) PROVE RunInv'
  BY <1>1 DEF UploadFeature, RunInv, Busy
<1>2. CASE RefuseFeature
  <2>1. job = "poll" /\ job' = "poll" /\ host' = "idle" /\ open' = open /\ eeprom' = eeprom
    BY <1>2 DEF RefuseFeature
  <2> QED  BY <2>1 DEF RunInv, Busy, Shown
<1>3. CASE QueryFeatures
  <2>1. answer' = eeprom.flags
    BY <1>3, ReadFacts DEF QueryFeatures, TypeOK
  <2> QED  BY <1>3, <2>1 DEF QueryFeatures, RunInv, Busy, Shown
<1>4. CASE UploadSig
  BY <1>4 DEF UploadSig, hostVars, RunInv, Busy, Shown
<1>5. CASE StoreWord
  <2>1. CASE job' # "poll"
    <3>1. /\ UNCHANGED <<host, broken, open, wanted, answer, arg, before>> /\ job' = job /\ Busy
      BY <1>5, <2>1, WordStep DEF StoreWord
    <3> QED  BY <3>1 DEF RunInv, Busy, Shown
  <2>2. CASE job' = "poll" /\ job = "feature"
    <3>1. PICK f \in FeatureIds : arg = {f} /\ Installed(f)
      BY <1>5, <1>a, <2>2, WordStep DEF SeenStep
    <3>2. UNCHANGED <<host, open, wanted, answer>>
      BY <1>5, <2>2, WordFacts DEF StoreWord
    <3>3. open /\ host # "queried" /\ host # "done"
      BY <2>2 DEF RunInv, Busy
    <3>4. host = "added" => wanted \in Shown'.flags
      BY <2>2, <3>1 DEF RunInv, Installed
    <3> QED  BY <2>2, <3>2, <3>3, <3>4 DEF RunInv, Busy
  <2>3. CASE job' = "poll" /\ job = "sig"
    <3>1. Signed
      BY <1>5, <1>a, <2>3, WordStep DEF SeenStep
    <3>2. UNCHANGED <<wanted, answer>>
      BY <1>5 DEF StoreWord
    <3>3. open /\ host # "added" /\ host # "done"
      BY <2>3 DEF RunInv, Busy
    <3>4. CASE host = "queried"
      <4>1. host' = "done" /\ open' = FALSE
        BY <1>5, <2>3, <3>4, WordStep DEF StoreWord
      <4>2. wanted \in Shown'.flags /\ \A h \in Halves : Shown'.sig[h] = Shown'.flags
        BY <2>3, <3>1, <3>4 DEF RunInv, Signed
      <4> QED  BY <2>3, <3>2, <4>1, <4>2 DEF RunInv, Busy
    <3>5. CASE host # "queried"
      <4>1. host' = host /\ open' = open
        BY <1>5, <2>3, <3>5 DEF StoreWord
      <4> QED  BY <2>3, <3>3, <3>5, <4>1 DEF RunInv, Busy
    <3> QED  BY <3>4, <3>5
  <2> QED  BY <1>5, <2>1, <2>2, <2>3, WordStep DEF Busy
<1>6. CASE Abandon
  BY <1>6 DEF Abandon, RunInv, Busy, Shown
<1>7. CASE PowerOff
  <2>1. job' = "off" /\ host' \in {"idle", "done"} /\ (host' = "done" => host = "done") /\ wanted' = wanted
    BY <1>7 DEF PowerOff
  <2>2. CASE Busy
    <3>1. open /\ open'
      BY <1>7, <2>2 DEF PowerOff, RunInv
    <3> QED  BY <2>1, <3>1 DEF RunInv, Busy
  <2>3. CASE ~Busy
    <3>1. open' = open /\ eeprom' = eeprom
      BY <1>7, <2>3 DEF PowerOff, Busy, TypeOK
    <3> QED  BY <2>1, <2>3, <3>1 DEF RunInv, Busy, Shown
  <2> QED  BY <2>2, <2>3
<1>8. CASE PowerOn
  BY <1>8 DEF PowerOn, hostVars, RunInv, Busy, Shown
<1>9. CASE UNCHANGED vars
  BY <1>9 DEF vars, RunInv, Busy, Shown
<1> QED  BY <1>1, <1>2, <1>3, <1>4, <1>5, <1>6, <1>7, <1>8, <1>9 DEF Next

FeatureInv == TypeOK /\ JobInv /\ DataInv /\ RunInv

LEMMA FeatureInvariance == Spec => []FeatureInv
<1>1. Init => FeatureInv
  BY FeatureTypeInit, JobInit, DataInit, RunInit DEF FeatureInv
<1>2. FeatureInv /\ [Next]_vars => FeatureInv'
  BY FeatureTypeStep, JobStep, DataStep, RunStep DEF FeatureInv
<1> QED  BY <1>1, <1>2, PTL DEF Spec

LEMMA AcceptedBlock ==
  ASSUME FeatureInv, ~open, broken = {}, ~Busy
  PROVE  Accepts(eeprom)
<1>1. Shown = eeprom
  BY DEF Shown
<1>2. eeprom.flags \subseteq FeatureIds
  BY BlockFacts DEF FeatureInv, TypeOK
<1>3. \A f \in eeprom.flags : Whole(eeprom, f)
  BY <1>1 DEF FeatureInv, DataInv
<1>4. \A f \in eeprom.flags : eeprom.data[f][1] = "factory"
  BY <1>3 DEF Whole, Halves
<1>5. \A f \in FeatureIds \ eeprom.flags : Untouched(eeprom, f)
  BY <1>1 DEF FeatureInv, DataInv
<1>6. \A h \in Halves : eeprom.sig[h] = eeprom.flags
  BY <1>1 DEF FeatureInv, RunInv
<1> QED  BY <1>3, <1>4, <1>5, <1>6 DEF Accepts

(* Between two runs of the host the car accepts the block, unless a cut    *)
(* upload has not been repeated.                                           *)
THEOREM CompletedUnlocks == Spec => []CompletedRunsUnlock
<1>1. FeatureInv => CompletedRunsUnlock
  BY AcceptedBlock DEF CompletedRunsUnlock
<1> QED  BY <1>1, FeatureInvariance, PTL

(* A run that is done has enabled its feature for the car.                 *)
THEOREM DoneEnables == Spec => []DoneIsEnabled
<1>1. FeatureInv => DoneIsEnabled
  <2> SUFFICES ASSUME FeatureInv, host = "done", broken = {}, ~Busy
               PROVE  wanted \in eeprom.flags /\ Accepts(eeprom)
    BY DEF DoneIsEnabled
  <2>1. ~open /\ wanted \in eeprom.flags
    BY DEF FeatureInv, RunInv, Shown
  <2> QED  BY <2>1, AcceptedBlock
<1> QED  BY <1>1, FeatureInvariance, PTL

-----------------------------------------------------------------------------
(* The refinement.                                                         *)
WholeSet == {f \in FeatureIds : Whole(Shown, f)}
TornSet == {f \in FeatureIds : ~Whole(Shown, f) /\ ~Untouched(Shown, f)}
SignedSet == IF Shown.sig[1] = Shown.sig[2] THEN Shown.sig[1] ELSE {}

LEMMA StoreInit == Init => Store!Init
<1> SUFFICES ASSUME Init PROVE Store!Init
  OBVIOUS
<1>1. Shown = ErasedBlock
  BY DEF Init, Shown, Busy
<1>2. /\ Shown.flags = {} /\ Shown.sig[1] = {} /\ Shown.sig[2] = {}
      /\ \A f \in FeatureIds, h \in Halves : Shown.data[f][h] = "erased"
  BY <1>1 DEF ErasedBlock, Halves
<1>3. WholeSet = {} /\ TornSet = {} /\ SignedSet = {}
  BY <1>2 DEF WholeSet, TornSet, SignedSet, Whole, Untouched, Halves
<1> QED  BY <1>2, <1>3 DEF Store!Init, WholeSet, TornSet, SignedSet

LEMMA SameSets ==
  ASSUME NEW f \in FeatureIds, \A g \in FeatureIds : g # f => SameData(g)
  PROVE  /\ SameData(f) => WholeSet' = WholeSet /\ TornSet' = TornSet
         /\ (\A h \in Halves : Shown'.data[f][h] = "factory")
              => WholeSet' = WholeSet \cup {f} /\ TornSet' = TornSet \ {f}
         /\ Whole(Shown', f) \/ Untouched(Shown', f) \/ Whole(Shown, f)
              \/ (WholeSet' = WholeSet /\ TornSet' = TornSet \cup {f} /\ f \notin WholeSet)
<1>1. \A g \in FeatureIds : g # f => /\ g \in WholeSet' <=> g \in WholeSet
                                     /\ g \in TornSet' <=> g \in TornSet
  BY DEF SameData, WholeSet, TornSet, Whole, Untouched
<1>2. WholeSet \subseteq FeatureIds /\ WholeSet' \subseteq FeatureIds
      /\ TornSet \subseteq FeatureIds /\ TornSet' \subseteq FeatureIds
  BY DEF WholeSet, TornSet
<1>3. ASSUME SameData(f) PROVE WholeSet' = WholeSet /\ TornSet' = TornSet
  <2>1. (f \in WholeSet' <=> f \in WholeSet) /\ (f \in TornSet' <=> f \in TornSet)
    BY <1>3 DEF SameData, WholeSet, TornSet, Whole, Untouched
  <2> QED  BY <1>1, <1>2, <2>1
<1>4. ASSUME \A h \in Halves : Shown'.data[f][h] = "factory"
      PROVE  WholeSet' = WholeSet \cup {f} /\ TornSet' = TornSet \ {f}
  <2>1. f \in WholeSet' /\ f \notin TornSet'
    BY <1>4 DEF WholeSet, TornSet, Whole
  <2> QED  BY <1>1, <1>2, <2>1
<1>5. ASSUME ~Whole(Shown', f), ~Untouched(Shown', f), ~Whole(Shown, f)
      PROVE  WholeSet' = WholeSet /\ TornSet' = TornSet \cup {f} /\ f \notin WholeSet
  <2>1. f \notin WholeSet' /\ f \in TornSet' /\ f \notin WholeSet
    BY <1>5 DEF WholeSet, TornSet
  <2> QED  BY <1>1, <1>2, <2>1
<1> QED  BY <1>3, <1>4, <1>5

LEMMA StoreSteps ==
  TypeOK /\ JobInv /\ [Next]_vars => [Store!Next]_(Store!vars)
<1> SUFFICES ASSUME TypeOK, JobInv, [Next]_vars
             PROVE  Store!Next \/ UNCHANGED <<Shown.flags, WholeSet, TornSet, SignedSet>>
  BY DEF Store!vars, WholeSet, TornSet, SignedSet
<1>1. CASE Shown' = Shown
  BY <1>1 DEF WholeSet, TornSet, SignedSet, Whole, Untouched
<1>2. ASSUME NEW f \in FeatureIds, Installed(f) PROVE Store!Next
  <2>1. WholeSet' = WholeSet \cup {f} /\ TornSet' = TornSet \ {f}
    BY <1>2, SameSets DEF Installed
  <2>2. SignedSet' = SignedSet
    BY <1>2 DEF Installed, SignedSet, Halves
  <2> QED  BY <1>2, <2>1, <2>2 DEF Installed, Store!Next, Store!Install, WholeSet, TornSet, SignedSet
<1>3. ASSUME NEW f \in FeatureIds, HalfInstalled(f) PROVE Store!Next
  <2>1. SignedSet' = SignedSet /\ Shown'.flags = Shown.flags \cup {f}
    BY <1>3 DEF HalfInstalled, SignedSet, Halves
  <2>2. \/ UNCHANGED <<WholeSet, TornSet>>
        \/ f \notin WholeSet /\ TornSet' = TornSet \cup {f} /\ UNCHANGED WholeSet
        \/ WholeSet' = WholeSet \cup {f} /\ TornSet' = TornSet \ {f}
    <3>1. \A g \in FeatureIds : g # f => SameData(g)
      BY <1>3 DEF HalfInstalled
    <3>2. CASE SameData(f)
      BY <3>1, <3>2, SameSets
    <3>3. CASE \A h \in Halves : Shown'.data[f][h] = "factory"
      BY <3>1, <3>3, SameSets
    <3>4. CASE /\ Shown'.data[f][1] = "factory" /\ Shown'.data[f][2] = Shown.data[f][2]
               /\ ~\A h \in Halves : Shown'.data[f][h] = "factory"
      <4>1. ~Whole(Shown', f) /\ ~Untouched(Shown', f) /\ ~Whole(Shown, f)
        BY <3>4 DEF Whole, Untouched, Halves
      <4> QED  BY <3>1, <4>1, SameSets
    <3> QED  BY <1>3, <3>2, <3>3, <3>4 DEF HalfInstalled
  <2> QED  BY <2>1, <2>2 DEF Store!Next, Store!TearFeature, WholeSet, TornSet, SignedSet
<1>4. ASSUME Shown'.flags = Shown.flags, \A f \in FeatureIds : SameData(f)
      PROVE  WholeSet' = WholeSet /\ TornSet' = TornSet
  <2>1. 1 \in FeatureIds
    BY NumbersAssumption DEF FeatureIds
  <2> QED  BY <1>4, <2>1, SameSets
<1>5. arg \in SUBSET FeatureIds
  BY DEF TypeOK
<1>6. CASE Signed
  <2>1. SignedSet' = arg
    BY <1>6 DEF Signed, SignedSet, Halves
  <2> QED  BY <1>4, <1>5, <1>6, <2>1 DEF Signed, Store!Next, Store!Sign, WholeSet, TornSet, SignedSet
<1>7. CASE HalfSigned
  <2>1. SignedSet' = arg \/ SignedSet' = {}
    BY <1>7 DEF HalfSigned, SignedSet
  <2>2. WholeSet' = WholeSet /\ TornSet' = TornSet /\ Shown'.flags = Shown.flags
    BY <1>4, <1>7 DEF HalfSigned
  <2> QED
    BY <1>5, <2>1, <2>2 DEF Store!Next, Store!Sign, Store!TearSignature, WholeSet, TornSet, SignedSet
<1> QED  BY <1>1, <1>2, <1>3, <1>6, <1>7, SeenSteps DEF SeenStep

(* Word by word, and with the power cut between any two words, the two     *)
(* upload commands do what FeatureStore promises.                          *)
THEOREM FeaturesImplement == Spec => ImplementsStore
  BY StoreInit, StoreSteps, JobInvariance, PTL DEF Spec, ImplementsStore, Store!Spec
=============================================================================
