------------------------------ MODULE Features ------------------------------
(***************************************************************************)
(* The fob's feature block (CommandUnlock, at EEPROM_SIG_ADDR) word by     *)
(* word, the two host commands that write it, and the host that enables a  *)
(* feature: upload the package, query the flags, upload the signature the  *)
(* package holds for those flags.  Power may fail between any two words.   *)
(*                                                                         *)
(* The block is 353 bytes and unaligned.  In the order of its words it     *)
(* holds: the flags with the head of the first feature's data, the rest of *)
(* that data, the head of the second's, and so on; behind the data the     *)
(* signature over the set, whose last byte is alone in the 89th word.      *)
(* EEPROMRead and EEPROMProgram divide a length by four, so sizeof(c)      *)
(* covers 88 words, without that last byte, and sizeof(c) + 10 covers 90.  *)
(* The signature of a single feature is read by nobody and left out.       *)
(***************************************************************************)
EXTENDS Integers

CONSTANTS
    NumFeatures,  \* the code has 3
    MaxRuns,      \* bounds: enable runs of the host,
    MaxCuts       \*   power cuts

ASSUME NumbersAssumption ==
    NumFeatures \in Nat \ {0} /\ MaxRuns \in Nat /\ MaxCuts \in Nat

FeatureIds == 1 .. NumFeatures
Halves == {1, 2}

(* Where things are, in words of the model.                                *)
DataWord(f, h) == 2 * f - 2 + h
SigWord(h) == 2 * NumFeatures + h
BlockWords == SigWord(1)    \* sizeof(c) / 4
PaddedWords == SigWord(2)   \* (sizeof(c) + 10) / 4

(* A part of the data is "erased" or "factory"; a half of the signature is *)
(* named by the set it was made for, {} if it is no signature's.  An       *)
(* erased flag byte counts as no flags.                                    *)
Block == [flags: SUBSET FeatureIds,
          data: [FeatureIds -> [Halves -> {"erased", "factory"}]],
          sig: [Halves -> SUBSET FeatureIds]]
ErasedBlock == [flags |-> {},
                data |-> [f \in FeatureIds |-> [h \in Halves |-> "erased"]],
                sig |-> [h \in Halves |-> {}]]

VARIABLES
    eeprom,   \* the block in the EEPROM
    c,        \* the command's copy of it on the stack
    job,      \* what the fob does: "off", "poll", "feature", "sig"
    arg,      \* the feature, or the set of the signature, being written
    k,        \* the word eeprom_write is at
    host,     \* the host: "idle", "added", "queried", "done"
    wanted,   \* the feature of the host's run
    answer,   \* the flags the query returned
    runs,     \* enable runs begun
    cuts,     \* history: power cuts
    broken,   \* history: features whose last upload was cut
    open,     \* history: a run has begun and none has ended since
    before    \* history: the block when the fob's job began

vars == <<eeprom, c, job, arg, k, host, wanted, answer, runs, cuts, broken, open, before>>
hostVars == <<host, wanted, answer, runs>>

Init ==
    /\ eeprom = ErasedBlock /\ c = ErasedBlock
    /\ job = "off" /\ arg = {} /\ k = 1
    /\ host = "idle" /\ wanted = 1 /\ answer = {} /\ runs = 0
    /\ cuts = 0 /\ broken = {} /\ open = FALSE /\ before = ErasedBlock

-----------------------------------------------------------------------------
(* What the car makes of a block: handle_solution.                         *)
Whole(b, f) == \A h \in Halves : b.data[f][h] = "factory"
Untouched(b, f) == \A h \in Halves : b.data[f][h] = "erased"

Accepts(b) ==
    \/ b.flags = {}
    \/ /\ \A f \in b.flags : b.data[f][1] = "factory"   \* car_id
       /\ \A f \in b.flags : Whole(b, f)
       /\ \A f \in FeatureIds \ b.flags : Untouched(b, f)
       /\ \A h \in Halves : b.sig[h] = b.flags

(* eeprom_read of the first n words into a CommandUnlock on the stack; the *)
(* part of it that is not read has any value.                              *)
ReadBlock(n) ==
    [eeprom EXCEPT !.sig = [h \in Halves |-> IF SigWord(h) <= n THEN eeprom.sig[h] ELSE {}]]

(* eeprom_write has reached word w of b.                                   *)
WithWord(b, old, w) ==
    [flags |-> IF w = 1 THEN b.flags ELSE old.flags,
     data |-> [f \in FeatureIds |->
                 [h \in Halves |-> IF w = DataWord(f, h) THEN b.data[f][h] ELSE old.data[f][h]]],
     sig |-> [h \in Halves |-> IF w = SigWord(h) THEN b.sig[h] ELSE old.sig[h]]]

-----------------------------------------------------------------------------
(* Slip: feature_flags is assigned where it should be or-ed.               *)
WithFeatureOnly(b, f) ==
    [b EXCEPT !.flags = {f}, !.data[f] = [h \in Halves |-> "factory"]]

WithFeature(b, f) ==
    [b EXCEPT !.flags = @ \cup {f}, !.data[f] = [h \in Halves |-> "factory"]]

(* The host starts a run and sends the package; handle_upload_feature      *)
(* takes it, for it is the factory's and for this car.                     *)
UploadFeature(f) ==
    /\ host \in {"idle", "done"} /\ job = "poll" /\ runs < MaxRuns
    /\ c' = WithFeature(ReadBlock(BlockWords), f)
    /\ job' = "feature" /\ arg' = {f} /\ k' = 1
    /\ host' = "added" /\ wanted' = f /\ runs' = runs + 1
    /\ open' = TRUE /\ before' = eeprom
    /\ UNCHANGED <<eeprom, answer, cuts, broken>>

(* The package is for another car or not the factory's: it returns early.  *)
RefuseFeature ==
    /\ host \in {"idle", "done"} /\ job = "poll" /\ runs < MaxRuns
    /\ host' = "idle" /\ runs' = runs + 1
    /\ UNCHANGED <<eeprom, c, job, arg, k, wanted, answer, cuts, broken, open, before>>

(* handle_query_features, between two other commands.                      *)
QueryFeatures ==
    /\ host = "added" /\ job = "poll"
    /\ host' = "queried" /\ answer' = ReadBlock(BlockWords).flags
    /\ UNCHANGED <<eeprom, c, job, arg, k, wanted, runs, cuts, broken, open, before>>

(* handle_upload_sig with the signature for the queried flags.             *)
UploadSig ==
    /\ host = "queried" /\ job = "poll"
    /\ c' = [ReadBlock(BlockWords) EXCEPT !.sig = [h \in Halves |-> answer]]
    /\ job' = "sig" /\ arg' = answer /\ k' = 1 /\ before' = eeprom
    /\ UNCHANGED <<eeprom, hostVars, cuts, broken, open>>

(* The length each command gives eeprom_write.                             *)
SameLength == BlockWords   \* slip: both write sizeof(c)
PaddedLength == PaddedWords   \* slip: both write ten bytes more
JobWords == IF job = "feature" THEN BlockWords ELSE PaddedWords

StoreWord ==
    /\ job \in {"feature", "sig"}
    /\ eeprom' = WithWord(c, eeprom, k)
    /\ IF k < JobWords
       THEN k' = k + 1 /\ UNCHANGED <<job, host, broken, open>>
       ELSE /\ job' = "poll" /\ UNCHANGED k
            /\ broken' = IF job = "feature" THEN broken \ arg ELSE broken
            /\ IF job = "sig" /\ host = "queried"
               THEN host' = "done" /\ open' = FALSE
               ELSE UNCHANGED <<host, open>>
    /\ UNCHANGED <<c, arg, wanted, answer, runs, cuts, before>>

(* The host gives up: a timeout of its socket, or its user.                *)
Abandon ==
    /\ host \in {"added", "queried"}
    /\ host' = "idle"
    /\ UNCHANGED <<eeprom, c, job, arg, k, wanted, answer, runs, cuts, broken, open, before>>

PowerOff ==
    /\ job # "off" /\ cuts < MaxCuts
    /\ job' = "off" /\ cuts' = cuts + 1
    /\ broken' = IF job = "feature" THEN broken \cup arg ELSE broken
    /\ host' = IF host = "done" THEN "done" ELSE "idle"
    /\ open' = (open \/ job = "sig")
    /\ UNCHANGED <<eeprom, c, arg, k, wanted, answer, runs, before>>

PowerOn ==
    /\ job = "off"
    /\ job' = "poll"
    /\ UNCHANGED <<eeprom, c, arg, k, hostVars, cuts, broken, open, before>>

Next ==
    \/ \E f \in FeatureIds : UploadFeature(f)
    \/ RefuseFeature \/ QueryFeatures \/ UploadSig
    \/ StoreWord
    \/ Abandon \/ PowerOff \/ PowerOn

Spec == Init /\ [][Next]_vars

-----------------------------------------------------------------------------
(* Every variable has its type, and eeprom_write stays in the block.       *)
TypeOK ==
    /\ eeprom \in Block /\ c \in Block /\ before \in Block
    /\ job \in {"off", "poll", "feature", "sig"}
    /\ arg \in SUBSET FeatureIds
    /\ k \in 1 .. PaddedWords /\ (job = "feature" => k <= BlockWords)
    /\ host \in {"idle", "added", "queried", "done"}
    /\ wanted \in FeatureIds /\ answer \in SUBSET FeatureIds
    /\ runs \in Nat /\ cuts \in Nat
    /\ broken \in SUBSET FeatureIds /\ open \in BOOLEAN

Busy == job \in {"feature", "sig"}

(* Between two runs of the host the car accepts the fob's block, unless a  *)
(* cut upload has not been repeated: the owner of a fob is never locked    *)
(* out by a run that was completed, after whatever was abandoned or cut    *)
(* before it, although the two commands cover lengths that differ and are  *)
(* not the block's.                                                        *)
CompletedRunsUnlock == ~open /\ broken = {} /\ ~Busy => Accepts(eeprom)

(* A run that is done has enabled its feature for the car.                 *)
DoneIsEnabled ==
    host = "done" /\ broken = {} /\ ~Busy => wanted \in eeprom.flags /\ Accepts(eeprom)

(* Both commands write back the whole block; still no word of it, cut      *)
(* where it may be, takes away a flag or data another run had stored.      *)
StoredIsKept ==
    [][/\ eeprom.flags \subseteq eeprom'.flags
       /\ \A f \in FeatureIds, h \in Halves :
             eeprom.data[f][h] = "factory" => eeprom'.data[f][h] = "factory"]_vars

(* Word by word the two commands do what FeatureStore says they do at      *)
(* once: Conversation may take them as single steps.                       *)
Shown == IF Busy THEN before ELSE eeprom
Store == INSTANCE FeatureStore WITH
    Features <- FeatureIds,
    flags <- Shown.flags,
    whole <- {f \in FeatureIds : Whole(Shown, f)},
    torn <- {f \in FeatureIds : ~Whole(Shown, f) /\ ~Untouched(Shown, f)},
    signed <- IF Shown.sig[1] = Shown.sig[2] THEN Shown.sig[1] ELSE {}
ImplementsStore == Store!Spec
=============================================================================
