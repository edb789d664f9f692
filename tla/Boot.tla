-------------------------------- MODULE Boot --------------------------------
(***************************************************************************)
(* Booting a device (main and rand_init, first_boot, secrets_init of both  *)
(* firmwares), with its EEPROM written word by word and the power cut      *)
(* between any two words.  The two differ in two places, which are         *)
(* constants: the fob as committed ends rand_init in an endless loop, and  *)
(* only the car resets itself when its EEPROM does not come up.            *)
(*                                                                         *)
(* The random generator is deterministic: what it puts out depends on the  *)
(* factory entropy, on the seed in the EEPROM and on the memory hashed at  *)
(* RAND_UNINIT.  States of the generator are numbered in the order they    *)
(* first occur, from 1; the number of a state also stands for every word   *)
(* it generates, and 0 for the erased seed.                                *)
(***************************************************************************)
EXTENDS Integers, Sequences

CONSTANTS
    SeedWords,    \* SEED_SIZE / 4; the code has 8
    SecretWords,  \* sizeof(Secrets) / 4; the code has 10
    Rams,         \* what the 2048 bytes at RAND_UNINIT may be
    SpinsInRandInit,  \* TRUE: the fob as committed; FALSE: the car, or the
                      \* fob without the while (true) that ends rand_init
    ResetsOnError,    \* TRUE: the car; FALSE: the fob, whose SysCtlReset is
                      \* commented out
    MaxCuts       \* bound: power cuts and resets

ASSUME SizesAssumption ==
    /\ SeedWords \in Nat \ {0} /\ SecretWords \in Nat \ {0}
    /\ SpinsInRandInit \in BOOLEAN /\ ResetsOnError \in BOOLEAN
    /\ MaxCuts \in Nat

VARIABLES
    pc,        \* "off", "init", "seed", "spin", "check", "flag", "first",
               \* "load", "loop"
    k,         \* the word eeprom_write is at
    seed,      \* EEPROM_RAND_ADDR
    flag,      \* EEPROM_FIRST_BOOT_FLAG holds 'F'
    secrets,   \* EEPROM_SECRETS_ADDR
    dev,       \* dev_secrets
    key,       \* the secrets ctx_hmac_key was made from
    id,        \* the state of ctx_rand
    known,     \* history: the states of the generator, by number
    streams,   \* history: the states with which the loop was reached
    cuts,      \* history: power cuts and resets
    cutFirst   \* history: a power cut fell between the flag and the secrets

vars == <<pc, k, seed, flag, secrets, dev, key, id, known, streams, cuts, cutFirst>>
eeprom == <<seed, flag, secrets>>
generator == <<id, known>>
history == <<streams, cuts, cutFirst>>

Places == 1 .. SecretWords
Zeroes == [p \in Places |-> "zero"]
Erased == [p \in Places |-> "erased"]
Factory == [p \in Places |-> "factory"]   \* car_secret, PAIR_PIN, CAR_ID and the type

(* get_dev_type: the type is in the last word of Secrets.                  *)
DevType(s) == s[SecretWords]

Init ==
    /\ pc = "off" /\ k = 1
    /\ seed = [p \in 1 .. SeedWords |-> 0] /\ flag = FALSE /\ secrets = Erased
    /\ dev = Zeroes /\ key = Zeroes
    /\ id = 0 /\ known = <<>>
    /\ streams = <<>> /\ cuts = 0 /\ cutFirst = FALSE

-----------------------------------------------------------------------------
(* main calls rand_init, and that eeprom_init.                             *)
PowerOn ==
    /\ pc = "off"
    /\ pc' = "init" /\ dev' = Zeroes
    /\ UNCHANGED <<k, eeprom, key, generator, history>>

(* EEPROMInit fails: the car starts over.  (The fob goes on as if nothing  *)
(* had happened, which is StartGenerator.)                                 *)
EepromFails ==
    /\ pc = "init" /\ ResetsOnError /\ cuts < MaxCuts
    /\ pc' = "off"
    /\ cuts' = cuts + 1
    /\ UNCHANGED <<k, eeprom, dev, key, generator, streams, cutFirst>>

(* rand_init reads the seed and the memory and generates the seed for next *)
(* time.                                                                   *)
StartGenerator ==
    /\ pc = "init"
    /\ pc' = "seed" /\ k' = 1
    /\ \E ram \in Rams :
         LET state == [seed |-> seed, ram |-> ram]
         IN  \/ /\ id' \in DOMAIN known /\ known[id'] = state
                /\ UNCHANGED known
             \/ /\ \A i \in DOMAIN known : known[i] # state
                /\ id' = Len(known) + 1 /\ known' = Append(known, state)
    /\ UNCHANGED <<eeprom, dev, key, history>>

(* Slip: the seed is replaced at the first boot only.                      *)
StoreSeedOnce ==
    /\ pc = "seed"
    /\ seed' = IF flag THEN seed ELSE [seed EXCEPT ![k] = id]
    /\ IF k < SeedWords THEN k' = k + 1 /\ UNCHANGED <<pc, key>>
                        ELSE /\ pc' = IF SpinsInRandInit THEN "spin" ELSE "check"
                             /\ key' = dev /\ UNCHANGED k
    /\ UNCHANGED <<flag, secrets, dev, generator, history>>

(* Slip: the fob's endless loop is in the car's rand_init as well.         *)
StoreSeedForEver ==
    /\ pc = "seed"
    /\ seed' = [seed EXCEPT ![k] = id]
    /\ IF k < SeedWords THEN k' = k + 1 /\ UNCHANGED <<pc, key>>
                        ELSE pc' = "spin" /\ key' = dev /\ UNCHANGED k
    /\ UNCHANGED <<flag, secrets, dev, generator, history>>

(* eeprom_write of the new seed, a word at a time; behind the last one     *)
(* rand_init makes the HMAC key of what dev_secrets then holds, and the    *)
(* fob as committed stays in it for ever.                                  *)
StoreSeed ==
    /\ pc = "seed"
    /\ seed' = [seed EXCEPT ![k] = id]
    /\ IF k < SeedWords THEN k' = k + 1 /\ UNCHANGED <<pc, key>>
                        ELSE /\ pc' = IF SpinsInRandInit THEN "spin" ELSE "check"
                             /\ key' = dev /\ UNCHANGED k
    /\ UNCHANGED <<flag, secrets, dev, generator, history>>

(* Slip: the test of first_boot_flag is the other way round.               *)
CheckFlagInverted ==
    /\ pc = "check"
    /\ pc' = IF flag THEN "flag" ELSE "load"
    /\ UNCHANGED <<k, eeprom, dev, key, generator, history>>

(* first_boot_flag is read.                                                *)
CheckFlag ==
    /\ pc = "check"
    /\ pc' = IF flag THEN "load" ELSE "flag"
    /\ UNCHANGED <<k, eeprom, dev, key, generator, history>>

(* The flag is written, then first_boot fills dev_secrets.                 *)
StoreFlag ==
    /\ pc = "flag"
    /\ flag' = TRUE
    /\ pc' = "first" /\ k' = 1 /\ dev' = Factory
    /\ UNCHANGED <<seed, secrets, key, generator, history>>

(* Slip: the words are written from the last to the first.                 *)
StoreSecretBackwards ==
    /\ pc = "first"
    /\ secrets' = [secrets EXCEPT ![SecretWords + 1 - k] = dev[SecretWords + 1 - k]]
    /\ IF k < SecretWords THEN k' = k + 1 /\ UNCHANGED pc
                          ELSE pc' = "load" /\ UNCHANGED k
    /\ UNCHANGED <<seed, flag, dev, key, generator, history>>

(* Slip: one word too many is written.                                     *)
StoreSecretOneMore ==
    /\ pc = "first"
    /\ secrets' = [secrets EXCEPT ![k] = dev[k]]
    /\ IF k <= SecretWords THEN k' = k + 1 /\ UNCHANGED pc
                           ELSE pc' = "load" /\ UNCHANGED k
    /\ UNCHANGED <<seed, flag, dev, key, generator, history>>

(* first_boot's eeprom_write of dev_secrets, a word at a time.             *)
StoreSecret ==
    /\ pc = "first"
    /\ secrets' = [secrets EXCEPT ![k] = dev[k]]
    /\ IF k < SecretWords THEN k' = k + 1 /\ UNCHANGED pc
                          ELSE pc' = "load" /\ UNCHANGED k
    /\ UNCHANGED <<seed, flag, dev, key, generator, history>>

(* secrets_init; main's loop follows, in which random bytes are drawn.     *)
LoadSecrets ==
    /\ pc = "load"
    /\ pc' = "loop" /\ dev' = secrets
    /\ streams' = Append(streams, id)
    /\ UNCHANGED <<k, eeprom, key, generator, cuts, cutFirst>>

PowerOff ==
    /\ pc # "off" /\ cuts < MaxCuts
    /\ pc' = "off"
    /\ cuts' = cuts + 1
    /\ cutFirst' = (cutFirst \/ pc = "first")
    /\ UNCHANGED <<k, eeprom, dev, key, generator, streams>>

-----------------------------------------------------------------------------
Booting ==
    StartGenerator \/ StoreSeed \/ CheckFlag \/ StoreFlag \/ StoreSecret \/ LoadSecrets

Next == PowerOn \/ Booting \/ EepromFails \/ PowerOff

Spec == Init /\ [][Next]_vars

(* The processor runs while it has power.                                  *)
FairSpec == Spec /\ WF_vars(Booting)

-----------------------------------------------------------------------------
(* Every variable has its type, and eeprom_write stays within its buffer.  *)
TypeOK ==
    /\ pc \in {"off", "init", "seed", "spin", "check", "flag", "first", "load", "loop"}
    /\ k \in Nat \ {0}
    /\ pc = "seed" => k <= SeedWords
    /\ pc = "first" => k <= SecretWords
    /\ seed \in [1 .. SeedWords -> Nat] /\ flag \in BOOLEAN
    /\ secrets \in [Places -> {"zero", "erased", "factory"}]
    /\ dev \in [Places -> {"zero", "erased", "factory"}]
    /\ key \in [Places -> {"zero", "erased", "factory"}]
    /\ known \in Seq([seed: [1 .. SeedWords -> Nat], ram: Rams])
    /\ id \in Nat /\ (pc \notin {"off", "init"} => id \in 1 .. Len(known))
    /\ streams \in Seq(Nat)
    /\ cuts \in Nat /\ cutFirst \in BOOLEAN

(* No two times a device comes up does it draw the same random bytes, at   *)
(* whatever word of the new seed the power was cut before and even if the  *)
(* memory at RAND_UNINIT is always the same: nonces and challenges of one  *)
(* life are not those of another.                                          *)
StreamsAreFresh ==
    \A a, b \in DOMAIN streams : streams[a] = streams[b] => a = b

(* A device that knows its type has all its secrets: a cut in first_boot   *)
(* leaves a device that takes no message, never one that takes messages    *)
(* with part of its secrets missing.                                       *)
TypedIsWhole == pc = "loop" /\ DevType(dev) = "factory" => dev = Factory

(* The secrets of a device are missing exactly when its very first boot    *)
(* was cut between the flag and the last word of the secrets: no other cut *)
(* loses them, and from that one the device never recovers.                *)
LostOnlyInFirstBoot == pc = "loop" => (dev = Factory <=> ~cutFirst)

(* The car, and the fob once the loop is out of its rand_init, gets into   *)
(* main's loop unless its power is cut or its EEPROM fails.  Of the fob as *)
(* committed this is false: CommittedFobNeverStarts.                       *)
BootEnds ==
    ~SpinsInRandInit => (pc \notin {"off", "loop"} ~> pc \in {"off", "loop"})

(* rand_init: "Also initializes HMAC context", from dev_secrets.car_secret *)
(* -- so a device with its secrets computes HMACs with them.               *)
KeyIsCarSecret == pc = "loop" /\ dev = Factory => key = Factory
=============================================================================
