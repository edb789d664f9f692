# A verification project for the PARED firmware

The repository holds the firmware of a remote keyless entry system for MITRE's
2023 eCTF: a car, a paired fob that unlocks it, an unpaired fob that can be
paired, and the host tools and factory scripts around them. This directory
keeps TLA+ models of that firmware, the TLC runs that check them on small
instances, and TLAPS proofs of the main results for every value of the
constants. File names below are relative to the repository's `src/`.

## 1. Inventory

| Component | Source | State | Operations | Modelled in |
|---|---|---|---|---|
| Unlock conversation, car | `car/src/authentication.c`, `car/inc/*.h` | `current_msg`, `is_msg_ready`, `next_packet_type`, the two nonces, `challenge`, `challenge_resp`, `verified_features` | `parse_inc_message`, `verify_message`, `handle_hello`, `gen_chall`, `handle_solution`, `gen_end`, `reset_state`, `send_next_message` | `Conversation` |
| Unlock conversation, paired fob | `fob/src/authentication.c`, `fob/inc/*.h` | the same variables without `verified_features` | `start_unlock_sequence`, `gen_hello`, `handle_chall`, `gen_solution`, `handle_end`, and the shared ones | `Conversation` |
| Device UART link | `car/src/uart.c`, `fob/src/uart.c` | two loop counters, two receive FIFOs | `uart_send_message`, `uart_read_message` | `UartLink`, `HeaderSearch` |
| Pairing of a second fob | `fob/src/authentication.c` | `dev_secrets` in RAM and EEPROM, the pairing flag | `send_pair_request`, `handle_pair_request`, `handle_pair_resp` | `Pairing` |
| Feature block | `fob/src/authentication.c` | a `CommandUnlock` in EEPROM | `handle_upload_feature`, `handle_upload_sig`, `handle_query_features` | `Features` |
| Boot and EEPROM | `*/src/firmware.c`, `*/src/authentication.c` | first-boot flag, secrets, seed | `rand_init`, `first_boot`, `secrets_init`, `eeprom_read`, `eeprom_write` | `Boot` |
| Host command channel | `fob/src/uart.c`, `host_tools/enable_tool`, `host_tools/pair_tool` | 128-byte command packets | `uart_read_host_data`, `handle_host_msg`, `dev_send` | `HostLink` |
| Main loops | `*/src/firmware.c` | switch state | boot, then poll the button, the device UART and the host UART for ever | the loop modes of the modules above |
| Factory, package tool, generators | `deployment/factory.py`, `host_tools/package_tool`, `*/gen_secret.py` | keys, signatures | straight-line scripts | no |
| Unlock monitor | `host_tools/unlock_tool` | none | reads what the car prints | no |

Not part of the running system: the vendored `lib/` trees (BearSSL, TivaWare),
the reference design in `car_example` and `fob_example`, `simulations`,
`debug`, `docker_env`, `documentation` and `assets`. They are 3.4 million of
the repository's lines; the firmware and tools themselves are about 3400.

**How the parts interact.** A car and a fob are two microcontrollers, each with
one thread, connected by a UART at 115200 baud. A press makes the fob send a
HELLO; from then on each device answers the message it reads:

    fob --HELLO--> car --CHALL--> fob --SOLVE--> car --END--> fob

All of it goes through one buffer per device, `current_msg`, and through two
blocking calls, `uart_send_message` and `uart_read_message`. A message is four
magic bytes and the 472 bytes of the struct; the sender waits for an
acknowledgement byte after every struct byte whose index is a multiple of 8.
Acknowledgements and messages share the line, so two devices that send at the
same time take each other's bytes for acknowledgements. The SOLVE carries the
fob's feature block, which the host writes in two separate commands served
between any two messages. Host commands come on the fob's second UART behind an
`M`, in chunks of eight bytes with a `*` for each. Two fobs pair over the
device UART too: the host gives one of them the PIN, that one asks, and the
paired one answers with all of its secrets or with zeroes. Both pairing messages
are uninitialised structs on the stack, sent whole. The fob also writes to its
host unasked: four million bytes at every start (`fob/src/firmware.c:18`), and
how a pairing ended. The EEPROM is the only state that survives a power cut;
the conversation variables start from zero.

**What is hard here.** Blocking calls that wait for each other; messages torn
by a power cut or a lost byte and completed with bytes of the next message;
nonces and challenges redrawn between the making of a message and its check; a
loop without timeout; EEPROM writes of many words that a power cut divides; a
feature block that changes between a press and the SOLVE; success reported
before it is stored; an acknowledgement byte that may be any byte; and, since
the comparison of the HMAC is the wrong way round, the question which
guarantees survive without it. `hazards` in `PROJECT.json` lists them line by
line with the properties that cover them.

**What makes each part correct.**

* Conversation: an unlock answers one press and one challenge; both sides agree
  on its nonces; only installed features are announced; after a disturbance the
  owner gets in with at most one press wasted; until power or noise disturbs
  them the two threads never block each other for good. Behind a lost byte they
  may: the body loop of `uart_read_message` has no timeout, the sender waits for
  the acknowledgement of that byte, and both hang until a power cycle. The
  button is not looked at meanwhile, so that such a press never counts in
  `TwoPressesUnlock`; what is promised there is safety, and recovery once both
  devices are back in their loops.
* Link: bytes arrive in order and complete; the FIFO never overruns; sender and
  reader stay in step; both calls return; noise never invents a message; a
  header is found where it stands.
* Feature block: a completed run of the host leaves a block the car takes;
  nothing stored is lost.
* Boot: no two lives of a device draw the same random bytes; a device with a
  type has all its secrets; a boot ends, which the fob's as committed does not.
* Pairing: a fob becomes paired only for the right PIN, and stays so; and
  completely, unless a message was damaged, since nothing checks a pairing
  message; nothing of the secrets is known before the PIN but what the unset
  bytes of a response give away.
* Host channel: commands arrive as sent, none twice, and the fob comes back to
  its loop unless its pair request is never acknowledged.

## 2. Modules

| Module | What it is |
|---|---|
| `Conversation` | car and fob, at the grain of whole messages |
| `UnlockService` | the abstract specification the conversation implements |
| `ConversationProofs` | type correctness, inductive invariant, safety theorems, refinement |
| `ConversationLiveness` | what undisturbed messages do, two presses open the car, devices come to rest |
| `UartLink` | one direction of the link, byte by byte |
| `UartLinkProofs` | the clean line: exact delivery; the noisy one: no overrun, nothing invented; both: the loops end and the calls return |
| `HeaderSearch`, `MCHeaderSearch` | the header matcher on any stream of bytes |
| `HeaderSearchProofs` | the matcher for any magic and any stream |
| `Boot`, `BootProofs` | from reset to the main loop, EEPROM by words; random streams, secrets, the end of a boot |
| `Features` | the feature block by words, the host's commands and runs |
| `FeatureStore` | the same commands as steps: the abstract specification |
| `FeaturesProofs` | safety and refinement for any number of features |
| `Pairing` | two fobs, messages as in `Conversation`, EEPROM by words |
| `PairingService` | the abstract specification of pairing |
| `PairingProofs` | safety, refinement and the end of a pairing, for secrets of any length |
| `HostLink`, `HostLinkProofs` | host, host UART and fob, byte by byte; commands whole, in order, and served |

**How they compose.** The modules divide the system by grain and each hands the
next what it assumes. `UartLink` shows that a message sent on a clean line
arrives whole, and what can be left of one on a bad line; `Conversation` and
`Pairing` take a message as one step from there. `Boot` has the steps of a
reset; `Conversation`, `Features` and `Pairing` have one `PowerOn`. `Features`
has the two uploads word by word and implements `FeatureStore`, whose
`Install`, `Sign`, `TearFeature` and `TearSignature` are the actions
`UploadFeature`, `UploadSig`, `TearFeature` and `TearSignature` of
`Conversation`. `HostLink` shows that a command arrives as one; `Features` and
`Pairing` take it as one step.

Operators introduced as "slip" are variants of a definition with a plausible
mistake in it, used to see each property fail. Variables marked "history" are
read by no guard of the code they record.

### Conversation

`mode[d]` is where the thread of device d is; `msg[d]` is its `current_msg`;
`conv[d]` holds `next_packet_type`, the two nonces and the two challenges;
`block` is the fob's `CommandUnlock`. Every action is one uninterrupted piece of
a thread or one event outside:

| Action | Code |
|---|---|
| `Press` | `start_unlock_sequence`: `reset_state`, `gen_hello`, `send_next_message` |
| `StartRead`, `FinishSend` | the first and last byte of a message that both ends handle together |
| `Reject` | `verify_message` false, or the `default` of the switch: `reset_state` |
| `CarHello`, `FobChall`, `CarSolve` | the handler returns true and the `gen_` function runs |
| `HandlerRefuses` | the handler returns false; nothing changes, nothing is sent |
| `FobPair` | the 'P' branch, for a message that noise gave that magic |
| `FobEnd`, `HostAcks` | `handle_end` |
| `Collide` | two `uart_send_message` calls against each other |
| `FillTorn`, `StarveTorn` | a reader in the body loop of an older message meets a new one |
| `PowerOff`, `PowerOn`, `Garble`, `DropByte` | power and noise |
| `UploadFeature`, `UploadSig` | the two host commands |
| `TearFeature`, `TearSignature` | the same, with the power cut in their `eeprom_write` |

Abstractions. A random value is a number not drawn before, so two draws never
coincide; 64-bit nonces and 256-bit challenges from the generator are taken to
be distinct. A digest is the tuple of what is hashed. `payload_size` is "zero",
"exact" for the packet of that magic, or "other". The signature in a feature
block is the set it was made for; only the factory makes signatures. A feature
flag byte of 0 and one of 0xff (erased) are both the empty set, which is how
`handle_solution` treats them.
`mac` says how a message's HMAC field relates to its bytes; `VerifyMessage`
tests what the code tests, which is not that relation. `is_msg_ready` is true
only between a `gen_` function and `send_next_message` in the same step, and
`verified_features` only between `handle_solution` and `gen_end`, so neither
needs a variable. The car's second call of `verify_message` repeats the first.
Noise may change any field, the magic, the target and the size into any other
value as well. So the fob may take a message for a pair request (`FobPair`); its
answer is addressed to a fob that is not on this line and is refused, whatever
its nonces, by the car's check of the target. And `reset_state` leaves the fob
expecting a HELLO, for which its switch has only the `default`: `Reject` has
both of its ways.

`SpinsInRandInit` is TRUE for the fob as committed, whose `rand_init` ends in
`while(true) {}` (`fob/src/authentication.c:624`): nothing after boot can happen
there. The theorems hold for both values. The runs set it FALSE and so model
the firmware with that loop taken out; everything else is as committed.

### UartLink and HeaderSearch

`UartLink` has the sender's loop (`sPc`, `sI`), the reader's loop (`rPc`,
`rI`), the bytes on the line, the reader's FIFO and the waiting
acknowledgements. A byte is its position in its message, so a byte in a wrong
place is recognised whatever its value; a struct byte may happen to equal a
magic byte. `HeaderTimeout` happens only when no byte is on its way: 100000
polls take much longer than the 87 microseconds of a byte. One direction is
enough for exact delivery because a device never reads while it sends; both
directions at once are `Collide` in `Conversation`. The car takes a struct byte
with `UARTCharGetNonBlocking` and the fob with `UARTCharGet`, both after
`UARTCharsAvail`: there is no difference.

`HeaderSearch` is the loop `while(j < 4)` on real byte values: whatever arrives,
between whichever calls and timeouts. It keeps the bytes a call has taken, and
its properties compare `j` and the outcome with what stands in them.

### Boot

`pc` names the places in `main`, `rand_init`, `first_boot` and `secrets_init`
between which power can be cut with a different effect; `StoreSeed` and
`StoreSecret` are `eeprom_write`, one word per step; `seed`, `flag`, `secrets`
are the EEPROM, `dev` is `dev_secrets`, `key` the secrets `ctx_hmac_key` was
made of. The generator is deterministic: its state is the stored seed and the
memory hashed at `RAND_UNINIT`, and equal states get equal numbers (`known`).
`RAND_UNINIT` is an address in flash, so the memory may well be the same at
every boot (`Rams` may have one element): freshness has to come from the seed.

Car and fob differ in two constants. `SpinsInRandInit` is the endless loop at
the end of the fob's `rand_init` (`pc` = "spin"); `ResetsOnError` is the car's
`SysCtlReset` when `EEPROMInit` fails (`EepromFails`), which the fob has
commented out: it goes on, as if nothing had happened.

### Features

One word per step for `eeprom_write`, with the lengths the two commands really
pass: a `CommandUnlock` has 353 bytes, `eeprom_read` and `eeprom_write` divide
by four, so `sizeof(c)` covers 88 words and leaves out the last byte of the
signature, and `sizeof(c) + 10` covers 90. The model has one word for the flags
and the head of the first data, one per further boundary between the fields,
and two for the signature, because these are all the ways in which a cut can
divide the fields; `BlockWords` and `PaddedWords` are the two lengths. The host
runs `UploadFeature`, `QueryFeatures`, `UploadSig` and may stop in between
(`Abandon`); a run for another car's package is refused (`RefuseFeature`).
`Accepts` is the feature part of the car's `handle_solution`.

### Pairing

Two fobs with the same firmware; `mode` and `msg` are used as in
`Conversation`, plus "slow" for the delays of `handle_pair_request` and "store"
for the `eeprom_write` of `handle_pair_resp`. `Command` is `send_pair_request`,
`HandleRequest` and `Respond` are `handle_pair_request` before and behind its
delays, `TakeResponse`, `RefuseResponse` and `StoreWord` are
`handle_pair_resp`. A secret is a row of words that name where they come from;
the last holds the device type. `FlagRead` and `StoreFlag` transfer
`1 \div 4` words: nothing, so the flag that is compared is what the stack held.

`Response` sets what the code sets. The bytes of the struct that it does not set
are whatever earlier calls left on the stack, which have had the secrets
there: `rest` says whether words of them are among these bytes, and either may
be (`Respond`). `leaked` remembers that a response had some.

`Completions` are the messages that result when a torn one is filled up with
bytes of the next; `Garblings` those with one field, or one word of the secrets,
changed by noise. Either may hold junk, junk that happens to be `TO_P_FOB` where
the type is, or the right PIN (which then counts as `given`); and a completion
may have words of the next message's `rest` in the place of the secrets.
`damaged` remembers that a message was cut off in the middle or hit by noise.

### HostLink

The host's place in `dev_send` (`hPc`, `sent`), the bytes on the line, the
fob's FIFO, the bytes it has written back (`back`: any byte counts for
`dev_send`), and the fob in its loop, in `uart_read_host_data`, in the handler,
in the handler's EEPROM write and in `send_pair_request`, which blocks in
`uart_send_message` until the paired fob has acknowledged (`PairSent`). A byte
is known by its command and its index; `Looks` are the indices at which a
command happens to hold an `M`. `Answer` is the host the protocol asks for, one
that reads whatever the fob has to say to a command. What departs from it is
counted in `breaches`: a host that stops in the middle (`Quit`), one that goes
on with some of the answer unread (`GoOn`, which is what `enable_tool` does: it
reads 11 bytes of the 15 that answer a query), `pair_tool`, which sends 128
bytes without a marker (`BeginUnmarked`), and bytes the fob writes unasked, at
its start (`Init`) or about a pairing (`ReportPairing`). Their number is in
`Unasked`; what matters is whether they are fewer or more than the chunks of a
command, not that there are four million.

## 3. Runs

| Run | Instance | Shows |
|---|---|---|
| `conversation` | 2 features, 3 presses, 2 uploads, 1 power cut, 1 noise event, fair | `TypeOK`, `OneUnlockPerPress`, `UnlockAgreement`, `AnnouncedAreInstalled`, `ImplementsService`, `TwoPressesUnlock`, `AlwaysIdleAgain` |
| `link` | header 4, 472-byte messages, ack every 8, FIFO of 16, 4 messages, 2 lost bytes, fair | `TypeOK`, `NoOverrun`, `NothingInvented`, `ExactDelivery`, `InStep`, `HeaderReadEnds`, `SendReturns`, `ReadReturns` |
| `header_search` | magic "0ops", five byte values, up to 7 bytes per call | `FoundIsHeader`, `CleanHeaderFound` |
| `boot_cuts` | 3 words of seed and of secrets, 2 memories, 4 power cuts or resets, a `rand_init` that returns, fair | `TypeOK`, `StreamsAreFresh`, `TypedIsWhole`, `LostOnlyInFirstBoot`, `BootEnds` |
| `features` | 3 features, 4 runs of the host, 2 power cuts | `TypeOK`, `CompletedRunsUnlock`, `DoneIsEnabled`, `StoredIsKept`, `ImplementsStore` |
| `pairing` | secrets of 4 words, 3 commands, 1 press, 2 power cuts, 1 noise event, fair | `TypeOK`, `PairedIsWhole`, `SuccessIsKept`, `SecretNeedsPin`, `PairingIsFinal`, `CommandPairs`, `ImplementsService` |
| `host` | 3 chunks of 4 bytes, FIFO of 7, 3 commands, 1 breach, 2 or 5 bytes unasked, fair | `TypeOK`, `NoOverrun`, `TakenAsSent`, `HandledOnce`, `CommandsEnd`, `FobReturns` |
| `conv_end` | 1 press | violated: END is forwarded to the host |
| `conv_hmac` | 1 press, 1 noise event | violated: an accepted message has a valid HMAC |
| `boot_key` | 1 power cut | violated: the HMAC key is made of `car_secret` |
| `pairing_delay` | 2 commands, 1 press, 1 power cut | violated: the long delay means an interrupted request |
| `pairing_mixed` | 2 commands, 1 press, 1 power cut | violated: what is taken is what the paired fob sent |

**Why the bounds are enough.**

* `conversation`: one conversation uses one press. A stale message can come
  from the previous conversation, be met by the current one and spoil the next:
  three presses. Two uploads are a feature and a signature, in either order, or
  two features without one; with two features a signature can cover one too
  few, one too many or another one. One power cut or noise event at any point
  already leaves a torn reader, a cut sender, or a car in SOLVE, and two
  undisturbed presses remain behind it for `TwoPressesUnlock`.
* `link`: the code's own sizes. Four messages put complete ones on both sides
  of a torn one and of the one that completes it; two losses hit the same
  message twice, or the one that repairs it.
* `header_search`: seven bytes are a complete header behind every proper
  beginning of one.
* `boot_cuts`: three words are a first, an inner and a last one; four cuts are
  one in the first boot and three in a row, as many as it takes to write the
  seed from the same state twice and come up in between. One memory repeats
  and another does not. The run resets when the EEPROM fails, as the car does;
  the fob's way, on from `init`, is among its behaviours too.
* `features`: three features as in the code; four runs repeat one of them; two
  cuts hit the upload and the signature of the same run, or a run and its
  repetition.
* `pairing`: four words are an inner one, the PIN, the type and one before them;
  three commands allow a wrong PIN and two right ones; one press is a HELLO that
  completes a torn response; two cuts hit both fobs, or a fob while it sends and
  while it stores; one noise event already makes a damaged response that is
  taken, a cut sender, and the reader out of step that takes leaked words. The
  two runs that end in a counterexample show it without noise.
* `host`: the FIFO of 7 is the smallest the assumption permits (two chunks less
  one byte), so the run is sharper than the hardware's 16 for chunks of 8.
  Three chunks are a first, an inner and a last. `Looks` has the type byte at
  index 0 and a byte in the middle of a chunk; answers are "abcd" with five
  bytes of text, or without. Two unasked bytes are fewer than the chunks of a
  command, five are more. One breach already shifts the fob against its commands
  for the two that follow, or lets a host run ahead.

Deadlock checking is off in every run but `header_search` because a quiet device
with its bounds used up rightly does nothing.

**Fairness.** Each device runs one thread that never sleeps, and a UART shifts
what is written to it. In `Conversation` and `Pairing` weakly fair are
`StartRead`, `FinishSend`, the handlers, and what follows when two sends meet;
in `Conversation` also what follows when a torn read meets a send, and `PowerOn`,
since `TwoPressesUnlock` speaks of devices that have power. In `UartLink` it is
`Send`, `Arrive` and `Read`, one per loop and one for the hardware, and in `Boot`
the booting processor. In `HostLink` the fob, the UART and a host that is in the
middle of `dev_send` or waiting for an answer go on. `PairSent` is not fair: the
acknowledgements of a pair request come from another fob, which may be off, and
`uart_send_message` has no timeout. `CommandsEnd` and `FobReturns` therefore have
a hypothesis, `PairRequestsGetOut`, that the fob is not in there for ever; without
it they are false of the code, too. Nothing is assumed of the user, the power
supply or the noise; no button is pressed, command sent or host stopped by
fairness, and `HostAcks` is not fair, since nothing makes a host send 59 bytes to
a fob. `Features` has no liveness property: its host may stop at any time.

## 4. What is proved

For every set of features, every length and every bound allowed by the named
assumptions of the modules. The safety properties are not inductive; each proof
module defines an inductive invariant that is, proves it action by action, and
derives the theorems. The run configurations keep to the properties themselves;
TLC has checked each of the inductive invariants on the instances of section 3
too, and does so again when it is given the proof module with the constants of
that run and the invariant's name.

* **`ConversationProofs`.** `IInv`: (1) `AllDrawn`: no value in use reaches
  the next one to be drawn, so a redrawn nonce differs from all others; (2)
  `OneSolvePerPress`: the fob in conversation carries the nonce of a press it
  has not answered, and answered pairs with one `c_nonce` are equal; (3)
  `SolveIsGenuine` and `OneUnlockPerChallenge`: whatever the fob has sent with
  both nonces of the car's outstanding challenge was made by the fob for it,
  whatever type noise has given it since, and a challenge is outstanding for one
  unlock; (4) `DataIsInstalled`.
  `PressOpensOnce` chains them: two unlocks with one `c_nonce` are two answered
  pairs with one `c_nonce`, hence one pair, hence one `s_nonce`, hence one
  unlock. `Refinement` shows that a press implements `UnlockService!Press`, an
  upload `Install`, an accepted SOLVE `Open`, and every other action a stutter.
  `CommittedFobIsDead`: with the loop of `rand_init` as committed the fob serves
  no press and no car is ever opened.
* **`UartLinkProofs`** (clean line). `LinkInv` says what is under way: the FIFO
  and the line hold exactly the bytes sent after those read, and every
  acknowledgement the sender has had is for a byte the reader has read. The
  latter bounds the bytes under way by what fits between two acknowledgements,
  plus the tail of one message and the header of the next, and so by the FIFO.
  `DeliveryIsExact` and `EndsStayInStep` follow.
  The header search neither starts again nor times out
  (`CleanHeadersAreFound`): what the reader takes is the magic byte it expects.
* **`UartLinkProofs`** (any bytes lost anywhere). Nothing exact can be said of
  the bytes under way; but the reader always waits for at least as many bytes
  as the sender will still put before it waits itself. That is inductive under
  losses and enough for `NeverOverruns` and `NothingIsInvented`.
* **`HeaderSearchProofs`.** For any magic: the last `j` bytes taken are the first
  `j` of the magic (`FindsOnlyHeaders`), and `j` counts the longest such suffix
  unless another beginning of the magic stands right before it
  (`FindsCleanHeaders`).
* **`BootProofs`.** `SeedInv`: the first word of the stored seed is at least
  every number ever used, and a state is reached from smaller numbers only; one
  word is enough, because `eeprom_write` begins with it and draws nothing before
  it is through. Hence `StreamsNeverRepeat`. `SecretsInv`: the words in the
  EEPROM are a prefix; the type is the last word. Hence `TypeComesWithSecrets`
  and `FirstBootIsTheOnlyRisk`. `CommittedFobNeverStarts`: with the loop of its
  `rand_init` a fob never stores its first-boot flag or its secrets.
* **`FeaturesProofs`.** `FeatureInv`: while a command writes, the EEPROM is the
  new block up to the word it is at and the old one behind it, for the length
  that command passes; between commands every flagged feature that is not
  `broken` has its data, and a run in progress has a signature for the flags it
  queried. Hence `StoredStays`, `CompletedUnlocks`, `DoneEnables`, and
  `FeaturesImplement`: the last word of a command takes the abstract step, a cut
  takes `TearFeature` or `TearSignature`, everything else stutters.
* **`PairingProofs`.** `PairingInv`: the type a fob goes by in each place of its
  thread (`TypesInv`); what the history has to remember of the messages on the
  line (`LineInv`); that words of the paired fob are among the forty bytes or in
  the other fob only behind a right PIN, or when a response leaked some and a
  message was damaged (`KnowInv`); that the paired fob itself never changes
  (`PfobInv`); that unless a message was damaged all secrets on the line are
  whole or zero and a store in progress is a prefix (`UndamagedInv`); and what
  the host was told (`ToldInv`). Hence the four safety theorems and
  `PairingImplements`. `Origin` names the few ways in which a step makes a
  message; the steps of the invariants go over these instead of the actions.
* **`HostLinkProofs`.** Two invariants. While no host departs from the
  protocol and nothing is written unasked, `HostInv`: FIFO and line hold exactly the bytes of the command from
  the one the fob will take next, and the host is a chunk ahead of the fob only
  when the `*` of the chunk before has been written; so at most two chunks less
  one byte are waiting (`EnoughFlowControl`, `CommandsIntact`). With any hosts,
  `OrderInv`: bytes are under way in the order in which they were sent, some
  missing, and nothing under way or yet to be sent is before the last byte
  taken; a packet takes a marker and as many bytes as a command has, so the
  next one begins behind that command (`HandledInOrder`).

**Progress.** Every liveness property of the runs is a theorem too, up to two
kinds of facts that are true of every behaviour and that no prover here can
derive, so that the theorems have them as hypotheses:

* `GuardsEnable`, one in each module: an action is ENABLED when its guard holds.
  The provers cannot be asked for ENABLED. It is about single states, and TLC
  finds it true in every reachable state of each instance.
* `PressesSettle`, `WorkSettles`, `LeftSettles`, `StoreSettles`: the natural
  number it names, if it never grows, is the same from some time on. That takes
  an induction over the values of the number, and the library's induction
  theorems cannot be instantiated. That the number is natural and never grows is
  not assumed: it is proved from the actions.

What is left is what is particular to the code, and it is proved in full: which
step each place leads to, that some thread can always go on, and what every
step uses up.

* **`ConversationLiveness`.** `TryInv` follows an undisturbed press through
  HELLO, CHALL and SOLVE, whatever the conversations before it left behind; its
  second attempt cannot fail, because the first has brought the car back to
  HELLO. Hence, without hypotheses, `SecondPressIsServed`: the devices are never
  back in their loops behind the second press with the car shut; and, with
  `GuardsEnable`, `TwoPressesOpen`. `CalmInv` says what is on the line while
  nothing has been damaged: `EndIsNeverTaken` and `CleanMessagesAreSigned`, and
  with the button left alone each conversation runs out
  (`IdleAgainOnceLeftAlone`); since presses are bounded in the model it is left
  alone some time (`DevicesComeToRest`). What a device has read is then of a type
  it has a case for; hence `DefaultNeedsDamage`: until a power cut or noise,
  neither the "bad packet" default of `parse_inc_message` nor the fob's branch
  for pair requests is run here. Behind noise both are.
* **`UartLinkProofs`.** `CallsGoOn`: on a clean line the sender, the UART or the
  reader has a step to take while a message is under way, because a sender
  whose byte has been read has its acknowledgement (`AckInv`).
  `LoopsEnd`: `Work` weighs the bytes to be sent, on the line and in the FIFO,
  and the place of the reader, and every step but the start of a message lowers
  it, also when bytes are lost. Together they are `CallsReturn`.
* **`HostLinkProofs`.** `CommandsGoOn` and `Left`, in the same way:
  `CommandsAreServed`, with `PairRequestsGetOut` in the two properties. A host whose command has been taken and that is still in
  `dev_send` has a `*` or the handler's text waiting for it (`LastByteWaits`).
* **`BootProofs`.** Every step of a boot lowers `AllWork`, which counts the words
  to be written and the power cuts to come: `BootReachesLoop`, of a device whose
  `rand_init` returns.
* **`PairingProofs`.** `AskedInv`: a pair request with the right PIN, as long as
  nothing disturbs the fobs, is at one of eight places, from `Asking` to
  `Storing`, each of which has one step, to the next: `RightPinPairs`.

What only TLC says: that the liveness properties hold without these
hypotheses, on the instances of section 3. Every property that a passing run
checks, invariant, action property, refinement or liveness, is stated by a
theorem.

## 5. Where code and comments disagree

Five runs end in a counterexample on purpose; each checks a sentence of the
repository.

* `conv_end`: END is never signed, so its `payload_size` is 0 and the fob
  rejects it; `handle_end` is dead code. `AlwaysIdleAgain` depends on this: a
  fob that accepted END would wait in `handle_end` for its host.
* `conv_hmac`: a wrong HMAC is accepted.
* `boot_key`: the HMAC key is made of `dev_secrets` before they are loaded.
* `pairing_delay`: the pairing flag is neither read nor written, so the long
  delay means nothing.
* `pairing_mixed`: a response completed with the bytes of another message is
  taken for secrets.

Read in the code and in need of no run:

* `fob/src/authentication.c:624`: `rand_init` never returns on the fob
  (`CommittedFobNeverStarts`, `CommittedFobIsDead`).
* `fob/src/authentication.c:784`: the fob that sends a pair request waits for the
  other one's acknowledgements without a timeout.
* `fob/src/authentication.c:827`: the rest of a response is what the stack held.
* `car/src/authentication.c:192`: a handler that fails after `verify_message`
  leaves the conversation as it is; `TwoPressesUnlock` is what this costs.
* `fob/src/uart.c:196` and `car/src/uart.c:172`: the body loop of
  `uart_read_message` has no timeout; a reader short of a byte waits for the
  next message, and a sender short of an acknowledgement sends none: behind a
  lost byte both hang until a power cycle.
* `fob/src/uart.c:179`: a header behind a stray '0' is missed;
  `CleanHeaderFound` says exactly when.
* `host_tools/pair_tool:37`: the request is sent without the 'M' that
  `uart_read_host_data` waits for.
* `host_tools/enable_tool`: line 63 raises before anything is sent. Behind it,
  the query of line 72 would carry a second 'M', which the fob takes for its type,
  and the answers are not read to their end; so what `NoOverrun` says of hosts
  that read their answers does not extend to the tool as committed.

## 6. Not modelled, and what is left

* Byte-level duplex: two `uart_send_message` calls against each other are
  steps of their own (`Collide`, `FillTorn`, `StarveTorn`) whose outcomes were
  read from the code, not derived from two `UartLink` ends. A '0' left in a
  FIFO after a collision, which can make the next header be missed as
  `HeaderSearch` shows, is among these outcomes only as a lost message. This is
  the next module to write.
* What the EEPROM holds after a failed `EEPROMInit`, which the fob ignores (the car
  resets itself: `EepromFails`): it is documented nowhere in the repository.
* More than one event of noise, in the runs; the theorems are for any number.
* A fob paired or pairing while a car talks to it: `Pairing` and `Conversation`
  have different devices at the other end of the same line.
* The rejected packages and replayed signatures of `Features` beyond their
  early return; cryptography, whose results enter as what they are about.
* LEDs, debounce (a press is one event), debug output, `uart_init`, the scripts
  that only compute and print, and the vendored libraries.
* The runs of `Boot` and `Conversation` leave out the endless loop of the fob's
  `rand_init`; of the fob with it only theorems speak.

## 7. Running

    tlc -config conversation.cfg Conversation
    tlc -config link.cfg UartLink
    tlc -config header_search.cfg MCHeaderSearch
    tlc -config boot_cuts.cfg Boot
    tlc -config features.cfg Features
    tlc -config pairing.cfg Pairing
    tlc -config host.cfg HostLink
    tlapm HostLinkProofs.tla

and the like for the other configurations and proof modules; `PROJECT.json`
lists them all, with the source lines of every definition. A proof module can
be given to TLC as well: with the constants of `link.cfg`,
`INVARIANTS LinkInv NoiseInv NobodyIsStuck GuardsEnable` and
`CHECK_DEADLOCK FALSE`, `tlc UartLinkProofs` checks what the proofs rest on.
