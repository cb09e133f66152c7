# A TLA+ model of gb32960-go-sdk

The library is a TCP server for GB/T 32960, the protocol in which electric
vehicles report to a platform. This directory holds TLA+ modules that model its
core, the configurations with which TLC checks them, and theorems that TLAPS
proves about them. `PROJECT.json` maps every definition to the lines it models
and lists runs, mutants, findings, hazards and theorems.

## The system

| Component | State | Operations | Hard part | What makes it correct |
|---|---|---|---|---|
| **Server** (`server.go`) | listener, context, connection table (`sync.Map`), `connCount`, WaitGroup, VIN registry, forwarders | `Start`, `Stop`, `idleCheckLoop`, `unregister`, lookups, `forward` | four kinds of goroutine change the table, the counter and the WaitGroup without a common lock; `Stop` may run at any moment | the limit is kept, no slot is lost or given back twice, `Stop` joins what runs and returns |
| **Connection** (`conn.go`) | `state`, `vin`, socket and context, `encryptKey`, `lastSeen` | `run`, `processPackets`, `handlePacket`, `Send`, `Close` | `Close` from several goroutines at once, against a login that is being handled; `Send` by several goroutines while `run` changes the key | one close, nothing left behind; both ends use the same key, one writer at a time |
| **VIN registry** (`vin_registry.go`) | VIN to list of connections, under a mutex | `add`, `remove`, `get`, `getAll` | several connections per VIN, several logins per connection | whoever is logged in is found, whoever is gone is not |
| **Frame decoder** (`decoder.go`) | unread bytes | `Feed`, `Decode`, `Reset`; `EncodeResponse` | TCP cuts the stream anywhere; resynchronisation after damage | what is sent is received, once and in order |
| **Messages** (`message.go`, `codec/`) | none | `DecodeRealtimeData`, `DecodeReissueData`, nine field decoders | two places compute the same nested lengths; truncated input | what is sent is received, nothing is made up |
| **Other bodies** (`decoder.go`) | none | login, logout, platform and parameter bodies, times | widths, counts | decoding inverts encoding |
| **Encryption** (`crypto.go`) | none | AES-128 with padding, key derivation | padding at a block boundary | decryption inverts encryption |
| **Forwarders** (`forward/`) | clients of Kafka and MQTT | `Forward`, `Close` | a goroutine per message, outside the WaitGroup; forwarders that hang | every message goes to every forwarder, all are closed, nobody waits for a broker |
| **Authenticators** (`auth/`) | a set of VINs | `Authenticate` | | |
| **Commands** (`cmd/`) | | an example server, a simulated vehicle, a load test | | |

`Start` accepts a socket, makes a `Connection`, stores it and starts its `run`
goroutine. `run` reads, feeds the decoder and hands every packet to
`handlePacket`, which decodes the body, calls the application's handler and
forwards the result. A login sets the connection's VIN and state and enters it
into the registry. A connection ends through `Close`, which may be called by its
own goroutine (deferred, or because the authenticator refused a login), by
`Stop`, by the idle checker and by the application; `Close` calls the server's
`unregister`.

## Modules

| Module | Models | Extended by |
|---|---|---|
| `VinRegistry` | `vin_registry.go`, as operators on a function from VINs to sequences | `Server` |
| `Server` | `server.go` and the life cycle of `conn.go` | `ServerTable`, `ServerProofs` |
| `ConnTable` | the abstract specification: what the server promises about connections | instantiated by `ServerTable` |
| `ServerTable` | the refinement mapping from `Server` to `ConnTable` | `MCServer`, `ServerTableProofs` |
| `Session` | one connection: `handlePacket`, `Send`, the session key | `MCSession`, `SessionProofs` |
| `Forwarding` | `forward`, `WithForwarder`, the end of `Stop`, the forwarders | `MCForwarding`, `ForwardingProofs` |
| `Decoder` | frames: `decoder.go`, `buffer.go` | `MCDecoder`, `DecoderProofs` |
| `Wire` | numbers, times and padding: `decoder.go`, `crypto.go` | `Bodies` |
| `Bodies` | login, logout, platform and parameter bodies: `decoder.go`, `conn.go` | `Message` |
| `Message` | decryption and parsing of a packet's data: `conn.go`, `message.go`, `codec/` | `MCMessage`, `MessageProofs` (extended by `ItemProofs`) |
| `SequenceLemmas` | least elements, parts of sequences, recursion over positions, flattening | `ServerProofs`, `DecoderProofs`, `MessageProofs` |
| `ServerProofs`, `ServerTableProofs`, `SessionProofs`, `ForwardingProofs`, `DecoderProofs`, `MessageProofs`, `ItemProofs` | the theorems | |

### Server

Every goroutine has a program counter: `accPc` (`Start`), `runPc[c]` (the `run`
of connection `c`), `stopPc`, `idlePc`, and `closePc[t]` for the `Close` that
goroutine `t` is executing, with `target[t]` the connection it closes. A step is
what the code does between two accesses to shared state: `Close` is load (at the
call), store, shut, delete, decrement, remove; `Start` listens, starts the idle
checker and accepts in different steps, and admitting a connection is check,
store, count, spawn. `cancel` and `conn.Close` are one step, `CloseShut`,
because only the connection's own goroutine sees either.

Two things come from the Go library and are modelled from its documentation:
`sync.Map.Range` visits every key that is there all the time, skips keys deleted
before it reaches them and may or may not visit keys stored meanwhile
(`RangeSkip`, `StoreConn`); a `WaitGroup.Wait` that is woken and finds the
counter above zero again panics (`StopWoken`).

Packets are reduced to accepted and refused logins: no other packet changes
this state. Time is left out, so the idle checker may find a connection idle at
any visit. The racing read and write of `c.vin` gives the old or the new VIN; a
torn string is not modelled. `relogged`, `raced` and `early` are history
variables for the properties; no action reads them.

`ConnTable` says what of this a user of the server can rely on, without
goroutines or counters: a connection is offered, refused or admitted, listed
from its admission until it is removed for good, removed only after its socket
is closed, served once, and `Stop` returns only when the connections it found
being served are over. `ServerTable` maps the program counters to these phases.
The counter has no part in it, because `ConnCount` does not always agree with
the table (see `server_count`).

### Session

One connection, from its acceptance to its end, with its own goroutine `Run`,
other goroutines that call `Send` and `Close`, and a vehicle. A packet is its
command and the key it is encrypted under, a frame is its command, key and
token. Commands are grouped by what `handlePacket` does with them: a login, a
logout, one that is only handed to a handler, one that is answered, a heartbeat
(answered, without a body), and one that does not decode.

`Send` is lock, compare the key with nil, load it again and encrypt, write.
`encryptKey` is a slice that `run` stores and others load without a lock. While
`run` stores it (`runPc = "store"`) each of its three words is the old one or the
new one (`Seen`), in whatever order a build stores and loads them. Loading the
three words is one step: words loaded on both sides of a store mix in the same
way as those loaded at a moment of that store, and a word from before two stores
adds no outcome, since all keys have the same length. The outcomes of
`EncryptAES128` are an action each: the length of no key is `ErrKeyTooShort`
(`SendTooShort`); the length of a key with the pointer or the capacity of none
panics and ends the process (`SendCrash`, `Alive`); otherwise the body is
encrypted (`SendEncrypt`), perhaps under a key that is replaced meanwhile. Reads
that are stale for longer than a store lasts, which a weak memory would allow,
are left out.

A full network (`NetBuf` frames that the vehicle has not read) blocks the write
until the deadline, which may leave nothing of the frame behind
(`SendWriteFails`) or a part of it (`SendCut`). `Close` is one step here; its
steps are in `Server`.

The vehicle is external. It encrypts under the last token it received, waits for
the answer to a login or gives up on it, and drops its key when it logs out.
Behind a part of a frame it may take the next frames for the rest of it
(`VehicleMisses`) or find its way back at once.
Three history variables name the cases in which the two ends may disagree:
`lost` (the response with the token was not written whole, or swallowed behind a
part), `hasty` (the vehicle gave
up on an answer that was still to come), `garbled` (a body was decoded that the
vehicle did not send).

### Forwarding

Connections that `Start` admits at any time and that call `forward` for each
message, an application that applies `WithForwarder` to the running server, and
`Stop`. `found` is what was admitted before `Stop` was called, and closed by it.
`wg.Wait` returns at any moment when no admitted connection runs; one that is
admitted behind it goes on and forwards, also to forwarders that are closed.
`forwardMu` is a lock whose waiting writer keeps new readers out. A goroutine
inside `Forward` is a member of `tasks`; it publishes and returns whenever it
likes, or never. `called` and `spawned` record what each call found and started.

### Decoder

`buf` is the unread part of the buffer. The stream holds real bytes, since the
questions are about where a frame starts and ends and whether its checksum
fits. `Feed` takes any number of bytes up to the size of the read buffer. Each
exit of the loop in `Decode` is an action; `DecodePanic` is the index out of
range at `decoder.go:108`.

### Message, Bodies, Wire

A message is encoded from the values a vehicle (or the server) sends, encrypted
or not, and arrives whole or cut at any byte. `Decrypt` and `ReadBody` are what
`handlePacket` does with most commands; `Bodies` has the decoders and, in the
names of the `Send` methods, the encoders. Realtime and reissue messages are
parsed by the loop of `decodeRealtimeItem`, one step per field
(`DecodeRealtimeData` has the same loop and is the item at offset 0).
`findFieldEnd` and the nine decoders of `codec` are separate operators, as in
the code. The expected value of every field is written out in `MCMessage` next
to its bytes. `Held` is what `RealtimeMessage` has a place for, all fields but
the temperatures. The time of a reissue itself, in front of its items, is skipped.

AES in CBC mode is left out: under the right key it gives back the padded text,
also of a prefix of whole blocks, so an encrypted body is its padded text.
`TimeCodec` is the codec of the terminals, for which the server is configured;
`defaultDecoder` is the one that `handlePacket` uses. A parameter query and the
acknowledgement of one (`CmdParamQueryResp`) are read by the same decoder and are
one kind of body, `paramquery`. The answer the server itself writes,
`paramanswer`, has another format; its reader is the terminal and external, and
so is that of a login response.

## What TLC checks

Runs that pass. The bounds are small because the interesting cases need few
actors: two closers and a connection for a doubled `Close`, two connections for
competition at the limit, two logins for a second registration, three packets
for login, logout or second login and a body after it, two keys for a frame
under the wrong one, two connections for one that slips in behind `Stop` while
another is closed. `MaxLogins` and `MaxBatch` bound the login packets a peer
sends and one read delivers, `MaxPackets` and `MaxSends` the packets of a
session and the `Send`s of another goroutine, `NetBuf` is a property of the
network and 1 is enough to block a write, `MaxMsgs` bounds the messages of a
connection (two connections give two messages that overtake each other). A
connection is offered to the server once, so nothing else grows.

| Run | Instance | Distinct states | Shows |
|---|---|---|---|
| `server_registry` | 2 connections of 1 VIN, limit 2, 1 login each | 484 255 | `TypeOK`; `NothingLeftOpen`, also when a login stores its state over that of a `Close`; `FoundByVIN`: a connection in the table that has logged in is in the list of its VIN whatever others do; `StopJoins`: `wg.Wait` before the forwarders are closed really waits |
| `server_limit` | 2 connections, limit 1, 1 application, fair | 555 844 | `CountWithinLimit`, `NoSlotLost`, `NothingLeftOpen`; `ImplementsTable`: every behaviour is one of `ConnTable`; `StopReturns`: a late connection that ends, or that the `Range` still reaches, does not excuse a `Stop` that hangs |
| `server_live` | 1 connection, 2 logins, idle checker, fair | 178 349 | `RegistryClean`: a connection that ended is not found by VIN, except in the two cases the property names: it logged in twice, or another goroutine's `unregister` came between its login's store and the registry's `add`; `ClosedRunEnds`; `StopReturns`: unless a connection got in behind its `Range` and is never closed |
| `decoder` | 3 streams of two frames with noise, damage and an unfinished frame, all cuttings | 8 514 | `PacketsAreFrames`, `WaitsForBytes`, `DeliversInOrder`, `RoundsConsume`, `TypeOK` |
| `message` | 111 realtime messages, 68 reissues and bodies of eight kinds with strings and lists of several lengths, in clear and encrypted, cut at every byte | 75 058 | `AllButTemperatures`: of a whole message without an alarm, everything but the temperatures arrives, also behind a temperature; `NothingMadeUp`, `TypeOK`; `BodiesReceived`: the decoders undo the encoders; `WholeIsDecoded`: nothing that arrives whole is refused, also at a block boundary; `BodyNotMadeUp`: a body cut short loses its end and nothing else, also when a byte of the text is taken for the padding |
| `session` | 1 other sender, 2 tokens, 3 packets, 1 `Send`, fair | 556 214 | `KeyNeverAhead`: no frame under a key is in front of the login response that announces it; `NothingGarbled` and `KeysAgree`: server and vehicle use the same key across logins, repeated logins and logouts, except when the response was lost or the vehicle gave up too early; `OneWriter`; `CrashOnlyAtEdges`: a torn key crashes the process only under another goroutine's `Send` while a first key is stored or a logout clears the key; `SendReturns` otherwise, also when the vehicle does not read; `TypeOK` |
| `forwarding` | 2 connections, 2 forwarders and one added, 1 message each, fair | 252 453 | `EveryForwarderOnce`: every message is handed to every forwarder that was registered; `StartedBeforeClose`: by a connection admitted before `Stop`, before `Stop` closes it; `ForwardReturns`, `StopReturns`, `StopClosesForwarders`: a broker that hangs holds up nobody; `TypeOK` |

Connections and VINs are interchangeable, and the runs without fairness use
that symmetry. Deadlock is not checked: the server ends when `Stop` has
returned, a session with its connection, and the decoder and the parser with
their input.

Runs that are violated, each by what the code does against what the repository
says of it (`findings` in `PROJECT.json`):

| Run | Property | What happens |
|---|---|---|
| `server_count` | `CountReturnsToZero` | an application's `Close` and the deferred one both find the state not `Closed`; `connCount` ends at -1. The same happens without an application when a refused login is followed by an accepted one in the same read |
| `decoder_panic` | `NoPanic` | a read that ends before the checksum byte: index out of range, in a goroutine that nobody recovers |
| `decoder_cut` | `DeliversAll` | a read that ends after the first byte of a start marker: the frame is lost |
| `message_fields` | `NineFieldsReceived` | of a message with temperatures, an engine, an alarm and voltages only the engine arrives: `RealtimeMessage` has no place for temperatures, and the alarm's length is read from the message's time, so the alarm and what stands behind it is not decoded |
| `message_time` | `TimesReceived` | with `WithTimeCodec(TimeCodecBinary)` the binary time of a login is read as BCD, because `handlePacket` does not use the connection's decoder |

Other things the models show and no run claims otherwise:

- With the counter too low after a doubled `Close`, `Start` admits a connection
  beyond the limit: `CountWithinLimit` bounds the counter, not the connections.
- `Stop` called before `Start` has listened, or while `Start` admits a
  connection, can leave a connection that is served for ever; that is the
  exception in `StopReturns`. It can also panic in `Wait` (`StopWoken`). Such a
  connection forwards to forwarders that are closed.
- The compatible checksum of `WithBCCIncludeStart` equals the standard one, as
  the two equal bytes of the start marker cancel.
- A start marker inside a damaged frame, or one more `#` in front of a frame,
  makes the decoder wait for the bytes of a frame that is none. `Decoder`'s
  streams leave this out.
- In a truncated reissue the items after the cut are read from the middle of a
  field, and an item with an alarm shifts the items behind it.
- A `Send` by an application or by the idle checker while a vehicle logs in for
  the first time, or out, may crash the process (`SendCrash`). Nothing in the
  repository says that `Send` may be called from several goroutines.
- A login response that cannot be written whole (the deadline passed, the socket
  is closed) still makes its token the key, and the vehicle never learns of it:
  the exception `lost` in the properties of `Session`.
- A goroutine of `forward` may run after `Stop` has closed its forwarder, two of
  them may overtake each other, and a forwarder added after `Stop` is never
  closed. `StartedBeforeClose` is about the start of the goroutine.
- A string of more than 255 bytes is written behind a length that has wrapped.

Fairness. `FairSpec` of `Server` assumes that the Go scheduler runs every
goroutine that can run (weak fairness of every `run`, `Close`, `Stop` and of the
idle checker's loop) and that a `select` with two ready cases does not prefer
the ticker for ever (strong fairness of `IdleExit`). Nothing is assumed of the
peer: a `Read` returns only when the socket is closed. Nothing is assumed of
applications or of when `Stop` is called. Handlers and the authenticator are
taken to return: a handler that does not holds up its connection, and `Stop`.

`FairSpec` of `Session` assumes that a goroutine inside `Send` goes on (weak
fairness of `SendStep`), which includes that the write deadline passes, and that
`writeMu` is not withheld from a waiter for ever (strong fairness of `SendLock`:
a `sync.Mutex` is handed over to a goroutine that has waited a millisecond).
Nothing is assumed of the vehicle or of the handlers. `FairSpec` of `Forwarding`
assumes that `forward`, `WithForwarder` and `Stop` go on when they can, that a
forwarder's `Close` returns and that the connections `Stop` has found end
(`ClosedRunEnds` of `Server`). A connection admitted later may be served for
ever. Nothing is assumed of the goroutines inside `Forward`.

Every property of a passing run has a mutant in `PROJECT.json`: an operator
next to the definition it would replace that changes it as a slip in the code
would, under which TLC finds the property violated.

## What is proved

`ServerProofs` proves, for every set of connections, VINs and applications,
every `maxConns` and with or without the idle checker:

- `TypeCorrect`: `Spec => []TypeOK`
- `NothingIsLeftOpen`: `Spec => []NothingLeftOpen`
- `CountIsWithinLimit`: `Spec => []CountWithinLimit`
- `NoSlotIsLost`: `Spec => []NoSlotLost`
- `StopJoinsAll`: `Spec => []StopJoins`

`ServerTableProofs` proves `ServerImplementsTable`: `Spec => ImplementsTable`,
the refinement of `ConnTable`, under the same assumptions. Each action is mapped
to an action of `ConnTable` or to a stutter, from the invariant of
`ServerProofs` and one more, `ShutFirst`: a goroutine that is past the shutting
of a socket, in its `Close`, has closed it, also when several are inside `Close`
of one connection.

`SessionProofs` proves, for every set of senders and tokens and every bound:

- `TypeCorrect`: `Spec => []TypeOK`
- `OneWriterAtATime`: `Spec => []OneWriter`
- `KeyIsNeverAhead`: `Spec => []KeyNeverAhead`. The invariant needs where a key
  may be before it is in a frame (`KeysAnnounced`): whatever pointer `run` or a
  sender holds belongs to a token that was delivered, lost or is on its way, and
  so does the token `run` is about to store once the `Send` of its response is
  over; and that `run` is inside `Send` only while it responds or answers
  (`RunSends`). Logins and logouts need no lock for it.
- `CrashesOnlyAtEdges`: `Spec => []CrashOnlyAtEdges`. By `RunSends` the
  connection's own goroutine never loads the key while it is stored.

`ForwardingProofs` proves, for every set of connections and forwarders and every
bound:

- `TypeCorrect`: `Spec => []TypeOK`
- `EveryForwarderIsCalledOnce`: `Spec => []EveryForwarderOnce`, from the loop's
  invariant that what a call found is what it has started followed by what it
  has still to visit (`Calls`)
- `StartsBeforeClose`: `Spec => StartedBeforeClose`, an action property, from
  `Joined`: once `Stop` is past its wait, every connection it found has ended

Their assumptions are the `ASSUME`s of `Session` and `Forwarding`: goroutines
and special values have different names, bounds are natural numbers.

Assumptions of the theorems about `Server`: the set of connections is finite, `maxConns` is a natural number,
and the names of goroutines, connections and special values are different. They
are the `ASSUME`s of `VinRegistry` and `Server`.

None of the properties of `Server` but the type invariant is inductive. The
strengthening `IInv` (checked with TLC before it was proved) has these parts:

- `LifeInv`: who owes what to a connection. A connection Start is admitting has
  not run (`AdmitsNew`), a connection that was never stored is untouched
  (`FreshUntouched`), a connection's own `Close` is of itself (`ClosesItself`),
  and a connection that is `Closed` is shut and out of the table or some `Close`
  is still to do it (`ClosedIsOwed`). The last part is what survives the login
  that overwrites `Closed` with `LoggedIn`: the goroutine's deferred `Close`
  runs again, so when it has ended all is done (`EndsClosed`).
- `SlotInv`: the counter, plus the connection just stored and not yet counted,
  is at most the number of connections in the table or about to be discounted.
  A doubled `Close` only makes it smaller, which is why `NoSlotLost` is an
  inequality and `CountReturnsToZero` fails.
- `LimitInv`: between its check and its count only Start can raise the counter.
- `IdleWaits`, `WgInv`: the WaitGroup counts the goroutines that run. With it
  the `Done` that reaches zero finds none of them left, and `JoinInv` follows:
  once `Stop` has been woken, none of the goroutines it found is running. It
  stays so because an ended goroutine never runs again, although new ones may
  have been started behind the `Range`.

`ServerProofs` proves of the registry, under the same assumptions:

- `LoggedInIsFound`: `Spec => []FoundByVIN`
- `RegistryIsCleaned`: `Spec => []RegistryClean`

from `LifeInv` and `RegInv`: `unregister` reaches the registry only after the
table (`Gone`); a login has its VIN before its state and its registration
(`LoginHasVIN`); a connection in the table is in the list of its VIN unless its
goroutine is about to register it (`Listed`); one that logged in once has at
most one entry, under its VIN (`ListedOnce`); and a closed connection that is
listed, or about to be, still has a `Close` before the end of `unregister`
(`RemovalOwed`), with the exceptions that `RegistryClean` names. The lemmas on
`remove` say that it takes away one entry of its connection and leaves those of
the others.

`SessionProofs` also proves:

- `NothingIsGarbled`: `Spec => []NothingGarbled`
- `BothEndsAgree`: `Spec => []KeysAgree`

Their invariant `SyncInv` holds as long as no response was lost and the vehicle
was not hasty. It describes what is under way: a login is the last packet the
vehicle sent, since it waits (`LoginIsLast`); there is at most one response and
nothing else is on its way up meanwhile (`OneResponse`); the vehicle can read
that response, and once it has, its key is the one `run` has stored or is about
to store (`KeysMeet`, where a logout under way counts as read); and every packet
is encrypted under the key `run` will have when it reads it (`Readable`).

`DecoderProofs` proves, for every set of byte streams, every cutting of them
into reads and both checksums:

- `DecoderTypes`: `Spec => []TypeOK`
- `DecodesFrames`: `Spec => []PacketsAreFrames`
- `NilMeansIncomplete`: `Spec => []WaitsForBytes`
- `EveryRoundConsumes`: `Spec => []RoundsConsume`

The invariant is that the buffer is the end of what was fed, byte for byte
(`BufIsStream`), and that the frames delivered end before it (`EndsBehind`). The
only assumption is that streams are sequences of bytes.

- `AnswersArrive`: `(\A in \in Inputs : Framed(in)) => (Spec => []DeliversInOrder)`

What was encoded can be delivered only if it can be told from the rest of the
stream, and `Framed` says what that takes of `Decode`: the frames of the packets
sent lie in the stream one behind the other, and every start marker outside of
them begins something complete with a wrong checksum, and no byte 0x23 stands
directly in front of a frame. With such a byte the frame would be lost: it makes a
marker with the first byte of the frame, and `Decode` skips both after the wrong
checksum. Nothing is said of the bytes
inside the frames, which may hold start markers, nor of the lengths. The proof
adds to the invariant where the decoder stands (`InOrder`): behind the frames of
what it delivered and not behind the start of the next. `FoundWhere` says that the
marker it finds is then the one of the next frame or one that will be refuted,
and the encoder's lengths and checksum are shown to be those `Decode` reads.
`DeliversInOrder` excepts, and so does `Reached`, a start marker that a read cut
in two (the finding of `decoder_cut`). TLC evaluates `Framed` on the inputs of
`MCDecoder`.

`MessageProofs` proves, for every set of messages:

- `LoopsStayInside`: `Spec => []TypeOK`, whatever bytes the fields have and
  wherever the message was cut. A field ends behind its identifier
  (`FieldEndBehind`, with `BlocksEndBehind` for the loops over the counts of
  voltages and temperatures), an item is read only while one is left, and
  nothing has been read of a message that is still encrypted.
- `NothingWholeIsRefused`: `Spec => []WholeIsDecoded`
- `WholeBodiesReceived`: `TimeCodec = "BCD"` implies `Spec => []BodiesReceived`.
  With the binary codec it is false (`message_time`).
- `NoBodyIsMadeUp`: `TimeCodec = "BCD"` implies `Spec => []BodyNotMadeUp`

`NothingWholeIsRefused` and `WholeBodiesReceived` rest on one layout lemma per body, which says what lies at which
offset (`At`), and on what reading at an offset gives back: numbers
(`UintRead`), times (`TimeRead`), strings (`StringRead`) and lists
(`TLVsRead`: the offsets the decoder's loop computes are those at which the
encoder put the entries, whatever their lengths). For encryption, `Unsealed`
says that `pkcs7Unpad` undoes `pkcs7Pad` at every length. The assumption
`MessagesAssumption` says what can be sent: times with two digits per part,
strings and lists whose length fits its byte, counts that are right, between one
and 65 535 items of a reissue. It says nothing of the bytes of a field.

`NoBodyIsMadeUp` is about bodies cut at any byte. The data is a beginning of what
was sent, before and after decryption (`ReceivesBeginning`): of a sealed body cut
between two blocks, some byte of the text is taken for the padding, and whatever
it is, `pkcs7Unpad` refuses or takes more off the end (`DecryptCut`). What lies in
the body and not behind the cut is still there (`AtCut`), the loop over a list
stops at an entry that is not (`TLVsFirst`), and so every one of the six decoders
returns a beginning of the body or an error (`BodyCut`).

`ItemProofs` proves, for terminals that use the codec of `defaultDecoder` and
messages that are `Readable`:

- `WholeItemsReceived`: `Spec => []AllButTemperatures`
- `NoFieldIsMadeUp`: `Spec => []NothingMadeUp`

The first leaves out the temperatures, which are lost, and messages with an alarm
(`message_fields` shows both).

`Readable` says that the counts in a field are right (`CountsRight`), that the value
expected of a field is what its decoder makes of the bytes sent, so that the
theorems are about where fields are cut and where they go and not about what a
decoder computes (`MCMessage` writes the values out for TLC), and that no item but the
first begins with a byte that is the identifier of a field. An item begins with
its time, and nothing separates it from the fields of the item before it: an item
whose year byte is 0x01 to 0x09, of the years 2001 to 2009, would be taken for a
field. TLC evaluates `Readable` on the messages of `MCMessage`.

The argument is about positions. `ItemLocated` says at which offset of the encoded
message every time, identifier and body lies, for any number of items and fields.
`WholeEnd` says that `findFieldEnd` finds the end of a field that is there as a
whole, the loops over voltages and temperatures included, although more bytes
follow; `CheckedEnd` says what it finds of a field that was cut, for the fields
whose length it compares with the data. `FieldNext` and `FieldTaken` then follow
one field, `FieldsOver` the end of an item, where `NoFieldBehind` is needed, and
`HeldMore` what `RealtimeMessage` holds after it: all motors, the last of
everything else. The invariants are `Progress`, that the first k items are in the
result and the next is being read from where it lies, and for a cut message
`FirstRead`, which says the same of the first item only.

Recursive functions are reasoned about position by position (`Recursion`,
`StepByStep` and `FlattenedStepwise` of `SequenceLemmas`), from the least
position at which a claim would fail.

Every invariant, the action property and the refinement that the passing runs
check are stated by a theorem. Only model-checked is liveness, which needs
fairness and `ENABLED` and is out of the prover's reach: `ClosedRunEnds`,
`StopReturns`, `SendReturns`, `ForwardReturns` and `StopClosesForwarders`. What the
recursive functions of the model compute is proved only as far as it is needed,
position by position, because the library's induction theorems cannot be used.

## What is not modelled

- Durations: the idle checker's thirty and three seconds, how long a round of
  probes takes. A deadline that passes is a read or a write that fails.
- AES, the clients of Kafka and MQTT, TCP: library code and I/O.
- The authenticators (`auth/`): a lookup in a set, of which the server sees a
  verdict that the models choose freely. Its map is changed without a lock.
- `time.Date`'s normalisation of impossible dates, logging, the setters of
  options and the commands (`cmd/`), which have no state of interest.

## Plan

1. Idle timing: a clock for `lastSeen`, the timeout and the round of probes.
