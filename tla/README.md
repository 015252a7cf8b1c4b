# Verification of wiretap-lib-rs

wiretap-lib-rs is a set of Rust crates for listening to control buses: it
reassembles messages from byte streams, codes and decodes the wire formats of CAN
adapters, measures a link with test traffic, interprets frames with a catalogue and
searches captured frames for checksums. It starts no thread and opens no socket.
Everything it does is a call on a `&mut self` or a pure function, and all its
concurrency is in what its callers feed it: chunks cut anywhere, frames lost,
repeated or overtaken, two senders on one bus, calls in an order nobody tried.

That decides how it is modelled. Each stateful object is a module whose actions are
its methods. An environment module then composes the object with the line, bus or
conversation that drives it, and carries the ghost state (what was really sent) that
the properties compare the object's answers with. Pure algorithms are operators,
compared with a reference definition over bounded inputs.

Everything is in this directory: `*.tla` are the modules, `MC_*.tla` the instances
TLC checks, `*.cfg` the configurations, `*_proof.tla` the theorems with their proofs
and `PROJECT.json` the index of components, runs, hazards, theorems and of the
source lines each definition stands for.

## 1. The system

### 1.1 Components

`crates/wiretap-catalog`

| Component | State | Operations | What makes it correct |
|---|---|---|---|
| Modbus RTU reassembly (`modbus_rtu_stream.rs`) | byte buffer, frame counter, outstanding request | `push`, `push_bytes`, `interpret`, `finish` | no genuine message is lost to resynchronisation, none is invented or out of order; the buffer is bounded; directions, addresses and frame counts are those of the real exchange |
| Modbus protocol facts (`modbus/protocol.rs`) | none | limits, packing, request building | a request is never longer than the protocol allows |
| Modbus manifest (`modbus/manifest.rs`) | none (a parsed document) | parse, address resolution, read planning, decode | every register is read once, inside one legal request, from the right address |
| Mirror validation (`mirror.rs`) | per mirrored frame: the last payload of each side, a run of mismatches, a latched verdict | `observe`, `reset`, `verdicts` | a verdict is latched only on persistent disagreement, never on timing jitter, and does not come off by itself |
| Catalogue parsing (`parse.rs`, `model.rs`) | none | `Catalog::parse`: inheritance, multiplexers, defaults | a mirror or copy takes exactly what it should; references resolve whatever the spelling of an id |
| Catalogue validation (`validate.rs`) | none | `validate`, the field validators | what it accepts the decoder can decode |
| Catalogue editing (`edit.rs`) | a document | `apply_edit`, `bump_meta_version` | an edit changes its target only; order and references are kept |
| Catalogue migration (`migrate.rs`) | a document | `migrate` | idempotent; the upgraded text parses to what the old text did |
| Catalogue decoding (`decode.rs`) | none | `decode_frame`, `decode_by_id` | the right case of a multiplexer; no bit outside the frame is read |
| DBC import and export (`dbc/`) | none | `import`, `export` | bit positions and multiplexers survive the round trip |

`crates/wiretap-protocol`

| Component | State | Operations | What makes it correct |
|---|---|---|---|
| Test Pattern (`testpattern.rs`) | responder: run, counters, sequence tracker | `on_frame`, `track`, `record`, `encode`, `decode` | what the counters say is what happened on the link; a run is answered and no answer is; two runs do not disturb each other |
| GVRET (`gvret.rs`) | two stream decoders with a buffer | `feed`, `encode_*` | commands survive any chunking; the buffer is bounded; what is encoded decodes |
| SLCAN (`slcan.rs`) | a line buffer | `feed`, `parse_frame`, `encode_frame_into` | the buffer is bounded; a line begun behind an end or a bell comes out as meant, whatever came before; an overlong text leaves its tail, an unended one at most the line it runs into; what is encoded parses |
| gs_usb (`gs_usb.rs`), SocketCAN (`socketcan.rs`), length codes (`dlc.rs`) | none | fixed-layout coders | what is encoded decodes; lengths and codes agree |
| Ingest bound (`ingest.rs`) | none | one constant | - |

`crates/wiretap-checksum`, `crates/wiretap-analysis`, `crates/wiretap-decode`

| Component | State | Operations | What makes it correct |
|---|---|---|---|
| Checksum algorithms (`algorithms.rs`, `frame.rs`, `spec.rs`) | none | the named sums and CRCs over a range of a frame, `sweep_specs` | the catalogue's values are the published ones |
| Detection and solving (`detect.rs`, `solve.rs`, `columns.rs`, `sampling.rs`, `notes.rs`) | none | sweeps, the residue solver, sample selection | an answer fits every sample it claims to fit |
| Analysis (`checksum.rs`, `scan.rs`) | none | evidence per byte column, capture scan | a real checksum column is never rejected |
| Decode primitives (`wiretap-decode`) | none | bit extraction, word swap, scaling | a read outside the payload yields zeros |

`scripts/check-release-contract.sh` checks version numbers before a release and is
not modelled.

### 1.2 How they interact

- A caller owns every object and feeds it: a serial read or tunnelled CAN frame goes
  to `ModbusRtuStream::push`/`push_bytes`, messages framed by somebody else to
  `interpret` on the same instance, so the two paths share the outstanding request
  and the frame counter.
- A `Responder` is fed every Test Pattern frame its node hears and the caller puts
  its replies on the bus, where every node hears them, the responder's own
  (loopback) included.
- `SequenceTracker` is used by the responder and by the initiating application,
  which is not in this repository.
- The catalogue is parsed once; `decode`, `mirror` and the manifest read it. An
  editor issues `EditOp`s on the text, and `migrate` rewrites the text so that it
  parses to the same model.
- Analysis runs detection and solving on groups of captured payloads.

### 1.3 What is hard

- **Chunk boundaries.** RTU reassembly, GVRET and SLCAN decide from a partial buffer
  whether to wait, to take or to give up.
- **Loss, duplication and overtaking.** Sequence analysis and the pairing of
  requests and responses have to draw conclusions from what did arrive.
- **Several actors.** Two initiators, several responders and their loopbacks on one
  bus; two paths into one reassembler; two sides of a mirror with unrelated clocks.
- **Modular and bounded numbers.** 16-bit sequence numbers that wrap, 24-bit
  counters that saturate, length codes, 254-byte limits.
- **Long sequences of legal calls.** The outstanding request, the seen bitmap and
  the mismatch run all outlive the exchange they were set by.

## 2. The plan

### 2.1 Modules, in the order they are written

| Part | Modules | Status |
|---|---|---|
| RTU reassembly | `ModbusRtu` (protocol facts), `ModbusRtuStream` (the object) ← `RtuLine`, `RtuExchange` (environments) | done |
| Promise of a framer | `FramedLine` (abstract), implemented by `RtuLine`, `GvretLink` | done |
| Test Pattern | `SequenceTracker` ← `SequenceStream`; `SequenceTracker` ← `Responder` ← `TestPatternBus`; `Latencies` | done |
| GVRET | `Dlc` ← `Gvret` ← `GvretHost`, `GvretDevice` ← `GvretLink` | done |
| Mirror validation | `MirrorTracker` ← `MirrorBus` | done |
| SLCAN, checksums | `Slcan`; `Checksums` ← `ChecksumSample` | done |
| Catalogue as a document | `TomlDocument` ← `CatalogParse` ← `ModbusManifest` ← `Migrate`, `Validate`; `TomlDocument` ← `CatalogEdit`; these ← `CatalogDocument` | done |
| Registers and payloads | `ModbusManifest` ← `RegisterWrites`; `ModbusManifest` ← `CatalogDecode` | done |
| Checksum search | `Checksums` ← `ChecksumSolve`, `ChecksumDetect` ← `ChecksumScan` ← `ScanCapture` | done |
| Fixed layouts | gs_usb and SocketCAN records; start bits of DBC signals | left, section 9 |

`A ← B` reads: B extends A. `FramedLine` is instantiated with a refinement mapping.
A stateful object never mentions its environment, so that theorems about the object
hold under any caller.

### 2.2 Theorems

Proved: type correctness, buffer bound and declared lengths of `ModbusRtuStream`;
that a line loses no message and implements the promise of a framer; the bounds of
both GVRET decoders and the completeness of the handshake scan; that a GVRET connection
implements the promise of a framer for commands, recovers the messages a device sends
and holds nothing back at either end; the account and the counts of `SequenceStream`; the counters and the replies of `TestPatternBus`; the
three properties of the verdicts of `MirrorBus`; the sides and the pairing of `RtuExchange`;
that the lines an SLCAN port yields are those its device meant; that the percentiles of
`Latencies` are nearest ranks; that a sweep says of every configuration what validating
the frames says, that what any algorithm seals validates until a bit of it flips, that
the forms fault what is not measured, and that arithmetic never rules a device's own
checksum out.
Section 7 has the argument of each.

## 3. The modules and the code

`PROJECT.json` names, for each definition, the lines it stands for. What follows is
how to read each module next to its source.

### 3.1 Modbus RTU (`modbus_rtu_stream.rs`, `modbus/protocol.rs`)

`ModbusRtuStream` has the fields of the struct as `buf`, `pending` and `lastReq`.
`push`, `push_bytes`, `interpret` and `finish` begin a call by setting `call`, and
`DrainPass` is one round of the loop of `drain_messages`: skip to where a message can begin, frame
the first candidate that fits, wait, or give up a byte. The rounds of one call are
steps of their own, so every state in between is visible to the invariants. No
action is enabled that would let a second call begin before the first returns (`&mut
self`). Messages handed over are appended to `out`; what `finish` hands back is
`residue`.

Bytes are bytes, and the tables of lengths and shapes are the code's. Only the
checksum is abstracted: a message is CRC-valid when the constant `CrcValid` has it.
The instances list real messages with their real checksums, and the theorems assume
nothing about `CrcValid` but that it is a set of byte strings.

`RtuLine` adds a line (bytes, and where the genuine messages stand in them), chunks
of any allowed size and the frames they end in. `LineAssumption` says what a marked
line is: the marks are messages of the device in order, each as long as its own
header says, and nothing else on the line that begins like a message of the device
and has a length its header declares is CRC-valid by accident. Messages of other
devices may be junk. `RtuExchange` adds a master, a
device and a tap on them that may miss messages or frames, and for each message the
truth it should be reported with. Messages arrive as a whole (`interpret`) or in
frames (`push`), in any mixture; `coming` is the message whose frames are on the
wire, and `ends` says of each byte heard that ended a message which one that was. A
frame missed in the middle can make the head of one message and the tail of the
next a third with a good checksum; when it is no message that was sent, its truth is
an `Accident`, and nothing is claimed of it. `ExchangeAssumption` says what a
transaction is and that the messages sent have no good checksum part of the way.

### 3.2 Test Pattern (`testpattern.rs`)

`SequenceTracker` is `SequenceState` as a record and `track` as an operator from
state to state, over numbers of a space that is a constant (65536 in the code).
`SequenceStream` is a link that loses, repeats and reorders, with numbers that carry
their lap, so that the tracker's modular conclusions have something exact to be
compared with. It bounds the link to what the threshold can tell apart (`Tellable`):
a loss of half the space in a row looks like a late frame in the code too, and is
none of its promises.

`Responder` is `on_frame`: the dispatch on the type of a frame, on the run it
belongs to, the counters, the replies. `TestPatternBus` has initiators, called by
their run tags ("The run tag is what makes two initiators on one bus safe"), that
send in any order, an inbox per node in which its frames and other nodes' replies queue, and
the delivery of replies to everybody, the sender included. `Latencies` is `record`
and `stats`, in which a sort is the placing of every sample after those that come
before it.

### 3.3 GVRET (`gvret.rs`, `dlc.rs`)

`GvretHost` and `GvretDevice` are the two decoders. `HostFeed` and `DevFeed` append
a chunk (and scan for the handshake), `HostPass` and `DevPass` are a round of the
loop that follows: skip to a sync byte, then one of take, drop, wait. `SyncEnds`
states the pairwise scan by what it finds: the ends of even runs of E7. `GvretLink`
is a client and a server around them with a byte stream each way. It keeps each stream
whole (`spoken`, `wire`) with how far its reader has come (`got`, `fed`), so that a read
is a stretch of it, and marks where each message lies (`asks`, `spans`); the properties
compare what a decoder reports with the messages marked before its reader.

### 3.4 Mirror validation (`mirror.rs`)

`MirrorTracker` has the tracker's map as `states`, with `observe`, the comparison of
the inherited bytes, the window and the latch. `MirrorBus` has rounds in which a
source and its mirrors send their value once, in any order and with growing jitter;
a mirror may be wrong in a round, and the ghost variables `excused` and `spoilt`
count what would justify a verdict.

### 3.5 SLCAN, checksums (`slcan.rs`, `algorithms.rs`, `frame.rs`, `spec.rs`)

`Slcan` has the line decoder one character at a time, the parser and the encoder; a
character that is no part of a frame is one model value. Its second half is a device
that sends, refuses with a bell, acknowledges, babbles (`Noises`: texts of any length
without a meaning, ended or left open), and a port that spoils
characters. Two variables are history: `open` is what was sent behind the last end of
a line or bell, and `said` the lines that are to come of it all. A line that begins with nothing
open is due as it was meant (`Due`); of anything else is due what is left of it
when every whole stretch of one more than `MAX_LINE_BYTES` characters is taken away
(`Retained`, `Remains`), a closed form of what the decoder does a character at a time. `FrameText` is a line without its terminator, which the device chooses for
itself (the decoder takes either), and `PortAssumption` says what may be on a device's
bus and that an answer to a query never reads as a frame. `Checksums` computes over sets of bit positions: a byte is the set of
its bits that are one, a shift moves it, and exclusive or is the symmetric
difference; then come the addressing of a frame from either end and the sweep with
its grouping. A group is calculated over the frames in which its range is not degenerate
(`Calculated`), and a spec counts those of them its checksum fits. `ChecksumSample` is
the growing sample it is swept over, for frames and specs as `SampleAssumption` has
them.

### 3.6 The catalogue as a document (`parse.rs`, `edit.rs`, `migrate.rs`, `validate.rs`)

`TomlDocument` is a text as the toml libraries show it: a function from paths to
items. How a number, a key in quotes, or the key of a multiplexer case is spelled
decides much in this code, so spelling is not dropped: `Numbers`, `Quoted` and
`CaseParts` are tables of the spellings a document may hold and what they mean, and
`Texts` lists the strings that are compared in their order, which is the order a
sorted map visits them in. An optional value is a set with at most one member, so
`Or` is `Option::or` and `Else` is `unwrap_or`.

`CatalogParse` is `Catalog::parse`: the frames of the three protocols, mirrors and
copies, multiplexers in multiplexers, checksums, tunnels, header fields and the
configurations. `ModbusManifest` is the Modbus section, which is read a second time
by code of its own and as a whole or not at all, and what the parser shows of it.
`CatalogEdit` has an operator per `EditOp` from a document to the set of its
outcomes, empty where the code returns an error. `Migrate` is the two migrations with
what each reports. `Validate` is the validator of a document and the five validators
of forms, as sets of findings (a path or field and what is wrong).

`CatalogDocument` composes them: one document under an editor, an action per
operation, and between any two the parser, the validator and the forms.

### 3.7 Registers and payloads (`modbus/manifest.rs`, `decode.rs`, `wiretap-decode`)

A section of `ModbusManifest` is bit extraction, the word swap and scaling by whole
numbers; a byte or register is the set of its bits that are one. Its last part takes
an operator's values to register writes, and registers to values. `RegisterWrites`
sends a batch: encode, merge, group, and then one group after the other onto a bank
of registers that holds something already, reading first what a write owns in part.

`CatalogDecode` is `decode_frame` and what it calls: the choice of a case, signals of
an inner multiplexer, defaults by configuration, masks, header fields, and the
lookups by id and by register. Its second half receives a payload byte by byte under
an id with more bits than the mask has, and decodes whatever there is.

### 3.8 The search for a checksum (`solve.rs`, `detect.rs`, `columns.rs`, `sampling.rs`, `wiretap-analysis`)

`ChecksumSolve` is the solver: observations, the additive fit, the residue argument
for polynomials (the sum of two samples of one length is the code of their sum with
neither initial value nor final xor), the choice of a final xor, folding over ranges,
and declarations to and from the catalogue. `ChecksumDetect` is the sweep over named
algorithms with its scores and filters; a fraction is a pair of whole numbers,
compared across. `ChecksumScan` has the evidence of each column, the ranked targets
and the scan of a capture by id. `ScanCapture` is a device that seals its frames with
one known checksum, on a link with frames too short to hold one: the capture grows a
frame at a time and is searched at every length. By `CaptureAssumption` the checksum comes
after the bytes it is calculated over, both counted from the end of the frame
(`EndsFrames`), `SealAs` puts it in its place in a body, and the other frames have no
range of it.

## 4. The runs

Each run is checked by `tlc -workers 2 -config <cfg> <module>`. Most take seconds,
`rtu_line` about a minute, `catalogue` and `parts` two or three. Deadlock is not checked:
every system here stops when its environment has nothing more to send. Runs that
explore parts without shared state one at a time have a variable `part` that no step
changes.

| Run | What it shows |
|---|---|
| `rtu_line` | On lines with nine kinds of junk before and between messages and 300 empty bytes behind false heads: nothing is lost and each message is reported with the frames it came in (`GenuineKept`), nothing is invented or reordered (`PromiseKept`), the buffer stays bounded (`BufferBounded`). On lines of nothing but messages, with the lenient policy: exactly the messages come out in the end (`PromiseDelivers`), as soon as the last byte is in |
| `rtu_exchange` | Up to five turns and two misses: sides, addresses and frame counts are true while everything is heard, and what is confused otherwise is a write of one register only (`SidesTrue`); pairing is right again at the next request heard with its response (`PairingRecovers`); a message handed over is as long as its header says, spliced or not (`LengthDeclared`) |
| `rtu_residue` | (violation) a residue that holds a whole message |
| `seq_clean` | (violation) a clean run longer than the space |
| `tp_bus` | Two initiators, a responder that hears itself and misses a frame: its report is true of its own run (`CountersTrue`), replies are bounded and fit the wire (`RepliesFit`) |
| `tp_answered` | One initiator, two responders, nothing missed: every ping is answered |
| `tp_idle` | (violation) an idle responder answers a status request |
| `gvret_link` | Payloads full of sync bytes, early speech, optional checksums, a host that joins in mid-message, chunks of 3 and 10 bytes, up to three messages: commands (`CommandsKept`) and messages (`RepliesRecover`) survive, nothing is held back (`NothingHeldBack`), buffers stay bounded |
| `parts` | *SLCAN*: a line begun behind an end or a bell survives what was refused, spoilt, overlong or never ended before it, and of an overlong text comes its tail and no more. *Checksums*: sealing and validating agree, the sweep agrees with validation. *Scan*: what the solver says fits what it says it fits, the true checksum is found, its column never ruled out, and what the forms accept is measured. *Mirror*: no false verdict, two whole rounds settle one, silence changes none. *Sequence*: the counts are those of a reader with unbounded numbers. *Latency*: percentiles are nearest ranks |
| `catalogue` | *Documents*: after any two edits or migrations of three catalogues, what an edit is not about keeps its meaning (`EditsAreLocal`), a mirror shows every signal once (`MirrorIsWhole`), what the parser leaves out is reported (`DroppedIsReported`), a form without faults does what it shows (`SavedFormsHold`), a migrated catalogue reads as it did (`MigrationKeepsMeaning`). *Writes*: after any batch of up to three commands every register holds what was asked and nothing else has moved (`WritesLand`). *Payloads*: the case decoded is the one the selector names (`RightCase`), the catalogue and the manifest read one register alike (`RegistersAgree`), one more byte of a payload changes no value that was whole without it (`CutsAreLocal`) |
| `migrated_twice` | (violation) an interval in both spellings is migrated twice |
| `registers_disagree` | (violation) the older name of the order of bytes is read by one of two decoders |

**Why the bounds are enough.** The decoders forget: what a round does depends on the
bytes buffered, so two messages with junk before or between them meet the
cases a longer line repeats, and three short ones the state in which two messages
are buffered when a call begins. Chunks of one byte visit every split, as do reads of three
and ten in any order; the larger ones put several messages in one call, and 300 zeros exceed the longest message any false
head can announce. A sequence space of eight with a threshold of four has every case
of the wrapped comparison, and six frames from 5 cross the wrap. Two lines and two troubles on a serial port
(`MaxLines`, `MaxTrouble`) hold an overlong or unended text, or two that run into one another,
before, between and behind two lines that are meant; the texts are one character over
the bound, past it with a tail that reads as a frame, and short enough to pass it only with the longest
frame. `MAX_LINE_BYTES` is 32 there (512 in the code), and the longest line 29. A mirror's
verdict needs three mismatches in a row, which two whole rounds give it, so three
rounds hold a good one and a bad pair, or a bad pair and a recovery; the rounds
after a rewind start from whatever those before it left. `MaxCounter` of `Responder`
stands for the 24-bit limit of the report and is 2 in `tp_bus`, so that reports
saturate.

An edit reads the document and nothing else, so two edits (`MaxEdits`) meet every
pair of an edit that leaves a trace and one that trips over it: a mirror of a mirror
after a rename, a second spelling of a key, a section that no longer parses. The documents hold every
reference by either spelling. Ten registers in three frames, with up to three
commands a batch, have every way in which two writes can share, adjoin or miss one. Payloads of up to
five bytes (`MaxPayload`) end before, inside and behind every signal; a case
reaches `CASE_SPAN` values past its first (2 here, 1000 in the code), and there is one
that would reach further. A capture of
four frames (`MaxCapture`) is one more than the samples kept (`MAX_SAMPLES` and its
like are small here, hundreds in the code), so samples are chosen, and lengths differ.

**What the bounds do not reach** is listed in section 9.

## 5. Fairness

Only two runs assume any. `rtu_line` assumes that the transport goes on delivering
while the line has bytes left (`WF` of the feeding steps), and that a call runs to its
end (`WF` of the passes: a loop in a function that nobody interrupts). Nobody has to
call `finish`. `tp_answered` assumes that the caller of each responder goes on
handling what its node hears (`WF` of `Handle`); nobody has to send.

Everything else is safety. For GVRET and SLCAN that something arrives in the end is
stated more strongly: `NothingHeldBack` and `LinesComplete` say that with everything
read and the call returned nothing is outstanding (for SLCAN: but what has no end
yet), which needs no fairness.

## 6. Findings

Five statements of the repository are not true of the code, each with a run that
shows it (`PROJECT.json` quotes them):

- `finish` (`modbus_rtu_stream.rs:229`) may hand back a residue with a complete,
  checksummed message in it, behind a false head that still waits for more.
- The bitmap of seen numbers is for the life of a run, so a clean run longer than
  65536 frames reports every further frame as a duplicate (`testpattern.rs:456`).
- `RequestStatus` is answered by an idle responder, of which `Hello` is said to be
  the only message it answers (`testpattern.rs:705`).
- A `tx` table with both `interval_ms` and `interval` is migrated a second time, by a
  migration said to be idempotent (`migrate.rs:179`).
- The catalogue takes the order of bytes of its registers from `byte_order` where
  `default_byte_order` is missing, the manifest does not, and the two decoders said to
  be identical read one register as two numbers (`parse.rs:622`).

Met while modelling, and modelled as the code has them:

- `frame_count` counts frames of junk: `pending_frames` grows with every frame and
  is not reset when resynchronisation drops bytes, and `interpret`, whose messages
  are documented to count one, reports the frames of a reassembly in progress. The
  runs check the count where neither happens.
- `CrcPolicy::Lenient` is said to be the same as `Strict` on a stream whose
  checksums are right; a plausible false head in the body of an unhandled function
  code makes it take bytes that strict reassembly would resynchronise over.
- The response to a write of one register is its echo. When one of the two is
  missed, a repeated request is reported as the response; `ConfusionIsLocal` says
  how far that reaches.
- A `Start` of another initiator rebinds a responder and resets its counters in
  mid-run. The echo of a sweep request keeps the FD flag it came with, whatever the
  node can do (`docs/test-pattern.md:224`).
- `slcan.rs:233` says that GVRET never pads a payload; `gvret.rs:357` does.
- An overlong SLCAN line is not abandoned as a whole (`slcan.rs:321`): the buffer is cleared and
  the rest of the line is taken for the beginning of the next one, as often as the bound is passed again. The tail
  becomes a line of its own, which may even read as a frame nobody sent, or stands
  in front of the next line and spoils it; the test (`slcan.rs:602`) sends exactly one character over the
  bound, of which nothing is left. Characters after a
  frame are ignored, and a plus sign is accepted where a hexadecimal digit belongs.
- A mirror that shows the inverse of a signal which changes in every round is never
  found wrong: its sample of one round agrees with the source's of the next, and
  every agreement resets the run of mismatches (`mirror.rs:126`). And two lost
  frames of a pair can be enough to condemn a mirror that is right: `NoFalseLatch`
  says that it takes as many, and `FaultFound` what a fault must look like to be
  found.
- Validation and parsing differ at the edges. An id with too many digits, a Modbus
  key above 65535 and a serial id that is a word are accepted and read as nothing; a
  form allows a text of 2048 bits where the document's validator stops at 64; the
  cases of a multiplexer that are a range or a list are not validated; of a frame with
  both `signal` and `signals` the validator and the parser prefer different ones; the
  forms of Modbus frames never look up their key (`validate.rs:818`), so one can
  replace another frame.
- `0x10` and `16` are two keys with one number. A reference finds one of the two, by
  the order of their spelling.
- The Modbus section is read as a whole or not at all: one item of the wrong kind
  takes every register away, and so does `[frame.modbus.config]`, which the migration
  and the parser skip as a table of defaults.
- A Modbus frame with `interval` at its top and an interval in `tx` has two names for
  one field after migration, and the section no longer parses. `MigrationKeepsMeaning`
  is about catalogues that give an interval once. It also excepts an old catalogue in
  which some registers name a slave and there are no nodes: the parser shows all of
  them under the slave of the first, the migration under that of the section.
- `RenameKey` takes quotes off the key it renames to but not off the one it looks for
  in references, and `UpsertFrame` with `rename_from` replaces a frame that has the
  new name, where `RenameKey` would refuse.
- A legacy header field with a start byte of 4 or more wraps to the start of the id
  (`parse.rs:491`).
- `encode_raw` does not know the order of bytes, which `decode_frame` follows
  (`manifest.rs:386` calls it the inverse); `diverse_samples` with a limit of 0
  returns every sample where its doc says up to the limit.

## 7. What is proved

`tlapm` checks eight modules with proofs. Each theorem holds for every value of the
constants that the named assumptions of its module allow, and TLC evaluates those
assumptions on every instance. Some theorems are about an object under every caller
(any chunk, any call order), most about an object and the environment its module
describes.

### 7.1 `ModbusRtuStream_proof`

From `StreamAssumption` only: `CrcValid` is a set of byte strings of at least four
bytes, the policy is one of two, the address is a byte or `None`, and `None` is no
number and no request.

- `TypeCorrect`: besides the types, that whatever `build` reads from a message is
  inside it. That is not obvious from the code, which indexes by lengths it has
  read; it holds because a candidate's length is computed from the same header.
- `BufferNeverTrimmed`: between calls at most 254 bytes are buffered. The only state
  in which a call waits is one with a plausible candidate longer than the buffer,
  and a plausible candidate is at most 255 bytes long: the length byte of a response
  has to agree with its function, the quantity of a write with its byte count. So
  the eviction at `MAX_BUFFER` never happens, and cuts no message.
- `LengthsAreDeclared`: a message handed over in frames or bytes is as long as its
  header says.

The inductive invariant is `IInv == TypeOK /\ BufferBounded /\ LengthDeclared`. None
of the three is inductive alone: that a slice is inside the message needs its
length, the bound needs the type of the buffer, and the length of a message needs
that it was cut from a buffer long enough. The proof has one lemma per reading of
the wire (candidates, plausibility, the message built) and one step per action.

### 7.2 `RtuLine_proof`

From `LineAssumption`: for every set of marked lines and every size of chunk.

- `MessagesAreKept`: `GenuineKept`. Of the bytes that have left the buffer no genuine
  message is missing, and each is reported with the frames it came in.
- `LineImplementsPromise`: the refinement `PromiseKept`. What is returned is a prefix
  of what was sent, at every step.
- `LineIsAStream`: every behaviour of a line is one of the object, so 7.1 applies.

`LInv` adds four parts to `IInv`. `Buffered`: the buffer is a stretch of the line,
from the last byte consumed to the last one fed. `InOrder`: the messages returned are
the first genuine ones. `Ahead`: the next one begins at or behind the buffer's first
byte. `FramesInStep`: the frames counted are those that end in the bytes buffered. It
breaks in one place only, when a round takes or gives up bytes, and there the proof
needs that a message which is not complete is waited for (`MessageAwaited`: a prefix
of a message has a plausible candidate that is too long, as candidates only grow and
become no less plausible with more bytes), and that a skip never passes a byte a
message of the device could begin with (`SkipKeeps`).

Tunnelled and lenient lines have to consist of messages only (`OnlyMessages`). That is
not a convenience. A lenient reassembler takes a plausible stretch of junk with a bad
checksum, which can reach into a message, and a tunnel counts a frame of junk for the
message that follows. Both are among the findings.

### 7.3 `RtuExchange_proof`

From `ExchangeAssumption`: for every set of transactions, every size of a frame and
whatever is missed.

- `SidesAreTrue`: `SidesTrue`. With everything heard, every message comes out on the
  side that sent it and with the frames that brought it; otherwise only writes of one
  register are confused.
- `ResponsesArePaired`: `PairingRecovers`.
- `ExchangedLengthsAreDeclared`: `LengthDeclared` under this environment, from `IInv`.

`XInv` adds to `IInv` what was reported (`Reported`), what is on the wire (`OnTheWire`)
and where a listener stands that missed nothing (`AllHeard`). `Remembered` is the part
the pairing rests on: the outstanding request is that of the newest message if that is
a request, and otherwise the one of some message behind which came only answers that
do not use it up. `SideClear` turns that into the sides: a request taken for an answer
was taken against an outstanding request of its own function. For `AllHeard` the
buffer is the frames so far of the message on the wire, which is waited for
(`PartWaits`, from `MessageAwaited`) and taken whole once the last one is in
(`WholeTold`). A response of eight bytes to a read is read as a request
(`Collides`); the comment in the code says so, and the theorem carries that exception.

### 7.4 `TestPattern_proof`

Its first part has the lemmas about `track` for any caller: what each field
is after a first frame, one in turn, a gap and a late one, and the arithmetic of
remainders. The second is the link, from `SpaceAssumption` and `StreamBounds`: for every space of at least two numbers,
every threshold within it, every link that satisfies `Tellable`, however many frames
it carries, loses, repeats or holds in the air.

- `TypeCorrect`.
- `NumbersAccounted`: `EveryNumberCounted`, the account of the tracker. From the
  first frame to the newest, drops and frames in order add up to the numbers passed,
  after any number of laps.
- `CountsAreExact`: `CountsExact`. Each counter is the size of the set it is to count:
  the numbers overtaken, the frames that came late, the gaps, the repeats. `CInv`
  adds that the newest frame is the largest that arrived, that what arrived was sent,
  and that the numbers seen are those of what arrived; the sets are then followed
  through one arrival, which adds to each of them one element, a whole gap or none.

The invariant of the account is `StreamTypeOK /\ Aligned /\ EveryNumberCounted`, where `Aligned`
says that the tracker expects the number after the newest one. The step that matters
is that the wrapped difference of two numbers is their true difference as long as
the link is one the threshold can tell (`ModUnique`: a number of the space is
determined by its remainder).

The third part is the bus, from `BusAssumption` and `SpaceAssumption`: for every number of initiators and
responders, with and without loopback, every sequence space and threshold, however
many frames are sent, and fewer missed than the threshold.

- `CountersAreTrue`: `CountersTrue`. Drops are frames of the node's own run that it
  missed between two it heard, and it counts every one it heard.
- `AnswersFit`: `RepliesFit`. A node sends at most four frames for each an initiator
  sent, and every frame that waits anywhere fits the wire.

The hard part is that a node lags: what its counters are compared with is on its way.
`Waiting` describes the frames that wait at a node by a numbering: those of one
initiator are its x-th to its y-th, modulo the space, in turn and with none left out,
whatever replies and other frames stand between them. `NumbersInTurn` says so of every
node and initiator, that y is the number the initiator uses next, and that x follows
the last number of the node's log while it is on that run. `LogsTrue` relates the log
to the tracker, and bounds the misses since the last frame heard, which keeps every
gap below the threshold. `AnswersPaid` is the same numbering of the frames that are
no replies: a node has sent at most four for each that has left its inbox. Replies add
to neither, which is why they may arrive in any number and order. `OnFrameTreats`
says what one call of `on_frame` may do, and is all the bus needs of the responder.

The last part is `stats`, from `LatencyBounds`:

- `PercentilesAreNearest`: of every recording of round-trip times that is not empty,
  each percentile reported is a sample, at least p percent of the samples do not exceed
  it, and fewer are below it. `PercentilesHold` is `NearestRank` of the module's
  specification, of which it is a corollary.

No two samples have the same place (`EarlierPlace`), so every place of the sorted order
is taken (`EveryPlaceTaken`: an injection of a finite set into one of its size is onto
it). The samples placed before a rank are then exactly as many as the rank less one, and
what is left is the arithmetic of rounding up (`RankIsNearest`).

### 7.5 `Gvret_proof`

The decoders, for every peer and every chunking:

- `HostAlwaysBounded`: between calls the host holds noise without a sync byte, at
  most `MAX_RESYNC_BYTES` of it, or one incomplete message of at most 74 bytes. The
  invariant adds only the type of the buffer.
- `DevAlwaysBounded`: once the client has said hello, a finished call leaves at most
  one unfinished command. `NoSyncEverBuffered`: the scan leaves no handshake behind.
  The second is the one the comment in the code argues for: starting at the last
  byte of what was buffered misses no pair that spans two chunks. The proof has that
  argument in three lemmas: every E7 belongs to a run that the scan sees begin
  (`RunStart`, by well-founded choice of the earliest), behind a pair in a run a
  handshake ends with it or with its second byte (`PairIsFound`), and what remains
  behind the last handshake found, or the whole when none is, holds no pair
  (`ScanLeavesNoPair`). `DevInv` adds the bound.

The connection, from `LinkAssumption`: the client asks requests, or transmits of at most
eight bytes none of whose bytes read together as a handshake; a capture has at most eight bytes, or
64 of CAN FD; an id fits its mask; what the client sent before its handshake holds none.
What the host hears first is any bytes at all, and a read may return any number of bytes.

- `CommandsAreKept`: `CommandsKept`. The device's commands implement the promise of a
  framer for what the client asks. `DevLinkInv` has two halves. `Speech` says how the
  client's stream is laid out: up to the first q bytes that are enough to see the
  hello, then the commands marked in `asks`, and outside of those no sync byte.
  `Understood` says that the device's buffer is the stretch of it from `DevAt` to what
  has been read, that the commands are the first ones asked, and that `DevAt` stands
  between them and the rest. A hello may be
  complete one byte early, when the noise ends with E7; that is why the pair that
  follows is allowed at q.
- `RepliesAreRecovered`: `RepliesRecover`, and `NothingIsHeldBack`: `NothingHeldBack`.
  `HostLinkInv` has the layout of the wire too (`Talk`), with the meaning of each
  message on it (`Reads`), and says where a host that has consumed p bytes may be
  (`Bearing`): still in what it heard first; between two messages, having heard all of
  those behind it that no false head reaches; inside a message that a false head
  reaches; or behind a message that is not plain, where nothing is promised any more.
  Each round of the loop leads from one of the four to one of the four, and a host in
  step stays in step, whatever the payloads look like.
- The codecs make a round trip, which both rest on: `TransmitRoundTrip` for commands;
  `ReplyReads` and `FrameReads` for replies and frames, the latter through the length codes
  of CAN FD with the zeros that pad a payload to one. An id is four bytes in the model;
  that the flag in the last one comes off again is proved for every id that fits its mask.
- `LinkBuffersBounded`: the bounds above hold on a connection, because every step of it
  is a step of the device or leaves it alone, and the same for the host
  (`LinkImplementsEnds`).

### 7.6 `MirrorBus_proof`

From `CatalogAssumption`, `BusAssumption` and `FaultAssumption`: for every catalogue,
period, jitter, set of values and number of rounds and rewinds. The assumptions are
what the instance has too, and TLC evaluates them. `BusAssumption` is the setting: the
pairs that are tracked are on the bus under their own ids, frames of one round come
within the comparison window, a source is not among the faulty, and the byte that
tells a mirror from its source in the model is not one the catalogue calls inherited.
`FaultAssumption` concerns only `RoundsSettle` and says what a detectable fault is: a
wrong payload differs from every true one on some inherited byte, and two rounds fit
into the window.

- `VerdictsRestOnNews`: while the session lasts, a verdict changes only with both
  frames of the pair inside the window. It needs `MirrorInv`: types, and that the
  tracker's two samples carry the stamps of the newest frames (`SamplesAreNewest`).
- `SkewIsNoFault`: `NoFalseLatch`. `LatchInv` adds that a frame heard in this round is
  recorded as it was sent (`HeardAsSent`) and that each mismatch counted so far has an
  excuse (`MismatchesExcused`): the run is never longer than the lost and wrong frames
  since the last whole round allow, one more while a pair is half heard. That last
  case is the one the latch exists for, a first frame of a round that
  disagrees with the other of the round before.
- `RoundsSettle`: `WholeRoundsSettle`. The first frame of the second wrong round is
  compared with the last of the first, two stamps a period apart; that makes the
  second mismatch and the frame that completes the round the third. `SettleInv` says
  so in two parts: what stands recorded is a wrong payload against a true one
  (`StandsWrong`), and after one wrong round the count and the stamps are those the
  next will need (`HalfSpoilt`).

### 7.7 `Slcan_proof`

From `LineBoundAssumption` and `PortAssumption`: for every bound on a line, set of frames
that are frames (`BusFrame`: eight digits of an id, no remote request in CAN FD, no
code above 8 outside it) and fit the bound as text, set of answers that are printable
and read as no frame, set of printable texts without a meaning, of any length, and any
number of lines and troubles.

- `LinesAreComplete`: `LinesComplete`. By itself it is not inductive, as it says
  nothing of a line half read. `PortInv` says what is still to come on the wire once
  stray characters are skipped (`Coming`): nothing but the end of a line
  already read (`Ending`), the rest of a text of which the buffer holds what is retained of the
  beginning, then its end, with what remains of it said and not yet yielded (`MidLine`), the
  rest of a line that a bell will discard (`CutOff`), or of one left open (`Endless`).
  A text with an end that is sent behind one left open is a `MidLine` whose beginning is
  already read (`LineSent`), and with nothing open what remains of a line that fits the
  bound is that line (`MeantRemains`).
- `RetainedGrows` is why the closed form is right: with one character more, what is
  retained grows by that character, or is nothing when it would pass the bound, as
  the remainder of the length modulo one more than the bound does (`NextRemainder`).
- Its heart is `FrameIsRead`: `LineOf(FrameText(f))` is the frame as it is on the bus,
  for every frame. The prefix determines the four flags (`PrefixReads`), the digits of
  the id and of each byte are read as they were written (`DigitLetters`, `PairReads`), and
  a payload is cut or padded to the length its code names before it is written
  (`PayloadOfFrame`), so nothing is left over or missing when it is read.

A letter is a string in the model, and the provers take a string for an unknown value
that differs from every other string; the proof speaks of `Letter`, the union of all
strings with the letters a line may have, which is the same set.

### 7.8 `Checksum_proof`

`SweepIsValid` from `SampleAssumption`, for any frames that are bytes and any sequence
of configurations: `SweepIsValidation`. Its operator form is `SweepsValidate`, about any
sample.

- `ArrangedFacts` is what an arrangement of a set of numbers is: the place of a member is
  the count of those below it, so every place is taken once (`EveryCount`) and the order
  is that of the numbers. The sweep's results are in the order of the specs because of
  it, and none is missing or repeated.
- A group is calculated by its first member's specification. `GroupCalculates` shows that
  it is what any member would have calculated, as the key determines the algorithm and
  the range and a calculation reads nothing else; `RangeOfEvidence` that a frame with a range
  that is not degenerate and a checksum that fits is exactly one that
  `calculated_range` finds to be evidence.

`FormsAreMeasured` from `CaptureAssumption`: `AcceptedIsMeasured`, for every form with
a specification and every frame. The validator of forms and the measurement resolve
indices by code of their own; `Faults` and `FormIsMeasured` go through the cases of an end
past the frame, a missing end and an empty range on both sides.

`NeverRuledOut` from `CaptureAssumption` and `DetectAssumption`: `NeverDisqualified`, for
captures of any length and every checksum an instance may name. The code rules a column out when some
pair of samples differs there alone. The sealed bytes of a frame are a function of the
bytes before the checksum (`SealedAlike`), so two sealed frames of one length that
agree everywhere but in one sealed column agree there as well (`NoneAlone`), whether the
checksum has one byte or two. `SamplesAreFrames` and `StrideFits` show that what the
stride picks are frames of the capture.

`SealsHold` from `SampleAssumption`: `SealHolds`, for a frame of any bytes and any
length. A checksum is a machine that takes the bytes one at a time, so it is enough that
no step takes two states or two bytes to the same state (`Tells`): the states of two
runs over strings that differ in one byte differ from that byte on (`RunsDiffer`).

- One bit of a reflected division is injective when the generator has a term without x
  (`BitReflectedInjective`); `PolynomialsEnd` shows that every generator here has one.
- The unreflected division is the reflected one seen in a mirror, bytes and register
  (`BitsMirrored`, `BytesMirrored`, `DivisionMirrored`). That is the statement about the
  two modes, and carries injectivity from the one to the other.
- Division is linear (`ByteReflectedLinear`), and eight steps of a word whose low byte is
  zero only shift it (`ByteShifted`). Hence an entry of the table is a byte's worth of
  division (`TableStep`, `TableIsDivision`).
- A running sum modulo 256 is injective in both arguments, as a byte is determined by its
  number (`NumberOfByte`, `AddedTells`); XOR is.
- `AlgorithmTells` puts the eleven algorithms together. `SealRead` says where a seal is
  read and over which bytes it is calculated; a flipped bit is then in one or in the
  other, never in both (`SealsTell`).

## 8. What is only model-checked

- The liveness properties (`PromiseDelivers`, `PingsAnswered`), which the proof
  system does not do.
- The catalogue, `RegisterWrites` and `CatalogDecode` included. Its parser and its decoder
  follow multiplexers and arrays to any depth, so their definitions are recursive, and
  what a recursive definition computes for every input is out of the proof system's
  reach.
- What the solver reports (`SolutionsReproduce`), and that the search finds the device's
  checksum (`TruthFound`), over the inputs the instances enumerate. The second depends on
  which polynomials happen to fit a few samples, and has no general form.

## 9. What is not modelled, and why

Within the parts that are modelled:

- *RTU*: messages are those of the instances' lists; CRC collisions of junk with a
  message are not among them (the theorems allow them). Splices that have a good
  checksum by accident are not told of (`Accident`), as sixteen bits cannot rule them out.
- *Test Pattern*: a link whose losses the threshold cannot tell from a wrap is
  excluded by `Tellable`, on the bus by `MaxMissed < WrapThreshold`. That an initiator goes on counting across a `Start` is an
  assumption, the initiating application not being in the repository. The eight-byte
  coding of frames, the sweep's payload and the width of ids are abstracted; the
  rate in a status is left open, as it depends on the clock.
- *GVRET*: a transmit whose bytes hold a handshake (`SyncFree` in `Transmit` leaves it
  out). The scan never stops, so it cuts such a command short, as the code does.
- *SLCAN*: the version reply and the bitrate tables, text without state.
- *Mirror*: the gap between two samples as it is reported.
- *Catalogue*: comments, layout, the order of keys in the text and the numeric order
  of tables, none of which the parser sees; the wording of findings; the shape of an
  enum. Numbers stay below 2^31, so the wider integer types share a test.
- *Decoding and manifest*: scaling to decimals and the display of a value (decimal
  arithmetic and formatting); planning and building the requests of a poll beyond the
  limits of `ModbusRtu`.
- *Checksums*: names as text. A match rate is its two counts, and the entropy of a
  column is computed from its counts in thousandths of a bit, with a table of
  logarithms long enough for the captures of the instance.

Not modelled at all:

- *DBC import and export*: text in and text out through a parser outside this
  repository. What could be stated is a round trip of formatting.
- *gs_usb, SocketCAN*: fixed layouts of bytes without state or decisions.
- *Checksum notes*: sentences for a reader. *Ingest bound*: one constant that nothing
  here acts on. `check-release-contract.sh`: compares version numbers.
