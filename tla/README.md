# A TLA+ development of zfmt

zfmt is a deferred-formatting logger for firmware. A derive macro turns event
types into linker-section entries (a hash, a tag, bytecode that describes the
payload, a format string). The firmware sends tags and raw bytes; a host tool
collects the entries of every build in a SQLite database and uses it to turn a
byte stream back into text.

This directory holds TLA+ models of its parts, the TLC configurations that
check them, and TLAPS proofs. Paths such as `db.rs:95` are relative to
`src/zfmt-host/src/` unless another crate is named.

## 1. Inventory

| Component | State | Operations | Hard because | Correct when |
|---|---|---|---|---|
| Event database (`db.rs`, `main.rs`) | three SQLite tables in a file shared by all zfmt processes of a team or CI machine | `ingest`, `db merge`, `check`, `verify`, `db create`, `db list` | several processes, lock waits and timeouts, being killed, questions asked in more than one SELECT | one row per tag and per hash; no event without its string or its callees; success is durable; failure leaves nothing; verdicts are true |
| Companion export (`db.rs:420`, `main.rs:154`, `export.rs`) | a text file next to the database | rewritten after an ingest | written under no lock and after the commit | shows the rows of the database |
| ELF parser (`elf.rs`) | none | one entry per section | the linker concatenates entries of one tag | every entry reaches the collision policy |
| Firmware stream (`zfmt/src/{macros,output,logger,events}.rs`) | the logger's sequence counter, stack buffers of fixed size | `log_event!`, `log_bare_event!`, `send_event` | nesting, interrupts, output modes, truncation, reboots | headers are numbered in the order they are sent |
| Stream decoder (`decode.rs`) | position, tick rate, `seq_enabled`, `prev_seq` | `decode_stream` | lost messages, late attach, wrap of 24 bits, several databases | a reported gap is a loss |
| Bytecode interpreter (`interpret.rs`) | bytecode and payload cursors, call depth | `interpret`, `render` | cursor arithmetic, CALL depth, positional matching | reads exactly what the firmware wrote |
| Derive macro (`zfmt-macro/src`) | none | layout, bytecode, `payload_size`, `serialize_into`, sections | computes the compiler's `repr(C)` layout itself, three times | offsets, SKIPs and sizes agree with the compiler and with each other |
| LEB128 (`zfmt/src/leb128.rs`, `decode.rs:162`, `interpret.rs:598`) | none | one encoder, three decoders | boundaries, overflow | decoders invert the encoder |
| Text formatting (`zfmt/src/{format,write}.rs`, `zfmt-macro/src/{fmtstr,format_into,log_text}.rs`, `interpret.rs:108-330`) | `FixedBuf` | two parsers of a format spec, two formatters of every value | written twice, truncation in mid-value, rounding and carries | a number that is shown is the value; device and host agree |

Interactions: the macro's entries reach the database through the linker, the
ELF parser and `ingest`. `merge` copies from one database into another. `check`
and `verify` read while others write. The decoder reads databases that others
may be changing. Processes share nothing but the database file, guarded by
SQLite's locks, and the export file, guarded by nothing.

The hazards this code is exposed to are listed, each at its line and with the
properties that would catch it, under `hazards` in `PROJECT.json`.

## 2. The modules

    EventTables        rows, collision policy, integrity (no state)
      |- SerialDb      what ingest and merge promise: one atomic step or none
      |    |- ReleasePipeline   check, ingest, verify on a shared database
      |    |    `- ReleasePipelineProofs
      |    `- CompanionExport   the export file written after an ingest
      |         |- CompanionExportProofs
      |         `- HostReaders  decoders that look things up meanwhile
      |              `- HostReadersProofs
      `- IngestDb      ingest and merge, one action per SQL statement
           `- IngestDbProofs    its theorems; IngestDb implements SerialDb
    EventStream        sequence numbers from log_event! to the gap annotation
      `- EventStreamProofs
    PayloadLayout      what the derive macro makes of a type (no state)
      `- Interpreter   one event from the firmware's memory to the host's text
           `- InterpreterProofs
    FormatSpec         values, format specs and their two parsers (no state)
      |- DeviceFormat  Format::fmt of the device, as a sequence of writes
      |    `- LogOutput       calls, buffers and frames up to the printed lines
      |         `- LogOutputProofs
      `- HostFormat    Value::display_spec of the host; LogOutput instantiates it
    SequenceLemmas     recursion, concatenation and folds; LogOutputProofs and
                       InterpreterProofs extend it

`MCIngestDb`, `MCReleasePipeline`, `MCCompanionExport`, `MCHostReaders`,
`MCInterpreter` and `MCLogOutput` give the constants small values. The operators whose comment begins with "Mutant" are broken
versions of the definition they precede; replacing one by the other makes a
property fail, which shows that the property says something about the code.

### EventTables

The three tables of `SCHEMA` as a record of sets of rows. Hashes, tags, contents
and bytecode are opaque, since `ingest` and `check` only compare them; `Callee`
gives the tags a bytecode CALLs. `StringKnown`, `StringClash`, `StringFresh`,
`EventKnown`, `HashClash`, `TagClash` and `EventFresh` are the outcomes of the
SELECTs at `db.rs:100-174`. The PRIMARY KEY and UNIQUE constraints of the schema
are not guards of the model: `KeysStayUnique` shows that the SELECTs suffice
and the constraints never fire. An event with a nonzero format hash and no
string section (an empty format string) counts as `NoFormat`.

### IngestDb

The state of a process is its statement (`pc`), the slices it was given
(`batch`), the entries it has iterated over (`seen`) and what its open
transaction sees (`view`); `db` is what is committed. One action per statement
of `Db::ingest` and `Db::merge_from`:

| Action | Code |
|---|---|
| `StartIngest`, `StartMerge` | `cmd_ingest` up to `Db::open`, `cmd_db_merge` |
| `ReadEvents`, `ReadStrings` | the two SELECTs of `merge_from` (`db.rs:344-345`), not in one transaction |
| `Begin` | the deferred BEGIN with the first SELECT (`db.rs:95-107`) |
| `SkipString`, `InsertString`, `SkipEvent`, `InsertEvent` | one iteration of the loops (`db.rs:98-182`) |
| `RecordBuild`, `AwaitReaders`, `Commit` | `db.rs:184-193` |
| `Collide` | the three `bail!`s |
| `WriteBusy`, `Timeout`, `Crash` | SQLITE_BUSY at a lock upgrade, the busy timeout of rusqlite, a killed process or a failing statement |

One iteration is one action: while a transaction is open its SELECTs see one
snapshot, so nobody can come between its SELECTs and its INSERT except for
the lock, which is in the action's guard. The slices are iterated in any order,
which covers every order of sections. SQLite is modelled from how `db.rs` uses
it (rollback journal, deferred transaction): SHARED from the first SELECT,
RESERVED at the first INSERT and refused at once if taken, PENDING while COMMIT
waits for readers. `FirstPerTag` and `FirstPerHash` are what `elf.rs` makes of
a section into which the linker has put several entries: the first one, which
may be any of them.

### SerialDb

The promise: a running request is accepted in one step that adds its whole
batch (`Accept`), rejected when it conflicts with the database or in itself
(`Reject`), or fails and changes nothing (`Fail`). IngestDb implements it under
`Serial == INSTANCE SerialDb WITH status <- ..., request <- ...`: a merge that
is still reading its source is idle, and its request is what it has read.

### ReleasePipeline

Processes run the steps of SPEC.md section 16 in any order. Ingest is a step of
SerialDb; `check` and `verify` take one action per SELECT. `asked` is the event
whose `by_hash` query came back empty and whose `by_tag` query is still to come.

### CompanionExport

After its `Accept`, an ingest reads events, then strings, truncates the file
and writes it. Two processes may write at once: a text is written at offset 0
of whatever the file holds by then, so a shorter text leaves the tail of a
longer one (`Torn`). `alone` and `last` are history variables.

### HostReaders

`zfmt decode` opens its databases once and asks them again for every frame
while others ingest, merge and export. `FindEvent`/`NoEvent` are the `find_map`
over `all_events` (`decode.rs:78`), `CallEvent`/`NoSubroutine` are
`lookup_bytecode` in the database of the event (`interpret.rs:421`),
`PrintFormatted`/`NoString` the `find_map` over `lookup_string` (`decode.rs:122`).
Each is one SELECT in one database; steps that touch no database are part of the
SELECT before them. `.ok()` turns a SELECT that fails into a database that does
not know, so `NoEvent` is always possible; `failed` remembers such a failure while
the string is looked for. Which of its CALLs a payload makes is open
(`used`), and so is whether it fits the bytecode at all (`RejectPayload`).

### EventStream

A stack of logging calls, because a call takes its sequence number before it
evaluates the event expression and before it sends, and that expression or an
interrupt may log. A message is lost or handed to the decoder, whose
`seq_enabled` and `prev_seq` are `enabled` and `prev`. `lost`, `missed`,
`rebooted`, `across` and `anchored` are history variables. The counter of the
Logger is firmware code outside this repository; `Counting` says whether it
overrides `next_seq`.

### PayloadLayout

A type is a sequence of fields: scalars, arrays, padding (`_name`), strings, nested
structs and inline enums. Next to each other stand what the compiler does
(`FieldPart`, `OffsetOf`, `EndOf`, `StructSize`, `UnionSize`, `Marks`: the repr(C)
rules, a `ZfmtU64` being a pair of `u32`) and what the macro computes (`MacroPart`,
`MacroEnd`, `GapBehind`, `TotalSize`, `UnionBody`: offsets; `Lead`, `Instruction`,
`TailSkip`, `CodeOf`: bytecode; `Serialize`, `PayloadSize`, `SentSize`: the
traversals of a payload). Both are running sums over parts with an alignment and a
size (`Ends`), with different parts; behind a string the macro's begins again. A
byte on the wire is a cell: the string it belongs to (or none), its address, and the
numbers it may be taken for, so that a byte read for another is noticed. Bytecode has
one element per opcode and LEB128 operand; a tag is the type it is the tag of.
`build_tier1_bytecode`, `build_tier2_bytecode` and `gen_bytecode` are copies of one
loop and one definition here. The dispatch table of an inline enum, for which the
macro has no code, is built as the tests of `interpret.rs` build it.

### Interpreter

`Send` is `with_payload_bytes` (`Panic`: the payload does not fit the buffer);
then each step is one instruction of `run_bc`: `Skip`, `ReadItems`,
`StringRef`, `Pair`, `FixedText`, `VarText`, `Call`, `Dispatch`, `Return`. `stack`
holds the recursive calls, each with its `bc_pos`; `pos` is `p_pos`. `Types` are the
structs that others hold. `Struct` gives a type what is known of it where it is held:
size, alignment, discriminants, values, callees and height. `Fail` is an
`Err`, `Crash` a panic of the host (a slice that begins behind the payload). The
database has all subroutines or none. A number read from bytes that hold
another field may be any number. `Accessed` is the field that `format_into`
prints for a placeholder. Every type is one that compiles (`IsStruct`, `IsVariant`).

`ReadsBack` says that the host gets back exactly the fields of an event that
`IsDecodable`, `NothingElseReadsBack` that `IsDecodable` excludes no event of which it
does. What is not decodable: a tier-1 struct with
a `ZfmtU64` whose offset is not a multiple of 8; arrays of `ZfmtStr` or `ZfmtU64`;
a string that is padding; a payload beyond the buffer; a nested struct with tail
padding, or an inline enum whose variant does not fill its union as the macro
takes it to, unless nothing is shown after it; a nested struct or inline variant
with a string; nesting deeper than MAX_DEPTH.

### FormatSpec, DeviceFormat, HostFormat

A text is a sequence of characters, so that formatting is modelled by what it
writes. `MacroAccepts`/`MacroSpec` are `parse_spec` of the macro (`fmtstr.rs`),
`HostAccepts`/`HostSpec` that of the host (`interpret.rs:151`). `DeviceFormat!Fmt`
returns the writes of `Format::fmt` in order, because a `FixedBuf` takes a write
whole or not at all; `HostFormat!DisplaySpec` returns the host's text. Integers
keep their width (`bits` modulo `2^(8*size)`), floats are sign and magnitude in
units of 1/FracUnit, with the sum at `format.rs:258` modulo 2^64. What a value, a
written spec and a segment can be are sets (`AllValues`, `AllWritten`, `Segments`),
of which a run takes a few and the proofs all.

### LogOutput

`Compile` accepts or rejects the program. A call (`BeginCall`) makes the messages
of its output mode: header and event (`BinarySend`), header and the text of
`format_into` (`TextSend`) or of `log_text!` (`TextEvent`), or both; `Deliver`
puts a message on the wire, cut to the adapter's buffer (`Cut`); `Lose` does not.
A call whose text has a float that overflows panics (`FormattingPanics`), unless the
buffer was full before it; `output-both` has handed its binary message over by then
(`SentBeforePanic`).
The decoder is `decode_stream`: one action per frame (`DecodeFrame`), and one per
way to end. A byte on the wire is `<<k, i>>`, byte i of frame k, so a decoder out
of step is noticed; a length that is read from other bytes may be anything
(`LengthsAt`). `WriteNext` is one write into a `FixedBuf`: the first that does not fit
ends the text of an event, as `?` does in the generated `format_into`.

## 3. What is checked

| Run | Instance | Shows |
|---|---|---|
| `IngestRace` | 2 processes, 1 database, 4 builds | `TypeOK`, `KeysStayUnique`, `NothingDangles`, `SuccessIsDurable`, `AppendOnly`; `IInv`, the invariant of the proofs; `SerialSpec`, the refinement; `LocksAreReleased` |
| `Pipeline` | 2 processes, 4 images | a passed check had no conflict when it began, its counts lie between the counts at its beginning and end, a rejecting check found a conflict or an event that was ingested meanwhile, a passed verify stays true, a failed verify was right |
| `Readers` | 2 writers, 2 databases, 3 images, 1 decoder | an export is closed under strings and callees; an ingest that nobody overlapped leaves a correct export whatever crashed before; a frame whose event is found is decoded in full; databases that agree give a tag one text |
| `Stream` | counter modulo 4, up to 5 messages lost in a row | gap annotations are exact, and never span a boot whose StreamStart was received |
| `Payload` | every struct of up to 3 fields over 12 scalars, arrays and paddings; up to 3 fields with strings; enum variants; nested structs to beyond the depth limit; inline enums | an event is read back exactly if, and only if, it `IsDecodable`; bytecode, `payload_size` and `serialize_into` agree on the length; host and device show the same text for a format string that names the first fields in order |
| `Output` | programs of up to 3 calls over every spec and kind of value, each output mode, buffers that fit, that cut, and none | the two parsers agree; the decoder stays in step unless a message was cut, and then has printed all that came before it, and discards the cut message if the capture ends within it (`CutsSpareWhatPrecedes`); a text that does not fit is a prefix; numbers are shown whole and read back; device and host show the same text if every value is shown alike (`TextsAgree`); the decoder comes to an end (`DecodingEnds`) |

Bounds. The four builds are a program with a nested type, the same program after
its nested type changed (same full hash for the outer type, other bytecode), one whose
string has the hash of another, and one in which two types have one tag, of which the
parser returns either (`twin`): every outcome of the collision policy but `HashClash`
occurs, in batches where it is not the first entry. (`HashClash` needs two tags for one full
hash; the macro makes the tag the low half of the hash, so no build has it.) Two
processes show every conflict between two holders of locks: of any number, one
holds RESERVED and the others are readers that act alike. The one database is merged
into itself; merges between databases, whose two SELECTs an ingest into the source may
come between, are covered by the proofs (`ReferencesCorrect`). In `Stream` the wrap of the
counter and losses below, at and above the modulus occur; SeqMod stands for 2^24.
In `Payload`, three fields give every pair of neighbours with one before or after
them, for every size and alignment; MaxPayload (256 in the code) is 14 and is
exceeded, LebBase (128) is 2, so that lengths take one byte and two; MaxDepth is
the code's 4; MaxGuess bounds the numbers read from other bytes and only occurs
where the result is wrong whatever they are. Types with padding of no bytes, and with
an array of 8 or more `ZfmtStr` (its length is taken for an opcode, which for up to 7 is
END), are left out of `FixedFields`; the declared padding of nested and inline fields is
always none (`pad`).

In `Readers`, two of the images are a program before and after it was given
another type (so a commit between two SELECTs adds what the second reads) and one
collides with it. Frames carry the tag of the type that CALLs another; the other
type's frames would take the same steps without the CALL. `MCView` leaves out what
neither the next states nor the properties depend on: of a process at rest, which
command its last one was, unless it must have left a correct export, and `last`,
which no property of this run reads.

In `Output`, a byte of 3 bits keeps the largest integer, 2^24 - 1, within the
integers of TLC; values at both edges of their types occur, in every base and with
every sign. FieldMax = 14 stands for 255. FracUnit = 4 gives floats that round up,
down, at a tie and across a carry, and one float is beyond u64. BufSize = 16 (128 in
the code) is exceeded in the middle of every kind of value, LebBase = 6 (128) makes
one- and two-byte lengths, and TagSize, HeaderSize and StartSize are shorter than in
the code but keep their order. MaxGuess = 3 bounds a length that is read from bytes
which hold something else, and such a length takes one byte.

Fairness. `FairSpec` has weak fairness of `Advance(p)`, the next statement of
a process: the operating system keeps running a process that is not blocked.
Nothing makes a process start, crash or time out, so `LocksAreReleased` does not
lean on the busy timeout. `OutputSpec` has weak fairness of the decoder's steps:
`decode_stream` is a sequential loop that runs until it returns. Nothing makes the
firmware go on: it may stop before any call or message. Deadlock is checked in every run.

### Disagreements between the code and its documents

Each has a run that must find the property violated.

- `DifferentContent`: `ingest` skips an event whose full hash and tag are known
  without comparing its bytecode (`db.rs:148`); SPEC.md:685 wants an error. It
  happens when a nested type changes: the outer type's hash names only the type.
- `ExportRace`: of two ingests that succeed, the one that read the database
  first may write the export last (SPEC.md:703). The run has one
  database.
- `StreamBoth`: `output-both` sends two messages under one sequence number and
  the decoder reports 2^24 - 1 lost events (SPEC.md:479). The same property
  fails with `MaxDepth = 2` (nested or interrupting calls, `macros.rs:29` of the
  zfmt crate), and with `Counting = FALSE` (a FlatAdapter with protocol version
  2, which is what zfmt-testfw sends).
- `Misaligned`: the macro aligns a `ZfmtU64` to 8 (`tier1.rs:596` of zfmt-macro),
  the compiler to 4; a struct such as `{u32, ZfmtU64}` is misread and sent with
  four bytes of what follows it in memory (SPEC.md:325). `StreamStart`, which is
  written by hand, has such a field at its correct offset.
- `CutMessages`: a cut message is not noticed. The receiver does not "detect the short
  payload via the LEB128 length field and discard the event" (`logger.rs:63` of the
  zfmt crate), but takes the bytes it lacks from the message behind it and prints the
  event. Only at the end of the capture is it discarded.
- `OneFormat`: one format string controls the text of the device and that of the
  host (SPEC.md:729), and `<` and `>` justify all types (SPEC.md:764); but
  the host pads no float and no bool (`interpret.rs:117`), so the texts differ. The run
  has floats and words under `<12` and `>12`. The same property fails for whatever
  else `IsShownAlike` leaves out: a negative `i8` in a base other than ten, which the host
  shows with 64 bits (`interpret.rs:113`); a width without an alignment, which only the
  host obeys, and only for numbers and strings; a float with a sign flag, -0.0, or more
  than 20 decimal places; the type `c` with a `ZfmtU64`, a float of a given precision,
  or a padded string; and a `ZfmtStr`, of which the device shows the hash.

The models show more, which has no run of its own:

- two types of one ELF with one tag are not noticed, since only the first entry of a
  section is parsed (`elf.rs:34`, `FirstPerTag`); SPEC.md:147 wants an error;
- `check` takes any row with the tag for a collision (`db.rs:293`, `ClashingEvent`),
  and that row may be the event itself, ingested since the query by hash. It is the
  only false rejection there is: `RejectionHasItsCause`;
- two databases whose names differ only in their extension have one export, because
  `with_extension("db.txt")` replaces the extension (`main.rs:155`, `ExportOf`), where
  SPEC.md:704 has `<database>.txt`;
- a variant's subroutine does not consume exactly the union's size (SPEC.md:273)
  when the variant ends in padding or the union is larger than the macro
  takes it to be (`Unread`, which `NothingElseReadsBack` shows to matter);
- the derive macro does not enforce that a format string names the fields in
  order, as `interpret.rs:7` says: it only looks names up (`Formats`). And the
  order is not enough: if the format string leaves out a field before the last ones, the
  host shows the wrong values. `TextAgrees` is about the format strings that it does not
  concern;
- behind a padding field of an enum variant a placeholder prints the field
  before the one it names (`Accessed`, `enum_derive.rs:430`), against SPEC.md:740;
- `log_text!` drops the error of a segment and goes on with the next, so its text
  may lack a value in its middle, where `format_into` stops
  (`TextsBreakOffAtTheEnd` is about events alone);
- a number with zeros in front of it, a FourCC and, without 64-bit arithmetic, a
  `ZfmtU64` are written in pieces, and what a full buffer leaves of them looks like a
  shorter number (`IsPiecemeal`);
- rounding a float beyond u64 adds 1 to the largest u64 (`format.rs:258`,
  `interpret.rs:292`): a panic with overflow checks, a 0 without (`Overflows`).

## 4. What is proved

`IngestDbProofs` proves for every value of the constants, any number of
processes, databases and builds, and unbounded runs:

| Theorem | States |
|---|---|
| `TypeCorrect` | `Spec => []TypeOK` |
| `Invariance` | `Spec => []IInv` |
| `KeysCorrect`, `ReferencesCorrect`, `DurabilityCorrect` | `KeysStayUnique`, `NothingDangles`, `SuccessIsDurable` |
| `AppendOnlyCorrect` | `Spec => AppendOnly` |
| `ImplementsSerialDb` | `Spec => SerialSpec` |

Assumptions: `CalleeAssumption`, and `EmittedAssumption`, that the entries of a
build are closed: an event's string and the events it CALLs are emitted with it.
The macro does so: the string section is generated with the event, and a nested
type derives its own entry.

The argument. None of the properties is inductive: that a commit keeps the
tables sound depends on what the transaction read long before. `IInv` adds

- `LockInv`: a process is a reader of a file exactly while its transaction on it
  is open. A commit needs to be the only reader, so the tables under an open
  transaction never change (lemmas `CommitsOnly`, `Isolation`);
- `ViewInv`: an open transaction sees the committed tables plus the entries it
  has iterated over, its keys are unique, and at COMMIT it has seen all;
- `BatchInv`: what `ingest` is given is closed, and between its two SELECTs a
  merge holds events that the source's strings, which only grow, cover;
- `IdleInv`: a process outside a transaction has nothing in hand.

A step's effect on each part is a lemma of its own (`LockStep`, `ViewStep`,
`BatchStep`, ...); `Growth` says that `db` only grows and `Frame` that a step
concerns one process, so most cases reduce to the process that moves.
For the refinement, `CommitIngests` shows that what is committed is the whole
batch and `CollisionIsReal` that a reported collision is one.

### The other modules

| Module | Theorem | States |
|---|---|---|
| `ReleasePipelineProofs` | `PipelineTypeCorrect` | `PipelineSpec => []PipelineTypeOK` |
| | `PassIsRight`, `CountIsRight` | `PassMeansNoConflict`, `CountIsBracketed` |
| | `VerifiedIsRight`, `UnverifiedIsRight` | `VerifiedStaysPresent`, `UnverifiedWasMissing` |
| | `RejectionIsCaused` | `RejectionHasItsCause` |
| `CompanionExportProofs` | `ExportTypeCorrect` | `ExportSpec => []ExportTypeOK` |
| | `ExportClosed`, `LoneIngestIsExported` | `ExportIsClosed`, `LoneIngestExports` |
| `EventStreamProofs` | `StreamTypeCorrect`, `BootsStaySeparate` | `TypeOK`, `BootsAreSeparate` |
| | `GapsAreExact` | `Sequential => (Spec => []GapIsExact)` |
| `HostReadersProofs` | `ReadersTypeCorrect` | `ReaderSpec => []ReaderTypeOK` |
| | `KnownEventsAreDecoded`, `TagsHaveOneText` | `KnownEventsDecode`, `OneTagOneText` |
| `LogOutputProofs` | `TypeHolds`, `TypesHold` | `OutputSpec => []TypeInv`, `OutputSpec => []OutputTypeOK` |
| | `SpecsStayAgreed` | `SpecsAgree` |
| | `DecoderHolds` | `OutputSpec => []DecoderInv` |
| | `InStepStays`, `CutsSpare` | `StaysInStep`, `CutsSpareWhatPrecedes` |
| | `TextsBreakOff` | `TextsBreakOffAtTheEnd` |
| | `CutNumbersAreWhole`, `ShownNumbersReadBack` | `NumbersAreWhole`, `NumbersReadBack` |
| | `TextsStayAlike` | `TextsAgree` |
| `InterpreterProofs` | `TypeCorrect` | `Spec => []InterpreterTypeOK` |
| | `ReadBack`, `PayloadConsumed` | `ReadsBack`, `ConsumesPayload` |
| | `SameTexts` | `TextAgrees` |

They hold for any number of processes, databases, images and decoders, any
modulus of the counter, any bound on losses and nesting, any program, any value of
each type under any spec, any size of a buffer, and any event type, whatever its
fields and however deep it is nested.

*ReleasePipeline.* `ImageAssumption`: an image is finite, has one entry per key,
and is a batch of the serial database. (That an ELF may have two types under one tag
does not contradict this: the parser hands on only one of them.) A
verdict is made of many SELECTs, each of which sees another database. `IInv` says
of every command under way what its answers so far mean for the database as it
was when the command began: the entries that `check` is done with did not conflict
then (`CheckedSoFar`), those that `verify` found are there (`VerifiedSoFar`), and
what is printed is as true as that (`Verdict`, and `Cause` for a rejection). Each survives the steps of others
because the database only grows (`DbStep`). The counts need in addition that one
more entry changes a count by at most that entry (`StringMore`, `EventMore`,
`CountEntry`).

*CompanionExport.* `ExportAssumption`: images are closed, as in `EmittedAssumption`.
`UpdatedIsClosed` shows that a batch keeps a closed database closed, so `ClosedDbInv`
is inductive. The rows of an export come from two SELECTs, and need not be those of
any one database; `RowsInv` says that the strings of the events already read are
still in the database when the strings are read. `LoneInv` follows an ingest that
nobody overlaps from its commit to the end of its write.

*EventStream.* `StreamAssumption` gives the constants their ranges. The header's
arithmetic is modulo `SeqMod`; `Division` to `Distance` are the facts about `%` that it
rests on. `GapInv` is that the call in progress, if any, is the only one (`OneCall`),
and that the next number to be sent is `(prev + 1 + lost) % SeqMod` as long as the
decoder compares (`Tracked`). It is inductive under `Sequential`: a counting logger,
one output per event, no nesting. Outside it the property fails (see `StreamBoth`).

*HostReaders.* `ReaderAssumption`: a decoder has at least one database, and events
with one full hash have one format string, as long as the 64-bit hash of
`zfmt-macro/src/hash.rs`, which covers the format string, has no collision.
`HandInv` describes a lookup in progress: the event in hand is a row of the
database it came from, the subroutines still to be called are there as well because
that database is closed, and while its string is looked for, the database that has
it is still to be asked. `ShownInv` says that a line is that of an event and of a
string of the decoder's databases, `OriginInv` that every row came from an image.

*LogOutput.* `FormatAssumption`: a byte has 1 to 8 bits, so that a number has at most
64 binary digits, and `Ascii` maps bytes to characters. `OutputAssumption`: sizes are
natural numbers, a tag is not empty and LEB128 has a positive base; `Runs` are
programs of calls whose values and specs are of their types. `FloatValues` leaves out
the numbers between 2^64 - 1 and 2^64, since no `f64` lies there.

- Texts. That a type is kept is most of the work for texts: `FmtType` says that
  `Format::fmt` makes texts of every value and spec, and `TypeInv` that each frame is a
  frame of the program, carries a text of an accepted format string, and that the cells
  on the wire come in order (`Ordered`): whatever a cut leaves out is at a frame's end.
- Decoder. `StaysInStep` is not inductive, as it does not say where the decoder is.
  `DecoderInv` does: between two frames, all before it whole and those that
  are known printed (`InStep`), or beyond the first cut one (`OutOfStep`). There it has come to
  the end of the frame before that one (`Reached`) and keeps what it printed of the frames
  up to it (`Kept`): bytes are in order, so no later line is of an earlier frame. What
  it reads from there on may be anything. `StoppedAt` says why it ended where it did.
- Buffers. `WriteAllText` is what a buffer keeps of a sequence of writes: the first k,
  where k + 1 do not fit (`Takes`). A text that is cut in a field is cut between two of
  its writes, and of the writes of a number one has all the digits, with none next to
  them in the others (`Framed`), unless the field is piecemeal.
- Numbers. Reading a text is a walk over its characters (`Moves`). `WriteDigits` leads
  from a to a * base^count + n, fillings lead nowhere, and so the walk over what `Fmt`
  writes of an integer ends at the integer; for a float it ends at the units rounded to
  the digits shown, the carry into the integer part included.
- Two formatters. The definitions that `HostFormat` shares with the device are the same
  (`HostPower` to `HostValue`); those it has of its own are shown to make the same text:
  digits pushed from the end and reversed (`SameDigits`), zeros in front of the decimal
  places (`DecimalPlaces`), padding (`UintText`, `AlignedAlike`). `FmtAlike` is the
  result for each kind of value, in the cases that `SameContent` and `SamePadding` list,
  and `FlattenTwice` takes it from a segment to a format string.

*Interpreter.* `TypesAssumption` and `EventsAssumption`: `Types` and `Events` are
structs and variants that compile, carry what `Struct` says of them, and are nested
finitely deep (a Rust type that held itself would have no size). `LayoutAssumption`: the
target aligns 8-byte primitives to 4 or 8; `InterpreterAssumption`: MAX_DEPTH and
MaxGuess are numbers. `MaxPayload`, `LebBase` and `MaxDepth` are any.

What the interpreter gets right is a relation between three traversals, so the
proofs go in three stages.

- Layout. The compiler's offsets and the macro's are sums over parts that exist for
  every sequence (`EndsAre`, `OffsetsAre`). They are equal where every field is naturally
  aligned (`NaturalEnds`). A type is `Typed` at every depth by induction on heights
  (`TypesAreTyped`). What is sent of a flat event holds each field where its serializer
  has put it (`SentHeld`), what is sent from memory holds all structs in it, at any depth
  (`Lies`, `LiesInNested`, `LiesInInline`).
- Bytecode. `Points(t)` are the places in the code of t where an instruction begins;
  at each is an instruction that leads to another (`PointsAreSound`). That is what
  `TypeInv` needs: no jump leaves the code, on damaged and misaligned payloads as well.
  `Slips` are the exception: an array of `ZfmtStr`, whose length is executed.
- Position. None of the properties is inductive, since `pos` and `values` mean nothing
  without knowing which fields have been passed. `Pos(t, i)` is how far the
  instructions of i fields move the interpreter, and `ReadsInPlace` that for an `Exact`
  type this is where the field lies. `FollowInv(x)` says that the stack stands for
  a sequence of frames (`Trace`). A frame is a call with the field it is at, the place of
  its struct in the payload and what was decoded before it; what a frame leaves when
  it returns (`EndPlace`, `EndSeen`) is what its caller has behind its field (`After`).
  Every instruction keeps this: it passes a gap (`GapIsPassed`), reads a field
  (`FixedIsRead`, `TextIsRead`, `PaddingIsPassed`), enters a subroutine
  (`NestedIsCalled`, `InlineIsCalled`) or returns (`EndIsPassed`).

`FollowInv` is stated for two kinds of event: with x the values are followed too and the
event `IsDecodable`, which gives `ReadBack`; without x only the position is, and the
event need be no more than flat, which gives `PayloadConsumed` also for structs that are
misread. `SameTexts` adds that the k-th value belongs to the k-th name (`AllPaired`),
and that a format string which compiles for a variant, despite the names it confuses,
names the right fields if it names the first ones in order (`AccessedIs`).

Where the model loops over a sequence, a recursive function does so
(`WriteAll`, `LogText`, `ReadNumber`, `Power`, `Ends`, `SumOf`). `Recursion` and
`SameSteps` of `SequenceLemmas` unfold one once, and `SetInduction` is induction on the
set of the numbers for which a fact holds, which needs no operator as a parameter.

### Only model-checked

- `LocksAreReleased` and `DecodingEnds`: liveness under fairness is out of the prover's reach.
- `NothingElseReadsBack`: the converse of `ReadsBack`. It needs, for every way in
  which an event may not be decodable, a field whose bytes come out wrong, whatever the
  numbers are that the host has read from other bytes by then; and that is where the
  bound MaxGuess takes part in the result.
- The violations, each of which is one behaviour.

## 5. Not modelled

- The bytes: of section entries and of the database's columns; of a LEB128 number,
  bit by bit, and the overflow of a decoder's accumulator (lengths take at most
  two bytes here, a length read from other bytes one); opcodes and operands.
- Time: timestamps, tick rates and the host's scaling of them to seconds, ISO 8601
  dates. Only the time shown on a line depends on them.
- `db create`, `Db::open` and the schema: `CREATE TABLE IF NOT EXISTS` makes a missing
  database an empty one whoever comes first; what `create` says depends on the
  order, but not what it does. `db list` prints one SELECT.
- The macro's parsing of attributes and types, canonical names and hashing. That
  different types get different hashes and tags is not assumed: the instances have
  collisions of every kind.
- Of the interpreter: ZERO_TERM, scalars with VAR_LENGTH and invalid opcodes, which the
  macro never emits, discriminants wider than a byte, gaps of 128 bytes and more in a
  nested struct, and an array or string of the wrong length in a damaged database.
- Of the formatters: the rounding of `f64` arithmetic itself (it is exact here, in
  units of 1/FracUnit), escapes in a format string, colours and the layout of a line.
- `export::render` looks each format string up once more and leaves the line out if
  that fails. The rows are modelled, the lines are not.
- Log levels that are compiled out: such a call is not in the program.
- The Logger of a firmware, its timer and transport. They are outside the
  repository: `Counting`, `Build` and `Lose` say what they may do.
- A database damaged from outside, a full disk other than as a failing statement, and
  network file systems with broken locks.

## 6. What could be added

1. LEB128 bit by bit, with what is dropped beyond 64 bits. The decoders of the
   device (`leb128.rs:24`), of frames (`decode.rs:162`) and of the interpreter
   (`interpret.rs:606`) are the same function, and only a length that is read from
   other bytes reaches its limit.
2. `StreamStart`'s tick rate as decoder state, with the timestamps of two boots.
3. A theorem for the parts of `NothingElseReadsBack` that do not depend on guessed
   numbers, such as a Tier-1 struct with a misaligned `ZfmtU64`.

`EventStream` and `LogOutput` need no composition: messages are only cut by the
FlatAdapter, which has no counter, so a header that is cut has no sequence number
to compare.
