------------------------------- MODULE LogOutput -------------------------------
(***************************************************************************)
(* From logging calls to printed lines.  The device formats an event or    *)
(* sends its bytes, or both (zfmt/src/output.rs, zfmt-macro/src/           *)
(* format_into.rs, log_text.rs); frames go through a Logger that may cut   *)
(* what does not fit its buffer (zfmt/src/logger.rs); messages may be      *)
(* lost; the host takes the captured bytes apart again (decode_stream in   *)
(* zfmt-host/src/decode.rs).                                               *)
(*                                                                         *)
(* A byte on the wire is a cell <<k, i>>: byte i of frame k.  Fields have  *)
(* no padding here (PayloadLayout has it), and sequence numbers are those  *)
(* of EventStream.  Bytes that are read as a tag and are no frame's tag    *)
(* are taken for no known event's tag.                                     *)
(***************************************************************************)
EXTENDS DeviceFormat

H == INSTANCE HostFormat

CONSTANTS
  Runs,        \* the programs under check, each with a way to build it
  BufSize,     \* 128: FixedBuf in text_send and log_text!
  LebBase,     \* 128: the first number that takes two bytes of LEB128
  TagSize,     \* 4
  HeaderSize,  \* 12: the payload of EventHeader
  StartSize,   \* 20: the payload of StreamStart
  MaxGuess     \* bound: a length read from bytes that hold something else


VARIABLES
  program,  \* the calls of the program
  build,    \* output mode, buffer of the Logger, no-64bit, overflow checks
  phase,    \* "compiling", "logging", "decoding", or how it ended
  called,   \* how many of the calls have begun
  queue,    \* the messages of the call in progress, not yet sent
  frames,   \* history: the frames of the messages that were delivered
  wire,     \* the bytes that were captured
  pos,      \* decoder: pos
  lines     \* the frames that were printed, with their payloads

input == <<program, build>>
device == <<called, queue>>
capture == <<frames, wire>>
decoder == <<pos, lines>>
vars == <<input, phase, device, capture, decoder>>

-----------------------------------------------------------------------------
(* Calls: log_event!, log_text! and log_bare_event!, with the segments of  *)
(* the format string, and whether the host's databases know the event.     *)

Call(via, format, known) == [via |-> via, format |-> format, known |-> known]
Literal(text) == [kind |-> "literal", text |-> text]
Field(value, written) == [kind |-> "field", value |-> value, written |-> written]

Fields(format) == SelectSeq(format, LAMBDA s : s.kind = "field")

Segments ==
  [kind : {"literal"}, text : Seq(STRING)]
    \cup [kind : {"field"}, value : AllValues, written : AllWritten]

Calls ==
  [via : {"event", "text", "bare"}, format : Seq(Segments), known : BOOLEAN]

\* The features output-*, the buffer of FlatAdapter or what a gather-write
\* takes, the feature no-64bit, and overflow-checks of the profiles.
Build(mode, capacity, no64, checked) ==
  [mode |-> mode, capacity |-> capacity, no64 |-> no64, checked |-> checked]

Builds ==
  [mode : {"binary", "text", "both"}, capacity : Nat,
   no64 : BOOLEAN, checked : BOOLEAN]

ASSUME OutputAssumption ==
  /\ {BufSize, HeaderSize, StartSize, MaxGuess} \subseteq Nat
  /\ {TagSize, LebBase} \subseteq Nat \ {0}
  /\ Runs \subseteq [program : Seq(Calls), build : Builds]

Init ==
  /\ \E r \in Runs : program = r.program /\ build = r.build
  /\ phase = "compiling"
  /\ called = 0
  /\ queue = <<>>
  /\ frames = <<>>
  /\ wire = <<>>
  /\ pos = 0
  /\ lines = <<>>

(* Without 64-bit arithmetic no 64-bit integer implements Format.          *)
HasFormat(v) == ~(build.no64 /\ v.kind \in {"uint", "sint"} /\ v.size = 8)

Compile ==
  LET accepted == \A c \in DOMAIN program :
                    \A i \in DOMAIN program[c].format :
                      LET s == program[c].format[i] IN
                      s.kind = "field" => MacroAccepts(s.written) /\ HasFormat(s.value) IN
  /\ phase = "compiling"
  /\ phase' = IF accepted THEN "logging" ELSE "rejected"
  /\ UNCHANGED <<input, device, capture, decoder>>

-----------------------------------------------------------------------------
(* Text on the device.                                                     *)

(* The writes of one segment.                                              *)
Writes(s) ==
  CASE s.kind = "literal" -> <<s.text>>
    [] s.kind = "field" -> Fmt(s.value, MacroSpec(s.written), build.no64)

AllWrites(format) == FlattenSeq([i \in DOMAIN format |-> Writes(format[i])])

(* Mutant: a write that does not fit is cut.                               *)
WriteStrCut(buf, text) ==
  LET room == BufSize - Len(buf.text) IN
  IF Len(text) > room
  THEN [text |-> buf.text \o SubSeq(text, 1, room), full |-> TRUE]
  ELSE [text |-> buf.text \o text, full |-> FALSE]

(* Mutant: one byte more than the buffer has is taken to fit.              *)
WriteStrOneMore(buf, text) ==
  IF Len(buf.text) + Len(text) > BufSize + 1 THEN [buf EXCEPT !.full = TRUE]
  ELSE [text |-> buf.text \o text, full |-> FALSE]

(* FixedBuf::write_str: all or nothing.                                    *)
WriteStr(buf, text) ==
  IF Len(buf.text) + Len(text) > BufSize THEN [buf EXCEPT !.full = TRUE]
  ELSE [text |-> buf.text \o text, full |-> FALSE]

(* Mutant: what comes after an error is written, too.                      *)
WriteNextOn(buf, text) == WriteStr(buf, text)

(* An error is handed on by ?, and ends the writes.                        *)
WriteNext(buf, text) == IF buf.full THEN buf ELSE WriteStr(buf, text)

WriteAll(start, writes) ==
  LET bufs[i \in 0 .. Len(writes)] ==
        IF i = 0 THEN [text |-> start, full |-> FALSE]
        ELSE WriteNext(bufs[i - 1], writes[i]) IN
  bufs[Len(writes)].text

FormatInto(format) == WriteAll(<<>>, AllWrites(format))

(* log_text! drops the error of a segment and goes on with the next.       *)
LogText(format) ==
  LET texts[i \in 0 .. Len(format)] ==
        IF i = 0 THEN <<>> ELSE WriteAll(texts[i - 1], Writes(format[i])) IN
  texts[Len(format)]

(* Formatting a float beyond u64 overflows; whether that panics depends on *)
(* the build.                                                              *)
Panics(s) ==
  /\ build.checked
  /\ s.kind = "field"
  /\ s.value.kind = "float"
  /\ Overflows(s.value, OrElse(MacroSpec(s.written).precision, 6))

(* An event's text ends with the first write that does not fit: what comes *)
(* behind it is not formatted.  log_text! formats all of its segments.     *)
FormattingPanics(call) ==
  \E i \in DOMAIN call.format :
    /\ Panics(call.format[i])
    /\ call.via = "event" =>
         Len(FlattenSeq(AllWrites(SubSeq(call.format, 1, i - 1)))) <= BufSize

-----------------------------------------------------------------------------
(* Messages of the device: sequences of frames.                            *)

LebLen(n) == IF n < LebBase THEN 1 ELSE 2

Frame(what, call, len, text) ==
  [what |-> what, call |-> call, len |-> len, text |-> text]

FrameLen(f) == TagSize + LebLen(f.len) + f.len

Counted(length) == LebLen(length) + length

FieldSize(v) == IF v.kind = "str" THEN Counted(Len(v.text)) ELSE v.size

EventSize(format) ==
  LET sizes[i \in 0 .. Len(format)] ==
        IF i = 0 THEN 0
        ELSE sizes[i - 1] + (IF format[i].kind = "field"
                             THEN FieldSize(format[i].value) ELSE 0) IN
  sizes[Len(format)]

Header(c) == Frame("header", c, HeaderSize, <<>>)
EventFrame(c) == Frame("event", c, EventSize(program[c].format), <<>>)
MessageFrame(c, text) == Frame("message", c, Counted(Len(text)), text)

BinarySend(c) == <<<<Header(c), EventFrame(c)>>>>
TextSend(c) == <<<<Header(c), MessageFrame(c, FormatInto(program[c].format))>>>>
TextEvent(c) == <<<<Header(c), MessageFrame(c, LogText(program[c].format))>>>>
BareEvent(c) == <<<<Frame("start", c, StartSize, <<>>)>>>>

(* output-both is binary_send, then text_send.                             *)
SendEvent(c) ==
  CASE build.mode = "binary" -> BinarySend(c)
    [] build.mode = "text" -> TextSend(c)
    [] build.mode = "both" -> BinarySend(c) \o TextSend(c)

\* With output-both, the binary message is out before the text is made.
SentBeforePanic(c) ==
  IF program[c].via = "event" /\ build.mode = "both" THEN BinarySend(c) ELSE <<>>

IsFormatted(call) ==
  call.via = "text" \/ (call.via = "event" /\ build.mode # "binary")

BeginCall ==
  LET c == called + 1 IN
  /\ phase = "logging"
  /\ queue = <<>>
  /\ called < Len(program)
  /\ called' = c
  /\ IF IsFormatted(program[c]) /\ FormattingPanics(program[c])
     THEN /\ phase' = "panicked"
          /\ queue' = SentBeforePanic(c)
     ELSE /\ queue' = CASE program[c].via = "event" -> SendEvent(c)
                        [] program[c].via = "text" -> TextEvent(c)
                        [] program[c].via = "bare" -> BareEvent(c)
          /\ UNCHANGED phase
  /\ UNCHANGED <<input, capture, decoder>>

Cells(k, f) == [i \in 1 .. FrameLen(f) |-> <<k, i>>]

MessageCells(message) ==
  FlattenSeq([i \in DOMAIN message |-> Cells(Len(frames) + i, message[i])])

(* FlatAdapter::send_vectored cuts silently.                               *)
Cut(bytes) ==
  SubSeq(bytes, 1, IF Len(bytes) > build.capacity THEN build.capacity
                   ELSE Len(bytes))

Deliver ==
  /\ queue # <<>>
  /\ queue' = Tail(queue)
  /\ frames' = frames \o Head(queue)
  /\ wire' = wire \o Cut(MessageCells(Head(queue)))
  /\ UNCHANGED <<input, phase, called, decoder>>

Lose ==
  /\ queue # <<>>
  /\ queue' = Tail(queue)
  /\ UNCHANGED <<input, phase, called, capture, decoder>>

EndCapture ==
  /\ phase = "logging"
  /\ queue = <<>>
  /\ called = Len(program)
  /\ phase' = "decoding"
  /\ UNCHANGED <<input, device, capture, decoder>>

-----------------------------------------------------------------------------
(* The decoder.                                                            *)

Rest == Len(wire) - pos

(* wire holds the bytes first..last of frame k after p.                    *)
Holds(p, k, first, last) ==
  /\ p + (last - first + 1) <= Len(wire)
  /\ \A i \in first..last : wire[p + i - first + 1] = <<k, i>>

\* The frame whose tag is next, 0 if none is.
FrameAt(p) ==
  LET tagged == {k \in DOMAIN frames : Holds(p, k, 1, TagSize)} IN
  IF tagged = {} THEN 0 ELSE CHOOSE k \in tagged : TRUE

(* Mutant: the length is taken to be one byte.                             *)
LengthsAtOneByte(p) ==
  LET true == {k \in DOMAIN frames :
                 Holds(p, k, TagSize + 1, TagSize + LebLen(frames[k].len))} IN
  IF true = {} THEN {<<n, 1>> : n \in 0..MaxGuess}
  ELSE {<<frames[k].len, 1>> : k \in true}

(* The lengths that decode_leb128 may read after p, with their sizes.      *)
LengthsAt(p) ==
  LET true == {k \in DOMAIN frames :
                 Holds(p, k, TagSize + 1, TagSize + LebLen(frames[k].len))} IN
  IF true = {} THEN {<<n, 1>> : n \in 0..MaxGuess}
  ELSE {<<frames[k].len, LebLen(frames[k].len)>> : k \in true}

(* A length whose bytes say that more follow, up to the end of the data.   *)
MayBeEndless(p) ==
  \A k \in DOMAIN frames :
    ~Holds(p, k, TagSize + 1, TagSize + LebLen(frames[k].len))

(* The types of zfmt itself come with every ELF.                           *)
IsKnown(k) == k > 0 /\ (frames[k].what = "event" => program[frames[k].call].known)

Stop(how) ==
  /\ phase' = how
  /\ UNCHANGED <<input, device, capture, decoder>>

(* The end of the data, or too few bytes for a tag and a length.           *)
EndOfData == phase = "decoding" /\ Rest < TagSize + 1 /\ Stop("done")

BadLength ==
  /\ phase = "decoding"
  /\ Rest >= TagSize + 1
  /\ MayBeEndless(pos + TagSize)
  /\ Stop("failed")

(* The bytes of frame k behind its length.                                 *)
Payload(k) == [i \in 1..frames[k].len |-> <<k, FrameLen(frames[k]) - frames[k].len + i>>]

(* Printing a float overflows like formatting it on the device.            *)
HostPanics(k, payload) ==
  LET format == program[frames[k].call].format IN
  /\ IsKnown(k)
  /\ frames[k].what = "event"
  /\ payload = Payload(k)
  /\ \E i \in DOMAIN format : Panics(format[i])

Truncated(start, length) == Len(wire) - start < length

(* Mutant: the frame of an unknown event is left before pos is moved.      *)
DecodeFrameStuck ==
  /\ phase = "decoding"
  /\ Rest >= TagSize + 1
  /\ \E l \in LengthsAt(pos + TagSize) :
       LET start == pos + TagSize + l[2]
           payload == SubSeq(wire, start + 1, start + l[1])
           k == FrameAt(pos) IN
       IF Truncated(start, l[1]) THEN Stop("done")
       ELSE IF HostPanics(k, payload) THEN Stop("crashed")
       ELSE /\ pos' = IF IsKnown(k) THEN start + l[1] ELSE pos
            /\ lines' = IF IsKnown(k)
                        THEN Append(lines, [frame |-> k, payload |-> payload])
                        ELSE lines
            /\ UNCHANGED <<input, phase, device, capture>>

(* Mutant: a payload that the data cut is printed as far as it goes.       *)
DecodeFramePartial ==
  /\ phase = "decoding"
  /\ Rest >= TagSize + 1
  /\ \E l \in LengthsAt(pos + TagSize) :
       LET start == pos + TagSize + l[2]
           length == IF Truncated(start, l[1]) THEN Len(wire) - start ELSE l[1]
           payload == SubSeq(wire, start + 1, start + length)
           k == FrameAt(pos) IN
       IF HostPanics(k, payload) THEN Stop("crashed")
       ELSE /\ pos' = start + length
            /\ lines' = IF IsKnown(k)
                        THEN Append(lines, [frame |-> k, payload |-> payload])
                        ELSE lines
            /\ UNCHANGED <<input, phase, device, capture>>

DecodeFrame ==
  /\ phase = "decoding"
  /\ Rest >= TagSize + 1
  /\ \E l \in LengthsAt(pos + TagSize) :
       LET start == pos + TagSize + l[2]
           payload == SubSeq(wire, start + 1, start + l[1])
           k == FrameAt(pos) IN
       IF Truncated(start, l[1]) THEN Stop("done")
       ELSE IF HostPanics(k, payload) THEN Stop("crashed")
       ELSE /\ pos' = start + l[1]
            /\ lines' = IF IsKnown(k)
                        THEN Append(lines, [frame |-> k, payload |-> payload])
                        ELSE lines
            /\ UNCHANGED <<input, phase, device, capture>>

Ended == phase \in {"rejected", "panicked", "done", "failed", "crashed"}
Finish == Ended /\ UNCHANGED vars

Next ==
  \/ Compile \/ BeginCall \/ Deliver \/ Lose \/ EndCapture
  \/ EndOfData \/ BadLength \/ DecodeFrame
  \/ Finish

(* decode_stream runs until it returns; the firmware may stop anywhere.    *)
OutputSpec ==
  Init /\ [][Next]_vars /\ WF_vars(EndOfData \/ BadLength \/ DecodeFrame)

-----------------------------------------------------------------------------
(* Properties.                                                             *)

(* The variables stay in their ranges: a text fits its buffer, a message   *)
(* the Logger's, and the decoder does not read past the data.              *)
OutputTypeOK ==
  /\ phase \in {"compiling", "logging", "decoding", "rejected", "panicked",
                "done", "failed", "crashed"}
  /\ called \in 0 .. Len(program)
  /\ \A m \in DOMAIN queue : Len(queue[m]) \in 1..2
  /\ \A k \in DOMAIN frames : Len(frames[k].text) <= BufSize
  /\ \A i \in DOMAIN wire : wire[i][1] \in DOMAIN frames
  /\ pos \in 0 .. Len(wire)
  /\ \A i \in DOMAIN lines : lines[i].frame \in DOMAIN frames

(* Both parsers of a spec agree on every spec that the macro accepts       *)
(* (fmtstr.rs:127, interpret.rs:151).                                      *)
SpecsAgree ==
  phase \notin {"compiling", "rejected"} =>
    \A c \in DOMAIN program : \A i \in DOMAIN program[c].format :
      LET s == program[c].format[i] IN
      s.kind = "field" =>
        HostAccepts(s.written) /\ HostSpec(s.written) = MacroSpec(s.written)

(* The decoder comes to an end on every capture, cut messages and unknown  *)
(* events included: no bytes make decode_stream's loop stand still         *)
(* (decode.rs:49).                                                         *)
DecodingEnds == phase = "decoding" ~> phase \in {"done", "failed", "crashed"}

Start(k) == CHOOSE p \in 0 .. Len(wire) - 1 : wire[p + 1] = <<k, 1>>
IsWhole(k) == \E p \in 0 .. Len(wire) - 1 : wire[p + 1] = <<k, FrameLen(frames[k])>>
HasLength(k) ==
  \E p \in 0 .. Len(wire) - 1 : Holds(p, k, 1, FrameLen(frames[k]) - frames[k].len)

LineOf(k) == {lines[i] : i \in {j \in DOMAIN lines : lines[j].frame = k}}

(* As long as no message was cut, the decoder stays in step whatever was   *)
(* lost: it prints every frame of a known event, with its own bytes, once  *)
(* and in order.                                                           *)
StaysInStep ==
  (\A k \in DOMAIN frames : IsWhole(k)) =>
    /\ phase # "failed"
    /\ \A i \in DOMAIN lines : lines[i].payload = Payload(lines[i].frame)
    /\ \A i, j \in DOMAIN lines : i < j => lines[i].frame < lines[j].frame
    /\ phase = "done" => \A k \in DOMAIN frames : IsKnown(k) => LineOf(k) # {}

(* A message that the Logger's buffer cut does no harm to what was sent    *)
(* before it: no frame in front of the first cut one is lost, printed      *)
(* twice, out of order or with another's bytes, whatever the decoder makes *)
(* of the rest; and a frame that the end of the data cuts is not printed   *)
(* (logger.rs:63, decode.rs:68).                                           *)
CutsSpareWhatPrecedes ==
  \A k \in DOMAIN frames :
    ~IsWhole(k) /\ (\A j \in 1 .. k - 1 : IsWhole(j)) =>
      /\ \A i \in DOMAIN lines :
           lines[i].frame < k => lines[i].payload = Payload(lines[i].frame)
      /\ \A i, j \in DOMAIN lines :
           i < j /\ lines[j].frame < k => lines[i].frame < lines[j].frame
      /\ phase \in {"done", "failed"} =>
           \A j \in 1 .. k - 1 : IsKnown(j) => LineOf(j) # {}
      /\ HasLength(k) /\ Start(k) + FrameLen(frames[k]) > Len(wire) =>
           \A i \in DOMAIN lines : lines[i].frame < k

(* "Truncate silently: the receiver will detect the short payload via the  *)
(* LEB128 length field and discard the event" (logger.rs:63): no line is   *)
(* made of a frame that was cut.                                           *)
CutMessagesAreDiscarded == \A i \in DOMAIN lines : IsWhole(lines[i].frame)

-----------------------------------------------------------------------------
(* Texts.                                                                  *)

FullText(c) == FlattenSeq(AllWrites(program[c].format))

FormatOf(k) == program[frames[k].call].format
Texts == {k \in DOMAIN frames : frames[k].what = "message"}

(* What an event's text leaves out is at its end, and nothing is left out  *)
(* of a text that fits (format_into stops at the first error).             *)
TextsBreakOffAtTheEnd ==
  \A k \in Texts :
    LET full == FullText(frames[k].call) IN
    /\ program[frames[k].call].via = "event" => IsPrefix(frames[k].text, full)
    /\ Len(full) <= BufSize => frames[k].text = full

(* Values that are written in several pieces of which each looks like a    *)
(* value: FourCC characters, zeros in front of a number, both halves of a  *)
(* ZfmtU64 without 64-bit arithmetic.                                      *)
IsPiecemeal(v, spec) ==
  \/ v.kind \in {"uint", "sint", "pair"} /\ spec.ty = "c"
  \/ v.kind \in {"uint", "sint", "pair"} /\ spec.zero /\ spec.align = ""
  \/ v.kind = "hash" /\ spec.align = ""
  \/ v.kind = "pair" /\ build.no64

IsDigit(c, base) ==
  \E i \in 1..base : c = Digit[i] \/ c = UpperDigit[i]

ShownBase(v, spec) ==
  CASE v.kind \in {"uint", "sint", "pair"} -> Base(spec.ty)
    [] v.kind = "hash" -> 16
    [] OTHER -> 10

(* The texts of a literal and a field that were cut in the field's text.   *)
CutFields ==
  {k \in Texts :
     /\ Len(FormatOf(k)) = 2
     /\ FormatOf(k)[1].kind = "literal"
     /\ FormatOf(k)[2].kind = "field"
     /\ Len(frames[k].text) > Len(FormatOf(k)[1].text)
     /\ Len(frames[k].text) < Len(FullText(frames[k].call))}

(* A text that the buffer cut does not show some of the digits of a number *)
(* as if they were all, but for values written piecemeal (write.rs:67).    *)
NumbersAreWhole ==
  \A k \in CutFields :
    LET field == FormatOf(k)[2]
        spec == MacroSpec(field.written)
        base == ShownBase(field.value, spec)
        full == FullText(frames[k].call)
        cut == Len(frames[k].text) IN
    IsPiecemeal(field.value, spec)
      \/ ~(IsDigit(full[cut], base) /\ IsDigit(full[cut + 1], base))

(* What a digit stands for.                                                *)
DigitValue(c) ==
  (CHOOSE i \in 1..16 : c \in {Digit[i], UpperDigit[i]}) - 1

\* The number that the digits of a text show.
ReadNumber(text, base) ==
  LET numbers[i \in 0 .. Len(text)] ==
        IF i = 0 THEN 0
        ELSE IF IsDigit(text[i], base)
             THEN base * numbers[i - 1] + DigitValue(text[i])
             ELSE numbers[i - 1] IN
  numbers[Len(text)]

(* The texts that are a field's, without padding, plus and prefix.         *)
PlainTexts ==
  {k \in Texts :
     /\ Len(FormatOf(k)) = 1
     /\ FormatOf(k)[1].kind = "field"
     /\ LET spec == MacroSpec(FormatOf(k)[1].written) IN
        spec.width = 0 /\ ~spec.alternate /\ ~spec.sign
     /\ frames[k].text = FullText(frames[k].call)}

(* The number that such a text shows is the value: an integer in the base  *)
(* of its type, a float rounded to the precision, as long as it is below   *)
(* 2^64 and has less than 20 decimal places (format.rs:218, 237).          *)
NumbersReadBack ==
  \A k \in PlainTexts :
    LET v == FormatOf(k)[1].value
        spec == MacroSpec(FormatOf(k)[1].written)
        text == frames[k].text
        precision == OrElse(spec.precision, 6) IN
    /\ v.kind \in {"uint", "sint"} /\ spec.ty # "c" =>
         ReadNumber(text, Base(spec.ty)) =
           IF spec.ty = "" THEN UnsignedAbs(v) ELSE v.bits
    /\ v.kind = "float" =>
         \/ v.units >= FracUnit * U64Max
         \/ precision >= FracBuffer
         \/ ReadNumber(text, 10) =
              (2 * v.units * Power(10, precision) + FracUnit) \div (2 * FracUnit)

-----------------------------------------------------------------------------
(* The host's text and the device's.                                       *)

SegmentText(s) ==
  IF s.kind = "literal" THEN s.text
  ELSE H!DisplaySpec(s.value, HostSpec(s.written))

HostText(c) ==
  FlattenSeq([i \in DOMAIN program[c].format |-> SegmentText(program[c].format[i])])

(* The values that both show alike when they are not padded.               *)
SameContent(v, spec) ==
  LET precision == OrElse(spec.precision, 6) IN
  CASE v.kind \in {"uint", "nonfinite", "bool", "str"} -> TRUE
    [] v.kind = "sint" -> v.size > 1 \/ ~IsNegative(v) \/ spec.ty \in {"", "c"}
    [] v.kind = "pair" -> spec.ty # "c"
    [] v.kind = "hash" -> FALSE
    [] v.kind = "float" ->
         /\ IF v.negative THEN v.units > 0 ELSE ~spec.sign
         /\ precision <= FracBuffer
         /\ spec.ty = "c" => precision = 6

(* The host pads numbers and strings whatever the alignment, and nothing   *)
(* else; the device pads everything, if there is an alignment.             *)
SamePadding(v, spec) ==
  LET devicePads == spec.align # "" \/ (v.kind \in {"uint", "sint", "pair"} /\ spec.zero)
      hostPads == v.kind \in {"uint", "sint", "pair", "str"}
      length == Len(FlattenSeq(Fmt(v, [spec EXCEPT !.width = 0], build.no64))) IN
  \/ spec.width <= length
  \/ v.kind \in {"uint", "sint"} /\ spec.ty = "c"
  \/ devicePads <=> (hostPads /\ ~(v.kind = "str" /\ spec.ty = "c"))

(* The segments that both show alike.  Without 64-bit arithmetic the       *)
(* device shows a ZfmtU64 in 16 hexadecimal digits.                        *)
IsShownAlike(s) ==
  s.kind = "field" =>
    LET spec == MacroSpec(s.written) IN
    /\ s.value.kind = "pair" => ~build.no64
    /\ SameContent(s.value, spec)
    /\ SamePadding(s.value, spec)

(* The lines of an event and of its text, of one call.                     *)
Pairs ==
  {p \in (DOMAIN lines) \X (DOMAIN lines) :
     LET e == frames[lines[p[1]].frame]
         m == frames[lines[p[2]].frame] IN
     e.what = "event" /\ m.what = "message" /\ e.call = m.call
       /\ m.text = FullText(e.call)}

(* What output-both sends twice is printed twice alike if all of its       *)
(* values are shown alike under their specs (SPEC.md:729: one format       *)
(* string controls the firmware's text and the host's).                    *)
TextsAgree ==
  \A p \in Pairs :
    LET c == frames[lines[p[1]].frame].call IN
    (\A i \in DOMAIN program[c].format : IsShownAlike(program[c].format[i])) =>
      HostText(c) = frames[lines[p[2]].frame].text

(* "Format strings are UTF-8 literals that control how event fields are    *)
(* rendered during firmware-side formatting and on the host decoder"       *)
(* (SPEC.md:729): both make the same text of an event.                     *)
OneFormatOneText ==
  \A p \in Pairs :
    HostText(frames[lines[p[1]].frame].call) = frames[lines[p[2]].frame].text
=============================================================================
