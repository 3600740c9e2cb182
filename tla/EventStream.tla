----------------------------- MODULE EventStream -----------------------------
(***************************************************************************)
(* Sequence numbers on the wire (SPEC.md sections 7.2 and 7.3): firmware   *)
(* numbers its events and sends [EventHeader, event] messages through a    *)
(* Logger (zfmt/src/macros.rs, output.rs, logger.rs), a transport loses    *)
(* some of them, the device reboots, and the host decoder annotates the    *)
(* gaps it sees (zfmt-host/src/decode.rs).                                 *)
(*                                                                         *)
(* A message is delivered whole and in order or not at all.  The decoder   *)
(* handles frames one after the other and looks at nothing else, so here   *)
(* it handles a message when that is sent.                                 *)
(***************************************************************************)
EXTENDS Naturals, Sequences

CONSTANTS
  SeqMod,    \* 2^24 in the code: EventHeader.seq has 24 bits
  Counting,  \* the Logger overrides next_seq (FlatAdapter does not)
  Both,      \* the crate is built with the feature output-both
  Version,   \* StreamStart.protocol_version
  MaxDepth,  \* how deep logging calls nest
  MaxLost,   \* bound: messages lost in a row
  NoSeq      \* the decoder has seen no EventHeader

ASSUME StreamAssumption ==
  /\ SeqMod \in Nat \ {0}
  /\ Counting \in BOOLEAN
  /\ Both \in BOOLEAN
  /\ Version \in {1, 2}
  /\ MaxDepth \in Nat \ {0}
  /\ MaxLost \in Nat
  /\ NoSeq \notin Nat

VARIABLES
  counter,   \* what the Logger's next_seq returns next
  calls,     \* the logging calls in progress, the innermost last
  booting,   \* StreamStart has not been sent since the device booted
  enabled,   \* decoder: seq_enabled
  prev,      \* decoder: prev_seq
  said,      \* decoder: the gap printed at the last header, 0 if none
  lost,      \* history: events lost since the last frame was received
  missed,    \* history: events lost before the last header, if compared
  rebooted,  \* history: the device rebooted since the last header received
  across,    \* history: the last header was compared with one of another boot
  anchored   \* history: the StreamStart of this boot was received

device == <<counter, calls, booting>>
decoder == <<enabled, prev, said>>
history == <<lost, missed, rebooted, across, anchored>>
vars == <<device, decoder, history>>

Init ==
  /\ counter = 0
  /\ calls = <<>>
  /\ booting = TRUE
  /\ enabled \in BOOLEAN        \* zfmt decode --protocol-version
  /\ prev = NoSeq
  /\ said = 0
  /\ lost = 0
  /\ missed = 0
  /\ rebooted = FALSE
  /\ across = FALSE
  /\ anchored = FALSE

-----------------------------------------------------------------------------
(* The decoder.                                                            *)

Compares == enabled /\ prev # NoSeq

(* Mutant: the distance between the two numbers.                           *)
GapInclusive(seq) == (seq + SeqMod - prev) % SeqMod

(* The events dropped between prev and seq; 0 is not printed.              *)
Gap(seq) == (seq + SeqMod - (prev + 1)) % SeqMod

ReceiveHeader(seq) ==
  /\ said' = IF Compares THEN Gap(seq) ELSE 0
  /\ prev' = IF enabled THEN seq ELSE prev
  /\ missed' = IF Compares THEN lost ELSE 0
  /\ across' = (Compares /\ rebooted)
  /\ lost' = 0
  /\ rebooted' = FALSE
  /\ UNCHANGED <<enabled, anchored>>

(* Mutant: a new stream keeps the sequence number of the old one.          *)
ReceiveStartKeepsSeq ==
  /\ enabled' = (Version >= 2)
  /\ UNCHANGED prev
  /\ said' = 0
  /\ missed' = 0
  /\ lost' = 0
  /\ across' = FALSE
  /\ anchored' = TRUE
  /\ UNCHANGED rebooted

ReceiveStart ==
  /\ enabled' = (Version >= 2)
  /\ prev' = IF Version >= 2 THEN NoSeq ELSE prev
  /\ said' = 0
  /\ missed' = 0
  /\ lost' = 0
  /\ across' = FALSE
  /\ anchored' = TRUE
  /\ UNCHANGED rebooted

-----------------------------------------------------------------------------
(* The device.                                                             *)

(* log_bare_event!(logger, StreamStart ...), at boot and whenever the      *)
(* application chooses to repeat it.                                       *)
SendStart ==
  /\ calls = <<>>
  /\ booting' = FALSE
  /\ \/ ReceiveStart
     \/ /\ anchored' = (anchored /\ ~booting)
        /\ UNCHANGED <<decoder, lost, missed, rebooted, across>>
  /\ UNCHANGED <<counter, calls>>

(* The messages of one call: output-both sends the event, and its text as  *)
(* a DebugMessage, under the same header.                                  *)
Messages == IF Both THEN 2 ELSE 1

(* Mutant: the counter is not masked to the bits of EventHeader.seq.       *)
BeginCallUnmasked ==
  /\ ~booting
  /\ Len(calls) < MaxDepth
  /\ calls' = Append(calls, [seq |-> counter, left |-> Messages])
  /\ counter' = IF Counting THEN counter + 1 ELSE 0
  /\ UNCHANGED <<booting, decoder, history>>

(* log_event! takes the sequence number, then evaluates the event, which   *)
(* may itself log, or the call may be interrupted by one that logs.        *)
BeginCall ==
  /\ ~booting
  /\ Len(calls) < MaxDepth
  /\ calls' = Append(calls, [seq |-> counter, left |-> Messages])
  /\ counter' = IF Counting THEN (counter + 1) % SeqMod ELSE 0
  /\ UNCHANGED <<booting, decoder, history>>

Top == calls[Len(calls)]

(* send_vectored, by the innermost call; the call returns after its last.  *)
Sent ==
  LET rest == SubSeq(calls, 1, Len(calls) - 1) IN
  /\ calls # <<>>
  /\ calls' = IF Top.left = 1 THEN rest
              ELSE Append(rest, [Top EXCEPT !.left = @ - 1])
  /\ UNCHANGED <<counter, booting>>

Deliver ==
  /\ Sent
  /\ ReceiveHeader(Top.seq)

Lose ==
  /\ lost < MaxLost
  /\ Sent
  /\ lost' = lost + 1
  /\ UNCHANGED <<decoder, missed, rebooted, across, anchored>>

Reboot ==
  /\ counter' = 0
  /\ calls' = <<>>
  /\ booting' = TRUE
  /\ rebooted' = TRUE
  /\ anchored' = FALSE
  /\ UNCHANGED <<decoder, lost, missed, across>>

Next == SendStart \/ BeginCall \/ Deliver \/ Lose \/ Reboot

Spec == Init /\ [][Next]_vars

-----------------------------------------------------------------------------
(* Properties.                                                             *)

(* Every variable stays in its range: a sequence number has 24 bits.       *)
TypeOK ==
  /\ counter \in 0 .. SeqMod - 1
  /\ calls \in Seq([seq : 0 .. SeqMod - 1, left : 1 .. 2])
  /\ booting \in BOOLEAN
  /\ enabled \in BOOLEAN
  /\ prev \in (0 .. SeqMod - 1) \cup {NoSeq}
  /\ said \in 0 .. SeqMod - 1
  /\ lost \in 0 .. MaxLost
  /\ missed \in 0 .. MaxLost
  /\ rebooted \in BOOLEAN
  /\ across \in BOOLEAN
  /\ anchored \in BOOLEAN

(* Between two headers of one boot the decoder reports as many dropped     *)
(* events as were lost, up to the wrap of the 24-bit counter, whatever     *)
(* StreamStarts were lost or repeated meanwhile (decode.rs:98-108).        *)
GapIsExact == ~across => said = missed % SeqMod

(* The decoder compares sequence numbers of two boots only when it has not *)
(* received the StreamStart of the later one (decode.rs:87-94).            *)
BootsAreSeparate == across => ~anchored

(* SPEC.md:479-480: a gap indicates that events were dropped before it.    *)
GapsAreDrops == ~across /\ said # 0 => missed # 0
=============================================================================
