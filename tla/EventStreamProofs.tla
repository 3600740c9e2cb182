-------------------------- MODULE EventStreamProofs --------------------------
(***************************************************************************)
(* Proofs about EventStream, for every size of the sequence counter and    *)
(* any number of lost messages.                                            *)
(***************************************************************************)
EXTENDS EventStream, Integers, SequenceTheorems, TLAPS

-----------------------------------------------------------------------------
(* Arithmetic modulo the counter's size.                                   *)

LEMMA Division ==
  ASSUME NEW M \in Nat \ {0}, NEW x \in Nat
  PROVE  /\ x \div M \in Int
         /\ x % M \in 0 .. M - 1
         /\ x = M * (x \div M) + (x % M)
<1>1. x \div M \in Int
  OBVIOUS
<1>2. x % M \in 0 .. M - 1
  OBVIOUS
<1>3. x = M * (x \div M) + (x % M)
  OBVIOUS
<1> QED
  BY <1>1, <1>2, <1>3

LEMMA SmallMultiple ==
  ASSUME NEW M \in Nat \ {0}, NEW k \in Int, -M < M * k, M * k < M
  PROVE  k = 0
<1>1. ASSUME k >= 1
      PROVE  FALSE
  <2>1. M * k = M + M * (k - 1)
    OBVIOUS
  <2>2. M * (k - 1) >= 0
    BY <1>1
  <2> QED
    BY <2>1, <2>2
<1>2. ASSUME k <= -1
      PROVE  FALSE
  <2>1. M * k = M * (k + 1) - M
    OBVIOUS
  <2>2. M * (k + 1) <= 0
    BY <1>2
  <2> QED
    BY <2>1, <2>2
<1> QED
  BY <1>1, <1>2

LEMMA RemainderIsUnique ==
  ASSUME NEW M \in Nat \ {0}, NEW x \in Nat, NEW q \in Int, NEW r \in 0 .. M - 1,
         x = M * q + r
  PROVE  x % M = r
<1> DEFINE d == x \div M
           s == x % M
<1>1. d \in Int /\ s \in 0 .. M - 1 /\ x = M * d + s
  BY Division
<1> HIDE DEF d, s
<1>2. M * (d - q) = r - s
  <2>1. M * (d - q) = M * d - M * q
    BY <1>1
  <2> QED
    BY <1>1, <2>1
<1>3. d - q = 0
  BY <1>1, <1>2, SmallMultiple
<1>4. r = s
  BY <1>1, <1>3
<1> QED
  BY <1>4 DEF s

(* The number after the next one.                                          *)
LEMMA NextNumber ==
  ASSUME NEW M \in Nat \ {0}, NEW x \in Nat
  PROVE  ((x % M) + 1) % M = (x + 1) % M
<1> DEFINE q == x \div M
           z == x % M
           y == (x + 1) \div M
           r == (x + 1) % M
<1>1. q \in Int /\ z \in 0 .. M - 1 /\ x = M * q + z
  BY Division
<1>2. y \in Int /\ r \in 0 .. M - 1 /\ x + 1 = M * y + r
  BY Division
<1>3. z + 1 = M * (y - q) + r
  <2> HIDE DEF q, z, y, r
  <2>1. M * (y - q) = M * y - M * q
    BY <1>1, <1>2
  <2> QED
    BY <1>1, <1>2, <2>1
<1> HIDE DEF q, z, y, r
<1>4. z + 1 \in Nat /\ y - q \in Int
  BY <1>1, <1>2
<1>5. (z + 1) % M = r
  BY <1>2, <1>3, <1>4, RemainderIsUnique
<1> QED
  BY <1>5 DEF r, z

(* The distance from one number to another tells how many lie between,     *)
(* modulo the counter's size.                                              *)
LEMMA Distance ==
  ASSUME NEW M \in Nat \ {0}, NEW a \in 0 .. M, NEW l \in Nat
  PROVE  (((a + l) % M) + M - a) % M = l % M
<1> DEFINE q == (a + l) \div M
           s == (a + l) % M
           d == l \div M
           r == l % M
<1>1. q \in Int /\ s \in 0 .. M - 1 /\ a + l = M * q + s
  BY Division
<1>2. d \in Int /\ r \in 0 .. M - 1 /\ l = M * d + r
  BY Division
<1> HIDE DEF q, s, d, r
<1>3. s + M - a = M * (d + 1 - q) + r
  <2>1. M * (d + 1 - q) = M * d + M - M * q
    BY <1>1, <1>2
  <2> QED
    BY <1>1, <1>2, <2>1
<1>4. (s + M - a) % M = r
  <2>1. s + M - a \in Nat /\ d + 1 - q \in Int
    BY <1>1, <1>2
  <2> QED
    BY <1>2, <1>3, <2>1, RemainderIsUnique
<1> QED
  BY <1>4 DEF r, s

-----------------------------------------------------------------------------
(* Types.                                                                  *)

Number == 0 .. SeqMod - 1
Call == [seq : Number, left : 1 .. 2]

(* The provers take numbers, sequences and truth values one at a time.     *)
NumbersOK ==
  /\ counter \in Number
  /\ prev \in Number \cup {NoSeq}
  /\ said \in Number
  /\ lost \in 0 .. MaxLost
  /\ missed \in 0 .. MaxLost

CallsOK == calls \in Seq(Call)

FlagsOK ==
  /\ booting \in BOOLEAN
  /\ enabled \in BOOLEAN
  /\ rebooted \in BOOLEAN
  /\ across \in BOOLEAN
  /\ anchored \in BOOLEAN

LEMMA TypeParts == TypeOK <=> NumbersOK /\ CallsOK /\ FlagsOK
  BY DEF TypeOK, NumbersOK, CallsOK, FlagsOK, Call, Number

LEMMA ZeroIsNumber == 0 \in Number /\ 0 \in 0 .. MaxLost
  BY StreamAssumption DEF Number

LEMMA TypeInit == Init => NumbersOK /\ CallsOK /\ FlagsOK
<1> SUFFICES ASSUME Init
             PROVE  NumbersOK /\ CallsOK /\ FlagsOK
  OBVIOUS
<1>1. NumbersOK
  BY ZeroIsNumber DEF Init, NumbersOK
<1>2. <<>> \in Seq(Call)
  OBVIOUS
<1>3. CallsOK
  BY <1>2 DEF Init, CallsOK
<1>4. FlagsOK
  BY DEF Init, FlagsOK
<1> QED
  BY <1>1, <1>3, <1>4

(* The innermost call sends a message and may return.                      *)
LEMMA SentType ==
  ASSUME CallsOK, Sent
  PROVE  Top.seq \in Number /\ CallsOK'
<1> USE DEF CallsOK
<1> DEFINE rest == SubSeq(calls, 1, Len(calls) - 1)
           shorter == [Top EXCEPT !.left = @ - 1]
<1>1. calls # <<>>
  BY DEF Sent
<1>2. Len(calls) \in Nat \ {0}
  BY <1>1, EmptySeq, LenProperties
<1>3. Top \in Call
  BY <1>1, <1>2, ElementOfSeq DEF Top
<1>4. rest \in Seq(Call)
  BY <1>1, <1>2, SubSeqProperties
<1>5. CASE Top.left = 1
  BY <1>3, <1>4, <1>5 DEF Sent, Call
<1>6. CASE Top.left # 1
  <2>1. Top.left = 2
    BY <1>3, <1>6 DEF Call
  <2>2. shorter \in Call
    BY <1>3, <2>1 DEF Call
  <2>3. calls' = Append(rest, shorter)
    BY <1>6 DEF Sent
  <2> QED
    BY <1>3, <1>4, <2>2, <2>3, AppendProperties DEF Call
<1> QED
  BY <1>5, <1>6

LEMMA GapType ==
  ASSUME NumbersOK, NEW seq \in Number, Compares
  PROVE  Gap(seq) \in Number
<1>1. prev \in Number
  BY DEF NumbersOK, Compares
<1>2. seq + SeqMod - (prev + 1) \in Nat
  BY <1>1, StreamAssumption DEF Number
<1> QED
  BY <1>2, Division, StreamAssumption DEF Gap, Number

LEMMA TypeStep ==
  NumbersOK /\ CallsOK /\ FlagsOK /\ [Next]_vars => (NumbersOK /\ CallsOK /\ FlagsOK)'
<1> SUFFICES ASSUME NumbersOK, CallsOK, FlagsOK, [Next]_vars
             PROVE  NumbersOK' /\ CallsOK' /\ FlagsOK'
  OBVIOUS
<1> USE DEF device, decoder, history
<1>1. CASE SendStart
  <2>1. NumbersOK'
    BY <1>1, ZeroIsNumber DEF SendStart, ReceiveStart, NumbersOK
  <2>2. CallsOK'
    BY <1>1 DEF SendStart, CallsOK
  <2>3. (Version >= 2) \in BOOLEAN
    OBVIOUS
  <2>4. CASE ReceiveStart
    BY <1>1, <2>1, <2>2, <2>3, <2>4, Zenon DEF SendStart, ReceiveStart, FlagsOK
  <2>5. CASE ~ReceiveStart
    BY <1>1, <2>1, <2>2, <2>5, Zenon DEF SendStart, FlagsOK
  <2> QED
    BY <2>4, <2>5
<1>2. CASE BeginCall
  <2>1. (counter + 1) % SeqMod \in Number
    BY Division, StreamAssumption DEF NumbersOK, Number
  <2>2. NumbersOK'
    BY <1>2, <2>1, ZeroIsNumber DEF BeginCall, NumbersOK
  <2>3. [seq |-> counter, left |-> Messages] \in Call
    BY DEF Messages, Call, NumbersOK
  <2>4. CallsOK'
    BY <1>2, <2>3, AppendProperties DEF BeginCall, CallsOK
  <2>5. FlagsOK'
    BY <1>2 DEF BeginCall, FlagsOK
  <2> QED
    BY <2>2, <2>4, <2>5
<1>3. CASE Deliver
  <2>1. Top.seq \in Number /\ CallsOK' /\ UNCHANGED <<counter, booting>>
    BY <1>3, SentType DEF Deliver, Sent
  <2>2. ReceiveHeader(Top.seq)
    BY <1>3 DEF Deliver
  <2>3. said' \in Number
    BY <2>1, <2>2, GapType, ZeroIsNumber DEF ReceiveHeader
  <2>4. NumbersOK'
    BY <2>1, <2>2, <2>3, ZeroIsNumber DEF ReceiveHeader, NumbersOK
  <2>5. FlagsOK'
    BY <2>1, <2>2, Zenon DEF ReceiveHeader, Compares, FlagsOK
  <2> QED
    BY <2>1, <2>4, <2>5
<1>4. CASE Lose
  <2>1. CallsOK' /\ UNCHANGED <<counter, booting>>
    BY <1>4, SentType DEF Lose, Sent
  <2>2. lost' \in 0 .. MaxLost
    BY <1>4, StreamAssumption DEF Lose, NumbersOK
  <2>3. NumbersOK' /\ FlagsOK'
    BY <1>4, <2>1, <2>2 DEF Lose, NumbersOK, FlagsOK
  <2> QED
    BY <2>1, <2>3
<1>5. CASE Reboot
  <2>1. calls' \in Seq(Call)
    BY <1>5 DEF Reboot
  <2> QED
    BY <1>5, <2>1, ZeroIsNumber DEF Reboot, NumbersOK, CallsOK, FlagsOK
<1>6. CASE UNCHANGED vars
  BY <1>6 DEF vars, NumbersOK, CallsOK, FlagsOK
<1> QED
  BY <1>1, <1>2, <1>3, <1>4, <1>5, <1>6 DEF Next

(* A sequence number always fits the 24 bits of its header field, and so   *)
(* does the gap that the decoder computes (decode.rs:96-110).              *)
THEOREM StreamTypeCorrect == Spec => []TypeOK
  BY TypeInit, TypeStep, TypeParts, PTL DEF Spec

-----------------------------------------------------------------------------
(* Boots.  While a StreamStart of this boot has been received and a header *)
(* of the boot before it was the last one received, the decoder has no     *)
(* number to compare with.                                                 *)

BootInv ==
  /\ BootsAreSeparate
  /\ anchored => ~booting
  /\ anchored /\ rebooted => ~Compares

LEMMA BootStep == BootInv /\ [Next]_vars => BootInv'
<1> SUFFICES ASSUME BootInv, [Next]_vars
             PROVE  BootInv'
  OBVIOUS
<1> USE DEF BootInv, BootsAreSeparate, Compares, device, decoder, history
<1>1. CASE SendStart
  <2>1. CASE ReceiveStart
    <3>1. ~Compares'
      BY <2>1, StreamAssumption DEF ReceiveStart
    <3> QED
      BY <1>1, <2>1, <3>1, Zenon DEF SendStart, ReceiveStart
  <2>2. CASE ~ReceiveStart
    <3>1. booting' = FALSE /\ across' = across /\ Compares' = Compares /\ rebooted' = rebooted
      BY <1>1, <2>2 DEF SendStart
    <3>2. anchored' = (anchored /\ ~booting)
      BY <1>1, <2>2 DEF SendStart
    <3> HIDE DEF Compares
    <3> QED
      BY <3>1, <3>2, Zenon
  <2> QED
    BY <2>1, <2>2
<1>2. CASE BeginCall
  BY <1>2 DEF BeginCall
<1>3. CASE Deliver
  BY <1>3 DEF Deliver, Sent, ReceiveHeader
<1>4. CASE Lose
  BY <1>4 DEF Lose, Sent
<1>5. CASE Reboot
  BY <1>5 DEF Reboot
<1>6. CASE UNCHANGED vars
  BY <1>6 DEF vars
<1> QED
  BY <1>1, <1>2, <1>3, <1>4, <1>5, <1>6 DEF Next

(* The decoder compares the numbers of two boots only when it has missed   *)
(* the StreamStart of the later one (decode.rs:87-94).                     *)
THEOREM BootsStaySeparate == Spec => []BootsAreSeparate
<1>1. Init => BootInv
  BY DEF Init, BootInv, BootsAreSeparate, Compares
<1>2. BootInv => BootsAreSeparate
  BY DEF BootInv
<1> QED
  BY <1>1, <1>2, BootStep, PTL DEF Spec
-----------------------------------------------------------------------------
(* Gaps.  The number the next message carries is as far from the last one  *)
(* received as there are lost messages between, as long as calls do not    *)
(* nest, each sends one message, and the logger counts.                    *)

Sequential == Counting = TRUE /\ Both = FALSE /\ MaxDepth = 1

NextSeq == IF calls = <<>> THEN counter ELSE calls[1].seq

OneCall ==
  calls # <<>> =>
    /\ Len(calls) = 1
    /\ calls[1].left = 1
    /\ counter = (calls[1].seq + 1) % SeqMod

Tracked == Compares /\ ~rebooted => NextSeq = (prev + 1 + lost) % SeqMod

GapInv == OneCall /\ Tracked /\ GapIsExact

(* The only call in progress sends its only message, and the next call     *)
(* takes the number after it.                                              *)
LEMMA SentAlone ==
  ASSUME OneCall, Sent
  PROVE  /\ Top = calls[1] /\ Top.seq = NextSeq
         /\ calls' = <<>>
         /\ NextSeq' = (Top.seq + 1) % SeqMod
<1>1. calls # <<>> /\ Len(calls) = 1 /\ Top = calls[1] /\ Top.left = 1
  BY DEF OneCall, Sent, Top
<1>2. calls' = <<>> /\ counter' = counter
  BY <1>1 DEF Sent
<1> QED
  BY <1>1, <1>2 DEF NextSeq, OneCall

LEMMA GapStep ==
  ASSUME Sequential, NumbersOK, CallsOK, GapInv, [Next]_vars
  PROVE  GapInv'
<1> USE DEF GapInv, device, decoder, history
<1>1. CASE SendStart
  <2>1. OneCall' /\ NextSeq' = NextSeq
    BY <1>1 DEF SendStart, OneCall, NextSeq
  <2>2. CASE ReceiveStart
    <3>1. ~Compares'
      BY <2>2, StreamAssumption DEF ReceiveStart, Compares
    <3>2. said' = 0 /\ missed' = 0 /\ 0 % SeqMod = 0
      BY <2>2, StreamAssumption DEF ReceiveStart
    <3> QED
      BY <2>1, <3>1, <3>2 DEF Tracked, GapIsExact
  <2>3. CASE ~ReceiveStart
    <3>1. UNCHANGED <<decoder, lost, missed, rebooted, across>>
      BY <1>1, <2>3 DEF SendStart
    <3> QED
      BY <2>1, <3>1 DEF Tracked, Compares, GapIsExact
  <2> QED
    BY <2>2, <2>3
<1>2. CASE BeginCall
  <2>1. calls = <<>>
    <3>1. Len(calls) < 1 /\ Len(calls) \in Nat
      BY <1>2, LenProperties DEF BeginCall, Sequential, CallsOK
    <3> QED
      BY <3>1, EmptySeq DEF CallsOK
  <2>2. calls' = <<[seq |-> counter, left |-> 1]>>
    BY <1>2, <2>1 DEF BeginCall, Messages, Sequential
  <2>3. counter' = (counter + 1) % SeqMod /\ UNCHANGED <<decoder, history>>
    BY <1>2 DEF BeginCall, Sequential
  <2>4. OneCall' /\ NextSeq' = NextSeq
    BY <2>1, <2>2, <2>3 DEF OneCall, NextSeq
  <2> QED
    BY <2>3, <2>4 DEF Tracked, Compares, GapIsExact
<1>3. CASE Deliver
  <2> DEFINE seq == Top.seq
  <2>1. seq = NextSeq /\ calls' = <<>> /\ NextSeq' = (seq + 1) % SeqMod
    BY <1>3, SentAlone DEF Deliver
  <2>2. OneCall'
    BY <2>1 DEF OneCall
  <2>3. seq \in Number
    BY <1>3, SentType DEF Deliver
  <2>4. ReceiveHeader(seq)
    BY <1>3 DEF Deliver
  <2> HIDE DEF seq
  <2>5. Tracked'
    <3>1. (prev' = seq /\ lost' = 0) \/ ~Compares'
      BY <2>4 DEF ReceiveHeader, Compares
    <3>2. seq + 1 + 0 = seq + 1
      BY <2>3 DEF Number
    <3> QED
      BY <2>1, <3>1, <3>2 DEF Tracked
  <2>6. GapIsExact'
    <3>1. CASE ~Compares
      <4>1. said' = 0 /\ missed' = 0 /\ 0 % SeqMod = 0
        BY <2>4, <3>1, StreamAssumption DEF ReceiveHeader
      <4> QED
        BY <4>1 DEF GapIsExact
    <3>2. CASE Compares /\ rebooted
      BY <2>4, <3>2 DEF ReceiveHeader, GapIsExact
    <3>3. CASE Compares /\ ~rebooted
      <4>1. prev \in Number /\ lost \in Nat
        BY <3>3, StreamAssumption DEF Compares, NumbersOK
      <4>2. prev + 1 \in 0 .. SeqMod
        BY <4>1, StreamAssumption DEF Number
      <4>3. seq = ((prev + 1) + lost) % SeqMod
        BY <2>1, <3>3 DEF Tracked
      <4>4. Gap(seq) = lost % SeqMod
        BY <4>1, <4>2, <4>3, Distance, StreamAssumption DEF Gap
      <4> QED
        BY <2>4, <3>3, <4>4 DEF ReceiveHeader, GapIsExact
    <3> QED
      BY <3>1, <3>2, <3>3
  <2> QED
    BY <2>2, <2>5, <2>6
<1>4. CASE Lose
  <2>1. /\ calls' = <<>> /\ NextSeq' = (NextSeq + 1) % SeqMod
        /\ lost' = lost + 1 /\ UNCHANGED <<decoder, missed, rebooted, across>>
    BY <1>4, SentAlone DEF Lose
  <2>2. ASSUME Compares, ~rebooted
        PROVE  NextSeq' = (prev + 1 + lost') % SeqMod
    <3>1. prev + 1 + lost \in Nat /\ prev + 1 + lost' = (prev + 1 + lost) + 1
      BY <2>1, <2>2, StreamAssumption DEF Compares, NumbersOK, Number
    <3>2. NextSeq = (prev + 1 + lost) % SeqMod
      BY <2>2 DEF Tracked
    <3> QED
      BY <2>1, <3>1, <3>2, NextNumber, StreamAssumption
  <2> QED
    BY <2>1, <2>2 DEF OneCall, Tracked, Compares, GapIsExact
<1>5. CASE Reboot
  BY <1>5 DEF Reboot, OneCall, Tracked, GapIsExact
<1>6. CASE UNCHANGED vars
  BY <1>6 DEF vars, OneCall, NextSeq, Tracked, Compares, GapIsExact
<1> QED
  BY <1>1, <1>2, <1>3, <1>4, <1>5, <1>6 DEF Next

(* Where calls do not nest, each sends one message and the logger counts,  *)
(* the decoder reports exactly the events that were lost, up to the wrap   *)
(* of the counter and however many were lost (decode.rs:96-110).           *)
THEOREM GapsAreExact ==
  ASSUME Sequential
  PROVE  Spec => []GapIsExact
<1>1. Init => GapInv
  <2> SUFFICES ASSUME Init
               PROVE  GapInv
    OBVIOUS
  <2>1. 0 % SeqMod = 0
    BY StreamAssumption
  <2> QED
    BY <2>1 DEF Init, GapInv, OneCall, Tracked, Compares, GapIsExact
<1>2. (NumbersOK /\ CallsOK) /\ GapInv /\ [Next]_vars => GapInv'
  BY GapStep
<1>3. Spec => [](NumbersOK /\ CallsOK)
  BY TypeInit, TypeStep, PTL DEF Spec
<1>4. GapInv => GapIsExact
  BY DEF GapInv
<1> QED
  BY <1>1, <1>2, <1>3, <1>4, PTL DEF Spec
=============================================================================
