-------------------------- MODULE FrameCodecProofs --------------------------
(***************************************************************************)
(* Machine-checked proofs about FrameCodec, for every length of the frame  *)
(* and every width of the bytes: what is sent is decoded, an inverted bit  *)
(* spoils two bytes, and the checksum that the receiver computes over the  *)
(* decoded bytes depends on the last byte received only.                   *)
(***************************************************************************)
EXTENDS FrameCodec, WellFoundedInduction, TLAPS

(* The sum of a byte and of its high half, masked, is that of its halves.  *)
LEMMA MaskedSum ==
  ASSUME NEW c, NEW x
  PROVE  LowNibble(Xor(Xor(c, x), HighNibble(x))) = Xor(LowNibble(c), Halves(x))
<1>1. \A k : k \in LowNibble(Xor(Xor(c, x), HighNibble(x)))
               <=> k \in Xor(LowNibble(c), Halves(x))
  BY CodecAssumption DEF CodecAssumption, LowNibble, HighNibble, Halves, Xor
<1>2. QED
  BY <1>1

(* Combining two bytes combines their halves, and combining with the same  *)
(* byte twice changes nothing.                                             *)
LEMMA HalvesCancel ==
  ASSUME NEW x, NEW y
  PROVE  Xor(Halves(y), Halves(Xor(x, y))) = Halves(x)
<1>1. \A k : k \in Xor(Halves(y), Halves(Xor(x, y))) <=> k \in Halves(x)
  BY DEF LowNibble, HighNibble, Halves, Xor
<1>2. QED
  BY <1>1

(* A function on the positions of a frame.                                 *)
IsFrame(f) == f = [n \in Positions |-> f[n]]

(* A byte of the frame after unscrambleFrame().                            *)
Decoded(n) == IF n = 0 THEN received[0] ELSE Xor(received[n], received[n - 1])

(* What the two loops have done when their counter is i.  The sum of the   *)
(* decoded bytes so far is, in its low half, that of the last byte         *)
(* received so far: each byte before it was added twice.                   *)
IInv ==
  /\ phase \in {"copy", "unscramble", "checksum", "done"}
  /\ i \in 0 .. Last + 1
  /\ IsFrame(received) /\ IsFrame(frame)
  /\ phase = "copy" => frame = received
  /\ phase = "unscramble" =>
       /\ i >= 1
       /\ temp = received
       /\ \A n \in Positions : frame[n] = IF n < i THEN Decoded(n) ELSE received[n]
  /\ phase \in {"checksum", "done"} => \A n \in Positions : frame[n] = Decoded(n)
  /\ phase = "checksum" =>
       /\ i = 0 => checksum = {}
       /\ i > 0 => LowNibble(checksum) = Halves(received[i - 1])
  /\ ChecksumIsLastByte

(* One more byte in the sum.                                               *)
LEMMA ChecksumByteIInv == IInv /\ ChecksumByte => IInv'
<1> SUFFICES ASSUME IInv, ChecksumByte PROVE IInv'
  OBVIOUS
<1>1. i \in Positions /\ phase = "checksum" /\ i' = i + 1
      /\ UNCHANGED <<phase, frame, received>>
  BY CodecAssumption DEF CodecAssumption, ChecksumByte, IInv, Positions, link
<1>2. LowNibble(checksum') = Xor(LowNibble(checksum), Halves(frame[i]))
  BY MaskedSum DEF ChecksumByte
<1>3. LowNibble(checksum') = Halves(received[i])
  <2>1. CASE i = 0
    <3>1. LowNibble(checksum) = {} /\ frame[i] = received[i]
      BY <1>1, <2>1 DEF IInv, LowNibble, Decoded
    <3>2. QED
      BY <1>2, <3>1 DEF Xor
  <2>2. CASE i > 0
    <3>1. /\ LowNibble(checksum) = Halves(received[i - 1])
          /\ frame[i] = Xor(received[i], received[i - 1])
      BY <1>1, <2>2 DEF IInv, Decoded, Positions
    <3>2. QED
      BY <1>2, <3>1, HalvesCancel
  <2>3. QED
    BY <1>1, <2>1, <2>2 DEF Positions
<1>4. i' \in 1 .. Last + 1 /\ i' - 1 = i
  BY <1>1, CodecAssumption DEF CodecAssumption, Positions
<1>5. LowNibble(checksum') = Halves(received'[i' - 1])
  BY <1>1, <1>3, <1>4
<1>6. QED
  BY <1>1, <1>4, <1>5 DEF IInv, Decoded, ChecksumIsLastByte

(* Every other step of the two functions.                                  *)
LEMMA NextIInv == IInv /\ [Next]_vars => IInv'
<1> SUFFICES ASSUME IInv, [Next]_vars PROVE IInv'
  OBVIOUS
<1> USE CodecAssumption DEF CodecAssumption, Positions
<1>1. CASE CopyFrame
  <2>1. /\ phase' = "unscramble" /\ i' = 1
        /\ temp' = received /\ received' = received /\ frame' = received
    BY <1>1 DEF CopyFrame, IInv, link
  <2>2. \A n \in Positions : n < 1 => n = 0
    OBVIOUS
  <2>3. QED
    BY <2>1, <2>2 DEF IInv, Decoded, ChecksumIsLastByte
<1>2. CASE UnscrambleByte
  <2>1. /\ phase = "unscramble" /\ phase' = phase
        /\ i \in 1 .. Last /\ i' = i + 1
        /\ temp = received /\ temp' = temp /\ received' = received
    BY <1>2 DEF UnscrambleByte, IInv, link
  <2>2. frame' = [n \in Positions |-> IF n = i THEN Decoded(i) ELSE frame[n]]
    <3>1. DOMAIN frame = Positions
      BY DEF IInv, IsFrame
    <3>2. Decoded(i) = Xor(temp[i], temp[i - 1])
      BY <2>1 DEF Decoded
    <3>3. frame' = [frame EXCEPT ![i] = Xor(temp[i], temp[i - 1])]
      BY <1>2 DEF UnscrambleByte
    <3>4. QED
      BY <3>1, <3>2, <3>3
  <2>3. \A n \in Positions : frame'[n] = IF n < i + 1 THEN Decoded(n) ELSE received[n]
    BY <2>1, <2>2 DEF IInv
  <2>4. IsFrame(frame')
    BY <2>2 DEF IsFrame
  <2>5. QED
    BY <2>1, <2>3, <2>4 DEF IInv, Decoded, ChecksumIsLastByte
<1>3. CASE BeginChecksum
  BY <1>3 DEF BeginChecksum, IInv, link, Decoded, ChecksumIsLastByte
<1>4. CASE ChecksumByte
  BY <1>4, ChecksumByteIInv
<1>5. CASE EndChecksum
  <2>1. checksum' = Halves(received[Last]) /\ received' = received
    BY <1>5 DEF EndChecksum, IInv, link
  <2>2. QED
    BY <1>5, <2>1 DEF EndChecksum, IInv, link, Decoded, ChecksumIsLastByte
<1>6. CASE UNCHANGED vars
  BY <1>6 DEF vars, link, IInv, Decoded, ChecksumIsLastByte
<1>7. QED
  BY <1>1, <1>2, <1>3, <1>4, <1>5, <1>6 DEF Next

LEMMA IInvAlways == Spec => []IInv
<1>1. Init => IInv
  BY CodecAssumption DEF CodecAssumption, Init, IInv, IsFrame, Positions, ChecksumIsLastByte
<1>2. QED
  BY <1>1, NextIInv, PTL DEF Spec

(* The checksum of a frame is that of its last byte as it came in.         *)
THEOREM ChecksumSeesLastByte == Spec => []ChecksumIsLastByte
<1>1. IInv => ChecksumIsLastByte
  BY DEF IInv
<1>2. QED
  BY <1>1, IInvAlways, PTL

-----------------------------------------------------------------------------
(* The remote's two functions.  They are recursive: the proofs that they   *)
(* are what they seem to be look at the least number where they were not.  *)
LEMMA LeastElement ==
  ASSUME NEW T \in SUBSET Nat, T # {}
  PROVE  \E k \in T : \A j \in T : k <= j
<1>1. PICK k \in T : \A j \in T : ~(<<j, k>> \in OpToRel(<, Nat))
  BY NatLessThanWellFounded, WFMin, Zenon
<1>2. \A j \in T : ~(j < k)
  BY <1>1 DEF OpToRel
<1>3. QED
  BY <1>2

(* The bytes of g up to m, each combined with all before it.               *)
Running(c, g, m) ==
  c = [n \in 0 .. m |-> IF n = 0 THEN g[0] ELSE Xor(c[n - 1], g[n])]

LEMMA RunningExists == ASSUME NEW g PROVE \A m \in Nat : \E c : Running(c, g, m)
<1> DEFINE T == {m \in Nat : ~\E c : Running(c, g, m)}
<1> SUFFICES ASSUME T # {} PROVE FALSE
  OBVIOUS
<1>1. PICK m \in T : \A j \in T : m <= j
  BY LeastElement
<1>2. CASE m = 0
  <2>1. Running([n \in 0 .. 0 |-> g[0]], g, 0)
    BY DEF Running
  <2>2. QED
    BY <1>1, <1>2, <2>1
<1>3. CASE m # 0
  <2>1. m - 1 \in Nat /\ m - 1 \notin T
    BY <1>1, <1>3
  <2>2. PICK c : Running(c, g, m - 1)
    BY <2>1
  <2> DEFINE d == [n \in 0 .. m |-> IF n = m THEN Xor(c[m - 1], g[m]) ELSE c[n]]
  <2>3. ASSUME NEW n \in 0 .. m
        PROVE  d[n] = IF n = 0 THEN g[0] ELSE Xor(d[n - 1], g[n])
    <3>1. CASE n = m
      BY <1>3, <2>1, <3>1
    <3>2. CASE n # m
      <4>1. n \in 0 .. m - 1 /\ (n # 0 => n - 1 \in 0 .. m /\ n - 1 # m)
        BY <2>1, <3>2
      <4>2. c[n] = IF n = 0 THEN g[0] ELSE Xor(c[n - 1], g[n])
        BY <2>2, <4>1 DEF Running
      <4>3. QED
        BY <3>2, <4>1, <4>2
    <3>3. QED
      BY <3>1, <3>2
  <2>4. Running(d, g, m)
    BY <2>3 DEF Running
  <2>5. QED
    BY <1>1, <2>4
<1>4. QED
  BY <1>2, <1>3

(* What is sent: each byte combined with all before it.                    *)
LEMMA ScrambledIs ==
  ASSUME NEW p
  PROVE  Scrambled(p) =
           [n \in Positions |-> IF n = 0 THEN p[0] ELSE Xor(Scrambled(p)[n - 1], p[n])]
<1>1. Last \in Nat
  BY CodecAssumption DEF CodecAssumption
<1>2. \E c : c = [n \in Positions |-> IF n = 0 THEN p[0] ELSE Xor(c[n - 1], p[n])]
  BY <1>1, RunningExists DEF Running, Positions
<1>3. QED
  BY <1>2 DEF Scrambled

LEMMA ScrambledStep ==
  ASSUME NEW p, NEW n \in Positions
  PROVE  /\ Scrambled(p)[0] = p[0]
         /\ n # 0 => n - 1 \in Positions /\ Scrambled(p)[n] = Xor(Scrambled(p)[n - 1], p[n])
<1> DEFINE c == Scrambled(p)
<1>1. c = [k \in Positions |-> IF k = 0 THEN p[0] ELSE Xor(c[k - 1], p[k])]
  BY ScrambledIs
<1>2. 0 \in Positions /\ (n # 0 => n - 1 \in Positions)
  BY CodecAssumption DEF CodecAssumption, Positions
<1> HIDE DEF c
<1>3. c[0] = p[0] /\ (n # 0 => c[n] = Xor(c[n - 1], p[n]))
  BY <1>1, <1>2
<1>4. QED
  BY <1>2, <1>3 DEF c

(* What is sent is bytes.                                                  *)
LEMMA ScrambledType ==
  ASSUME NEW p \in Frames PROVE \A n \in Positions : Scrambled(p)[n] \in Bytes
<1> DEFINE T == {n \in Positions : Scrambled(p)[n] \notin Bytes}
<1> SUFFICES ASSUME T # {} PROVE FALSE
  OBVIOUS
<1>1. T \in SUBSET Nat
  BY CodecAssumption DEF CodecAssumption, Positions
<1>2. PICK n \in T : \A j \in T : n <= j
  BY <1>1, LeastElement
<1>3. p[n] \in Bytes /\ n \in Positions /\ n \in Nat
  BY <1>1, <1>2 DEF Frames
<1>4. CASE n = 0
  BY <1>2, <1>3, <1>4, ScrambledStep
<1>5. CASE n # 0
  <2>1. n - 1 \in Positions /\ n - 1 \notin T
    BY <1>2, <1>3, <1>5, ScrambledStep
  <2>2. Scrambled(p)[n - 1] \in Bytes
    BY <2>1
  <2>3. Scrambled(p)[n] = Xor(Scrambled(p)[n - 1], p[n])
    BY <1>3, <1>5, ScrambledStep
  <2>4. Scrambled(p)[n] \in Bytes
    BY <1>3, <2>2, <2>3 DEF Bytes, Xor
  <2>5. QED
    BY <1>2, <2>4
<1>6. QED
  BY <1>4, <1>5

LEMMA HalvesOfXor ==
  ASSUME NEW x, NEW y PROVE Halves(Xor(x, y)) = Xor(Halves(x), Halves(y))
<1>1. \A k : k \in Halves(Xor(x, y)) <=> k \in Xor(Halves(x), Halves(y))
  BY DEF LowNibble, HighNibble, Halves, Xor
<1>2. QED
  BY <1>1

(* The sum of what the remote says is that of the last byte it sends.      *)
LEMMA SumIsLast == ASSUME NEW p PROVE Sum(p) = Halves(Scrambled(p)[Last])
<1> DEFINE G(s) == s = [n \in Positions |-> IF n = 0 THEN Halves(p[0])
                                                     ELSE Xor(s[n - 1], Halves(p[n]))]
           g == [n \in Positions |-> Halves(p[n])]
           s0 == CHOOSE s : G(s)
<1>l. Last \in Nat /\ Last \in Positions /\ 0 \in Positions
  BY CodecAssumption DEF CodecAssumption, Positions
<1>1. \E s : Running(s, g, Last)
  BY <1>l, RunningExists
<1>2. \E s : G(s)
  <2>1. PICK s : Running(s, g, Last)
    BY <1>1
  <2>2. G(s)
    BY <2>1, <1>l DEF Running, Positions
  <2>3. QED
    BY <2>2
<1>3. G(s0)
  BY <1>2
<1>4. Sum(p) = s0[Last]
  BY DEF Sum
<1> HIDE DEF s0
<1>5. \A n \in Positions : s0[n] = Halves(Scrambled(p)[n])
  <2> DEFINE T == {n \in Positions : s0[n] # Halves(Scrambled(p)[n])}
  <2> SUFFICES ASSUME T # {} PROVE FALSE
    OBVIOUS
  <2>1. T \in SUBSET Nat
    BY CodecAssumption DEF CodecAssumption, Positions
  <2>2. PICK n \in T : \A j \in T : n <= j
    BY <2>1, LeastElement
  <2>3. n \in Positions /\ n \in Nat /\ s0[n] # Halves(Scrambled(p)[n])
    BY <2>1, <2>2
  <2>4. CASE n = 0
    BY <1>3, <1>l, <2>3, <2>4, ScrambledStep
  <2>5. CASE n # 0
    <3>1. n - 1 \in Positions /\ n - 1 \notin T
          /\ Scrambled(p)[n] = Xor(Scrambled(p)[n - 1], p[n])
      BY <2>2, <2>3, <2>5, ScrambledStep
    <3>2. s0[n - 1] = Halves(Scrambled(p)[n - 1])
      BY <3>1
    <3>3. s0[n] = Xor(s0[n - 1], Halves(p[n]))
      BY <1>3, <2>3, <2>5
    <3>4. s0[n] = Halves(Scrambled(p)[n])
      BY <3>1, <3>2, <3>3, HalvesOfXor
    <3>5. QED
      BY <2>3, <3>4
  <2>6. QED
    BY <2>4, <2>5
<1>6. QED
  BY <1>4, <1>5, <1>l

-----------------------------------------------------------------------------
(* The link does not change while the frame is decoded.                    *)
LinkInv ==
  /\ sent \in Sayable
  /\ flips \subseteq Positions \X Bits
  /\ received = [n \in Positions |-> Xor(Scrambled(sent)[n], FlipsOf(n))]

LEMMA LinkAlways == Spec => []LinkInv
<1>1. Init => LinkInv
  BY DEF Init, LinkInv, Bursts, FlipSets
<1>2. LinkInv /\ [Next]_vars => LinkInv'
  <2> SUFFICES ASSUME LinkInv, [Next]_vars PROVE LinkInv'
    OBVIOUS
  <2>1. UNCHANGED link
    BY DEF Next, CopyFrame, UnscrambleByte, BeginChecksum, ChecksumByte, EndChecksum, vars
  <2>2. QED
    BY <2>1 DEF link, LinkInv, FlipsOf
<1>3. QED
  BY <1>1, <1>2, PTL DEF Spec

(* Combining with the same byte twice changes nothing, nor does combining  *)
(* with none.                                                              *)
LEMMA XorCancels ==
  ASSUME NEW c, NEW d, NEW e, NEW f, NEW p, c = Xor(d, p)
  PROVE  Xor(Xor(Xor(c, e), Xor(d, f)), p) = Xor(e, f)
<1>1. \A k : k \in Xor(Xor(Xor(c, e), Xor(d, f)), p) <=> k \in Xor(e, f)
  BY DEF Xor
<1>2. QED
  BY <1>1

LEMMA XorWithSelf == ASSUME NEW e, NEW p PROVE Xor(Xor(p, e), p) = e
<1>1. \A k : k \in Xor(Xor(p, e), p) <=> k \in e
  BY DEF Xor
<1>2. QED
  BY <1>1

LEMMA XorEmpty == ASSUME NEW x, NEW y, Xor(x, y) = {} PROVE x = y
<1>1. \A k : k \in x <=> k \in y
  BY DEF Xor
<1>2. QED
  BY <1>1

LEMMA SpoiledBytes ==
  ASSUME IInv, LinkInv, phase = "done", NEW n \in Positions
  PROVE  Xor(frame[n], sent[n]) = IF n = 0 THEN FlipsOf(0) ELSE Xor(FlipsOf(n), FlipsOf(n - 1))
<1> DEFINE c == Scrambled(sent)
<1>1. frame[n] = Decoded(n)
  BY DEF IInv
<1>2. /\ received[n] = Xor(c[n], FlipsOf(n))
      /\ n # 0 => n - 1 \in Positions /\ received[n - 1] = Xor(c[n - 1], FlipsOf(n - 1))
  BY ScrambledStep DEF LinkInv
<1>3. c[0] = sent[0] /\ (n # 0 => c[n] = Xor(c[n - 1], sent[n]))
  BY ScrambledStep
<1> HIDE DEF c
<1>4. CASE n = 0
  BY <1>1, <1>2, <1>3, <1>4, XorWithSelf DEF Decoded
<1>5. CASE n # 0
  BY <1>1, <1>2, <1>3, <1>5, XorCancels DEF Decoded
<1>6. QED
  BY <1>4, <1>5

(* Wherever noise inverts bits, each spoils its own byte and the next, for *)
(* every length of a frame and any number of inverted bits.                *)
THEOREM FlipsSpoilTwo == Spec => []FlipSpoilsTwo
<1>1. IInv /\ LinkInv => FlipSpoilsTwo
  BY SpoiledBytes DEF FlipSpoilsTwo
<1>2. QED
  BY <1>1, IInvAlways, LinkAlways, PTL

(* A frame that noise left alone is decoded into what the remote said and  *)
(* accepted.                                                               *)
THEOREM SentIsAlwaysDecoded == Spec => []SentIsDecoded
<1>1. IInv /\ LinkInv => SentIsDecoded
  <2> SUFFICES ASSUME IInv, LinkInv, phase = "done", flips = {}
               PROVE  frame = sent /\ checksum = {}
    BY DEF SentIsDecoded, Accepted
  <2>1. \A n \in Positions : FlipsOf(n) = {} /\ FlipsOf(n - 1) = {} /\ FlipsOf(0) = {}
    BY DEF FlipsOf
  <2>2. \A n \in Positions : Xor(frame[n], sent[n]) = {}
    BY <2>1, SpoiledBytes DEF Xor
  <2>3. \A n \in Positions : frame[n] = sent[n]
    BY <2>2, XorEmpty
  <2>4. sent \in Frames /\ Sum(sent) = {}
    BY DEF LinkInv, Sayable
  <2>5. frame = sent
    BY <2>3, <2>4 DEF IInv, IsFrame, Frames
  <2>6. received[Last] = Scrambled(sent)[Last]
    BY <2>1, CodecAssumption DEF CodecAssumption, LinkInv, Positions, Xor
  <2>7. checksum = {}
    BY <2>4, <2>6, SumIsLast DEF IInv, ChecksumIsLastByte
  <2>8. QED
    BY <2>5, <2>7
<1>2. QED
  BY <1>1, IInvAlways, LinkAlways, PTL

(* Every variable keeps its type, and the checksum is half a byte.         *)
THEOREM TypeCorrect == Spec => []TypeOK
<1> USE CodecAssumption DEF CodecAssumption
<1>b. ASSUME NEW x \in Bytes, NEW y \in Bytes
      PROVE  Xor(x, y) \in Bytes /\ HighNibble(x) \in Bytes /\ LowNibble(x) \in Bytes
             /\ LowNibble(x) \subseteq 0 .. Nibble - 1
  <2>1. Xor(x, y) \in Bytes
    BY DEF Bytes, Xor
  <2>2. HighNibble(x) \in Bytes
    BY DEF Bytes, Bits, HighNibble
  <2>3. LowNibble(x) \in Bytes
    BY DEF Bytes, LowNibble
  <2>4. LowNibble(x) \subseteq 0 .. Nibble - 1
    <3>1. ASSUME NEW k \in LowNibble(x) PROVE k \in 0 .. Nibble - 1
      <4>1. k \in Bits /\ k < Nibble
        BY DEF Bytes, LowNibble
      <4>2. QED
        BY <4>1 DEF Bits
    <3>2. QED
      BY <3>1
  <2>5. QED
    BY <2>1, <2>2, <2>3, <2>4
<1>1. LinkInv => received \in Frames
  <2> SUFFICES ASSUME LinkInv PROVE received \in Frames
    OBVIOUS
  <2>1. \A n \in Positions : Scrambled(sent)[n] \in Bytes /\ FlipsOf(n) \in Bytes
    BY ScrambledType DEF LinkInv, Sayable, FlipsOf, Bytes
  <2>2. QED
    BY <2>1, <1>b DEF LinkInv, Frames
<1>2. Init /\ received \in Frames => TypeOK
  BY DEF Init, TypeOK, Frames, Bytes
<1>3. TypeOK /\ IInv /\ [Next]_vars => TypeOK'
  <2> SUFFICES ASSUME TypeOK, IInv, [Next]_vars PROVE TypeOK'
    OBVIOUS
  <2>1. CASE CopyFrame
    BY <2>1 DEF CopyFrame, TypeOK, link
  <2>2. CASE UnscrambleByte
    <3>1. i \in Positions /\ i - 1 \in Positions
      BY <2>2 DEF UnscrambleByte, IInv, Positions
    <3>2. Xor(temp[i], temp[i - 1]) \in Bytes
      BY <3>1, <1>b DEF TypeOK, Frames
    <3>3. frame' \in Frames
      BY <2>2, <3>2 DEF UnscrambleByte, TypeOK, Frames
    <3>4. QED
      BY <2>2, <3>1, <3>3 DEF UnscrambleByte, TypeOK, link, Positions
  <2>3. CASE BeginChecksum
    BY <2>3 DEF BeginChecksum, TypeOK, link, Bytes
  <2>4. CASE ChecksumByte
    <3>1. i \in Positions
      BY <2>4 DEF ChecksumByte, TypeOK, Positions
    <3>2. frame[i] \in Bytes /\ checksum \in Bytes
      BY <3>1 DEF TypeOK, Frames
    <3>3. Xor(Xor(checksum, frame[i]), HighNibble(frame[i])) \in Bytes
      BY <3>2, <1>b
    <3>4. QED
      BY <2>4, <3>1, <3>3 DEF ChecksumByte, TypeOK, link, Positions
  <2>5. CASE EndChecksum
    BY <2>5, <1>b DEF EndChecksum, TypeOK, link
  <2>6. CASE UNCHANGED vars
    BY <2>6 DEF vars, link, TypeOK
  <2>7. QED
    BY <2>1, <2>2, <2>3, <2>4, <2>5, <2>6 DEF Next
<1>4. QED
  BY <1>1, <1>2, <1>3, IInvAlways, LinkAlways, PTL DEF Spec

=============================================================================
