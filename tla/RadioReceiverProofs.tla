------------------------ MODULE RadioReceiverProofs ------------------------
(***************************************************************************)
(* Machine-checked proofs about RadioReceiver, for every length of a frame *)
(* and of the synchronisation pulses, and every noise.                     *)
(***************************************************************************)
EXTENDS RadioReceiver, SequenceTheorems, TLAPS

(* The counters of the capture.                                            *)
Counters ==
  /\ state \in 0 .. 3
  /\ bits \in 0 .. Bits
  /\ RoomForNextBit

(* stateChange() keeps them, whatever the gap and the level; the payload   *)
(* bit that would not fit any more is the one that ended the capture.      *)
LEMMA stateChangeCounters ==
  ASSUME NEW tm, NEW val, Counters, stateChange(tm, val)
  PROVE  Counters'
<1> USE TimingAssumption DEF TimingAssumption, Counters, RoomForNextBit
<1>1. CASE Synchronise(tm, val)
  BY <1>1 DEF Synchronise
<1>2. CASE Boundary(tm, val)
  BY <1>2 DEF Boundary
<1>3. CASE PayloadBit(tm, val)
  BY <1>3 DEF PayloadBit
<1>4. QED
  BY <1>1, <1>2, <1>3 DEF stateChange

(* So does half a bit of any level, with or without an edge.               *)
LEMMA SlotCounters ==
  ASSUME NEW val, Counters, Slot(val)
  PROVE  Counters'
<1>1. CASE Edge(val)
  BY <1>1, stateChangeCounters DEF Edge
<1>2. CASE NoEdge(val)
  BY <1>2 DEF NoEdge, Counters, RoomForNextBit
<1>3. CASE Unseen
  BY <1>3 DEF Unseen, receiver, Counters, RoomForNextBit
<1>4. QED
  BY <1>1, <1>2, <1>3 DEF Slot

(* The payload buffer is never written past its end.                       *)
THEOREM FrameWritesInBounds == Spec => []RoomForNextBit
<1>1. Init => Counters
  BY TimingAssumption DEF TimingAssumption, Init, Counters, RoomForNextBit
<1>2. Counters /\ [Next]_vars => Counters'
  <2> SUFFICES ASSUME Counters, [Next]_vars PROVE Counters'
    OBVIOUS
  <2>1. CASE Noise       BY <2>1, SlotCounters DEF Noise
  <2>2. CASE Transmit    BY <2>2, SlotCounters DEF Transmit
  <2>3. CASE Inverted    BY <2>3, SlotCounters DEF Inverted
  <2>4. CASE Spike       BY <2>4, stateChangeCounters DEF Spike
  <2>5. CASE Send \/ FallSilent \/ Hold \/ UNCHANGED vars
    BY <2>5 DEF Send, FallSilent, Hold, vars, receiver, Counters, RoomForNextBit
  <2>6. QED
    BY <2>1, <2>2, <2>3, <2>4, <2>5 DEF Next, Time
<1>3. QED
  BY <1>1, <1>2, PTL DEF Spec, Counters

-----------------------------------------------------------------------------
(* The types of the variables.  What a remote sends is levels.             *)
Levels == {0, 1}

LEMMA LevelType == ASSUME NEW n \in Nat, NEW l \in Levels PROVE Level(n, l) \in Seq(Levels)
  BY IsASeq DEF Level

LEMMA ManchesterType == ASSUME NEW p \in Payloads PROVE Manchester(p) \in Seq(Levels)
<1> USE TimingAssumption DEF TimingAssumption
<1>1. ASSUME NEW i \in 1 .. 2 * Bits
      PROVE  (IF i % 2 = 0 THEN p[i \div 2 - 1] ELSE 1 - p[i \div 2]) \in Levels
  <2>1. CASE i % 2 = 0
    <3>1. i \div 2 - 1 \in Positions
      BY <2>1 DEF Positions
    <3>2. QED
      BY <2>1, <3>1 DEF Payloads, Levels
  <2>2. CASE i % 2 # 0
    <3>1. i \div 2 \in Positions
      BY <2>2 DEF Positions
    <3>2. QED
      BY <2>2, <3>1 DEF Payloads, Levels
  <2>3. QED
    BY <2>1, <2>2
<1>2. 2 * Bits \in Nat
  OBVIOUS
<1>3. QED
  BY <1>1, <1>2, IsASeq DEF Manchester

LEMMA WaveformType == ASSUME NEW p \in Payloads PROVE Waveform(p) \in Seq(Levels)
<1>1. /\ Level(Sync, 1) \in Seq(Levels) /\ Level(Sync, 0) \in Seq(Levels)
      /\ Level(Soft, 1) \in Seq(Levels) /\ Manchester(p) \in Seq(Levels)
  BY LevelType, ManchesterType, TimingAssumption DEF TimingAssumption, Levels
<1>2. <<0>> \in Seq(Levels)
  BY DEF Levels
<1>3. QED
  BY <1>1, <1>2, ConcatProperties DEF Waveform

ReceiverTypes ==
  /\ state \in 0 .. 3 /\ halfway \in BOOLEAN /\ bits \in 0 .. Bits
  /\ frame \in Payloads

TInv == TypeOK /\ RoomForNextBit

(* stateChange() keeps the types,                                          *)
LEMMA stateChangeTypes ==
  ASSUME TInv, NEW tm, NEW val \in Levels, stateChange(tm, val)
  PROVE  ReceiverTypes'
<1> USE TimingAssumption
    DEF TimingAssumption, TInv, TypeOK, RoomForNextBit, ReceiverTypes, Levels
<1>1. CASE Synchronise(tm, val)
  BY <1>1 DEF Synchronise
<1>2. CASE Boundary(tm, val)
  BY <1>2 DEF Boundary
<1>3. CASE PayloadBit(tm, val)
  <2>1. bits \in Positions /\ bits' = bits + 1 /\ state' \in {0, 3}
    BY <1>3 DEF PayloadBit, Positions
  <2>2. frame' \in Payloads
    BY <1>3 DEF PayloadBit, Payloads
  <2>3. halfway' \in BOOLEAN
    BY <1>3 DEF PayloadBit
  <2>4. QED
    BY <2>1, <2>2, <2>3 DEF Positions
<1>4. QED
  BY <1>1, <1>2, <1>3 DEF stateChange

(* and half a bit of any level does.                                       *)
LEMMA SlotTypes ==
  ASSUME TInv, NEW val \in Levels, Slot(val)
  PROVE  /\ ReceiverTypes' /\ tcnt' \in 0 .. Overflow - 1 /\ busy' \in BOOLEAN
         /\ line' \in Levels /\ heard' \in BOOLEAN
<1> USE TimingAssumption DEF TimingAssumption
<1>0. line' \in Levels
  BY DEF Slot
<1>1. CASE Edge(val)
  <2>1. ReceiverTypes'
    BY <1>1, stateChangeTypes DEF Edge
  <2>2. busy' \in BOOLEAN /\ heard' \in BOOLEAN
    BY <1>1 DEF Edge, Process, TInv, TypeOK
  <2>3. QED
    BY <1>0, <1>1, <2>1, <2>2 DEF Edge
<1>2. CASE NoEdge(val)
  BY <1>0, <1>2 DEF NoEdge, TInv, TypeOK, ReceiverTypes
<1>3. CASE Unseen
  BY <1>0, <1>3 DEF Unseen, receiver, TInv, TypeOK, ReceiverTypes
<1>4. QED
  BY <1>1, <1>2, <1>3 DEF Slot

LEMMA TypeNext == TInv /\ [Next]_vars => TypeOK'
<1> SUFFICES ASSUME TInv, [Next]_vars PROVE TypeOK'
  OBVIOUS
<1>t. wave \in Seq(Levels) /\ sent \in Payloads /\ held \in BOOLEAN
      /\ capture \in {"none", "good", "stale"}
  BY DEF TInv, TypeOK, Levels
<1>h. wave # <<>> => Head(wave) \in Levels /\ 1 - Head(wave) \in Levels
                     /\ Tail(wave) \in Seq(Levels)
  BY <1>t, HeadTailProperties DEF Levels
<1> DEFINE Rest == /\ ReceiverTypes' /\ tcnt' \in 0 .. Overflow - 1
                   /\ busy' \in BOOLEAN /\ line' \in Levels /\ heard' \in BOOLEAN
<1>1. Rest /\ wave' \in Seq(Levels) /\ sent' \in Payloads /\ held' \in BOOLEAN
           /\ capture' \in {"none", "good", "stale"} => TypeOK'
  BY DEF TypeOK, ReceiverTypes, Levels
<1>2. UNCHANGED <<receiver, tcnt, busy, line, heard>> => Rest
  BY DEF receiver, TInv, TypeOK, ReceiverTypes, Levels
<1>3. CASE Noise
  BY <1>1, <1>3, <1>t, SlotTypes DEF Noise, Forget, remote, Levels
<1>4. CASE Transmit
  <2>1. Rest
    BY <1>4, <1>h, SlotTypes DEF Transmit
  <2>2. capture' \in {"none", "good", "stale"}
    BY <1>4, <1>t, Zenon DEF Transmit, Adjust
  <2>3. QED
    BY <1>1, <1>4, <1>t, <1>h, <2>1, <2>2 DEF Transmit
<1>5. CASE Inverted
  BY <1>1, <1>5, <1>t, <1>h, SlotTypes DEF Inverted, Forget
<1>6. CASE Spike
  <2>1. ReceiverTypes' /\ tcnt' = 0 /\ line' \in Levels
    BY <1>6, stateChangeTypes DEF Spike, TInv, TypeOK, Levels
  <2>2. busy' \in BOOLEAN /\ heard' \in BOOLEAN
    BY <1>6 DEF Spike, Process, TInv, TypeOK
  <2>3. QED
    BY <1>1, <1>6, <1>t, <2>1, <2>2, TimingAssumption
       DEF TimingAssumption, Spike, Forget, remote
<1>7. CASE Send
  <2>1. PICK p \in (IF held THEN {sent} ELSE Payloads) :
          sent' = p /\ wave' = Waveform(p) /\ heard' = (heard /\ p = sent)
    BY <1>7 DEF Send
  <2>2. p \in Payloads
    BY <2>1, <1>t
  <2>3. wave' \in Seq(Levels) /\ sent' \in Payloads
    BY <2>1, <2>2, WaveformType
  <2>4. Rest
    BY <1>7, <2>1 DEF Send, receiver, TInv, TypeOK, ReceiverTypes, Levels
  <2>5. QED
    BY <1>1, <1>7, <1>t, <2>3, <2>4 DEF Send
<1>8. CASE FallSilent
  BY <1>1, <1>2, <1>8, <1>t, EmptySeq DEF FallSilent, Forget
<1>9. CASE Hold
  BY <1>1, <1>2, <1>9, <1>t DEF Hold
<1>10. CASE UNCHANGED vars
  BY <1>1, <1>2, <1>10, <1>t DEF vars, remote
<1>11. QED
  BY <1>3, <1>4, <1>5, <1>6, <1>7, <1>8, <1>9, <1>10 DEF Next, Time

(* Every variable keeps its type: the buffer holds bits, the timer stays   *)
(* below its overflow, and what is left to send is levels.                 *)
THEOREM TypeCorrect == Spec => []TypeOK
<1>1. Init => TypeOK
  <2> SUFFICES ASSUME Init PROVE TypeOK
    OBVIOUS
  <2>1. [i \in Positions |-> 0] \in Payloads /\ 0 \in 0 .. Overflow - 1 /\ 0 \in 0 .. Bits
    BY TimingAssumption DEF TimingAssumption, Payloads
  <2>2. <<>> \in Seq({0, 1}) /\ 0 \in 0 .. 3
    BY EmptySeq
  <2>3. QED
    BY <2>1, <2>2, Zenon DEF Init, TypeOK
<1>2. QED
  BY <1>1, TypeNext, FrameWritesInBounds, PTL DEF Spec, TInv

-----------------------------------------------------------------------------
(* What a capture receives.  The end of the wave that is left to send is   *)
(* the payload: counted from the end, the two halves of each of its bits.  *)
HalvesLeft(w, p) ==
  \A k \in 1 .. Len(w) : \A b \in Positions :
    /\ Len(w) - k = 2 * (Bits - b)     => w[k] = 1 - p[b]
    /\ Len(w) - k = 2 * (Bits - b) - 1 => w[k] = p[b]

LEMMA ManchesterHalves ==
  ASSUME NEW p \in Payloads, NEW b \in Positions
  PROVE  /\ 2 * b + 1 \in 1 .. 2 * Bits /\ Manchester(p)[2 * b + 1] = 1 - p[b]
         /\ 2 * b + 2 \in 1 .. 2 * Bits /\ Manchester(p)[2 * b + 2] = p[b]
         /\ Len(Manchester(p)) = 2 * Bits
<1> USE TimingAssumption DEF TimingAssumption, Positions
<1>1. 2 * b + 1 \in 1 .. 2 * Bits /\ 2 * b + 2 \in 1 .. 2 * Bits
  OBVIOUS
<1>2. (2 * b + 1) % 2 = 1 /\ (2 * b + 1) \div 2 = b
  OBVIOUS
<1>3. (2 * b + 2) % 2 = 0 /\ (2 * b + 2) \div 2 - 1 = b
  OBVIOUS
<1>4. Len(Manchester(p)) = 2 * Bits
  BY DEF Manchester
<1>5. QED
  BY <1>1, <1>2, <1>3, <1>4 DEF Manchester

LEMMA WaveformHalves == ASSUME NEW p \in Payloads PROVE HalvesLeft(Waveform(p), p)
<1> DEFINE pre == Level(Sync, 1) \o Level(Sync, 0) \o Level(Sync, 1) \o Level(Sync, 0)
                    \o Level(Soft, 1) \o <<0>>
           n   == Len(pre)
           m   == Manchester(p)
<1>1. pre \in Seq(Levels)
  <2>1. /\ Level(Sync, 1) \in Seq(Levels) /\ Level(Sync, 0) \in Seq(Levels)
        /\ Level(Soft, 1) \in Seq(Levels)
    BY LevelType, TimingAssumption DEF TimingAssumption, Levels
  <2>2. <<0>> \in Seq(Levels)
    BY DEF Levels
  <2>3. QED
    BY <2>1, <2>2, ConcatProperties
<1>2. m \in Seq(Levels) /\ <<0>> \in Seq(Levels)
  BY ManchesterType DEF Levels
<1>3. n \in Nat
  BY <1>1, LenProperties
<1>4. Waveform(p) = (pre \o m) \o <<0>>
  BY DEF Waveform
<1> SUFFICES ASSUME NEW k \in 1 .. Len(Waveform(p)), NEW b \in Positions
             PROVE  /\ Len(Waveform(p)) - k = 2 * (Bits - b) => Waveform(p)[k] = 1 - p[b]
                    /\ Len(Waveform(p)) - k = 2 * (Bits - b) - 1 => Waveform(p)[k] = p[b]
  BY DEF HalvesLeft
<1> HIDE DEF pre, m, n
<1>5. Len(m) = 2 * Bits
  BY ManchesterHalves DEF m
<1>6. pre \o m \in Seq(Levels) /\ Len(pre \o m) = n + 2 * Bits
      /\ \A j \in 1 .. n + 2 * Bits : (pre \o m)[j] = IF j <= n THEN pre[j] ELSE m[j - n]
  BY <1>1, <1>2, <1>5, ConcatProperties DEF n
<1>7. Len(Waveform(p)) = n + 2 * Bits + 1
      /\ \A j \in 1 .. n + 2 * Bits + 1 :
           Waveform(p)[j] = IF j <= n + 2 * Bits THEN (pre \o m)[j]
                                                 ELSE <<0>>[j - (n + 2 * Bits)]
  BY <1>2, <1>4, <1>6, ConcatProperties
<1> USE TimingAssumption DEF TimingAssumption, Positions
<1>8. ASSUME NEW j \in 1 .. 2 * Bits PROVE Waveform(p)[n + j] = m[j]
  <2>1. n + j \in 1 .. n + 2 * Bits /\ ~(n + j <= n) /\ (n + j) - n = j
        /\ n + j \in 1 .. n + 2 * Bits + 1 /\ n + j <= n + 2 * Bits
    BY <1>3
  <2>2. Waveform(p)[n + j] = (pre \o m)[n + j]
    BY <1>7, <2>1
  <2>3. (pre \o m)[n + j] = m[(n + j) - n]
    BY <1>6, <2>1
  <2>4. QED
    BY <2>1, <2>2, <2>3
<1>9. CASE Len(Waveform(p)) - k = 2 * (Bits - b)
  <2>1. k = n + (2 * b + 1)
    BY <1>3, <1>7, <1>9
  <2>2. QED
    BY <1>8, <1>9, <2>1, <1>3, ManchesterHalves DEF m
<1>10. CASE Len(Waveform(p)) - k = 2 * (Bits - b) - 1
  <2>1. k = n + (2 * b + 2)
    BY <1>3, <1>7, <1>10
  <2>2. QED
    BY <1>8, <1>10, <2>1, <1>3, ManchesterHalves DEF m
<1>11. QED
  BY <1>9, <1>10

LEMMA TailHalves ==
  ASSUME NEW w \in Seq(Levels), w # <<>>, NEW p, HalvesLeft(w, p)
  PROVE  /\ HalvesLeft(Tail(w), p) /\ Len(Tail(w)) = Len(w) - 1 /\ Len(w) \in Nat \ {0}
         /\ Head(w) = w[1]
<1>1. Len(w) \in Nat \ {0}
  BY EmptySeq
<1>2. Len(Tail(w)) = Len(w) - 1 /\ \A k \in 1 .. Len(Tail(w)) : Tail(w)[k] = w[k + 1]
  BY HeadTailProperties
<1>3. HalvesLeft(Tail(w), p)
  <2> SUFFICES ASSUME NEW k \in 1 .. Len(Tail(w)), NEW b \in Positions
               PROVE  /\ Len(Tail(w)) - k = 2 * (Bits - b) => Tail(w)[k] = 1 - p[b]
                      /\ Len(Tail(w)) - k = 2 * (Bits - b) - 1 => Tail(w)[k] = p[b]
    BY DEF HalvesLeft
  <2>1. k + 1 \in 1 .. Len(w) /\ Len(w) - (k + 1) = Len(Tail(w)) - k
    BY <1>1, <1>2
  <2>2. QED
    BY <1>2, <2>1 DEF HalvesLeft
<1>4. QED
  BY <1>1, <1>2, <1>3

(* A capture that began with halfway reset: it is between two bits, or in  *)
(* the middle of one.  At a boundary without an edge the timer goes on.    *)
BetweenGood ==
  /\ Len(wave) = 2 * (Bits - bits) + 1
  /\ tcnt = 1 /\ ~halfway /\ line = Preceding(sent, bits)

InsideGood ==
  /\ Len(wave) = 2 * (Bits - bits)
  /\ line = 1 - sent[bits]
  /\ \/ tcnt = 1 /\ halfway
     \/ tcnt = 2 /\ ~halfway

Good ==
  /\ \A i \in 0 .. bits - 1 : frame[i] = sent[i]
  /\ BetweenGood \/ InsideGood

(* One that began with halfway set: the bit it takes at a boundary is the  *)
(* one that is still to come, if there is an edge.                         *)
BetweenStale ==
  /\ Len(wave) = 2 * (Bits - bits) + 1
  /\ tcnt = 1 /\ halfway /\ line = Preceding(sent, bits)

EarlyStale ==
  /\ bits > 0 /\ Len(wave) = 2 * (Bits - bits) + 2
  /\ tcnt = 1 /\ ~halfway
  /\ line = 1 - sent[bits - 1]
  /\ sent[bits - 1] = Preceding(sent, bits - 1)

InsideStale ==
  /\ Len(wave) = 2 * (Bits - bits)
  /\ line = 1 - sent[bits] /\ sent[bits] # Preceding(sent, bits)
  /\ tcnt = 2 /\ halfway

Stale ==
  /\ \A i \in 0 .. bits - 1 : frame[i] = 1 - Preceding(sent, i)
  /\ BetweenStale \/ EarlyStale \/ InsideStale

CaptureInv ==
  /\ HalvesLeft(wave, sent)
  /\ busy => state = 0
  /\ capture # "none" => state = 3
  /\ capture = "good" => Good
  /\ capture = "stale" => Stale

(* What an edge and its absence do to a capture.                           *)
LEMMA EdgeInCapture ==
  ASSUME TInv, CaptureInv, state = 3, Slot(Head(wave))
  PROVE  \/ /\ Head(wave) # line /\ line' = Head(wave) /\ tcnt' = 1
            /\ Boundary(tcnt, Head(wave)) \/ PayloadBit(tcnt, Head(wave))
         \/ /\ Head(wave) = line /\ line' = line
            /\ tcnt' = (IF tcnt + 1 = Overflow THEN 0 ELSE tcnt + 1)
            /\ state' = (IF tcnt + 1 = Overflow THEN 0 ELSE state)
            /\ UNCHANGED <<halfway, bits, frame>>
<1>1. ~busy
  BY DEF CaptureInv
<1>2. ~Synchronise(tcnt, Head(wave))
  BY DEF Synchronise
<1>3. QED
  BY <1>1, <1>2 DEF Slot, Edge, NoEdge, Unseen, stateChange

LEMMA PayloadBitDoes ==
  ASSUME TInv, state = 3, NEW tm, NEW val, PayloadBit(tm, val)
  PROVE  /\ bits \in Positions /\ bits' = bits + 1
         /\ state' = (IF bits + 1 = Bits THEN 0 ELSE 3)
         /\ \A i \in 0 .. bits : frame'[i] = IF i = bits THEN val ELSE frame[i]
         /\ tm = 1 => halfway /\ ~halfway'
         /\ tm # 1 => (halfway' <=> halfway)
<1>1. bits \in Positions
  BY TimingAssumption DEF TimingAssumption, TInv, TypeOK, RoomForNextBit, Positions
<1>2. \A i \in 0 .. bits : frame'[i] = IF i = bits THEN val ELSE frame[i]
  BY <1>1 DEF PayloadBit, TInv, TypeOK, Payloads, Positions
<1>3. /\ tm = 1 => halfway /\ ~halfway'
      /\ tm # 1 => (halfway' <=> halfway)
  BY Zenon DEF PayloadBit, inRange
<1>4. QED
  BY <1>1, <1>2, <1>3 DEF PayloadBit

(* The next half bit of the payload.                                       *)
LEMMA NextHalf ==
  ASSUME TInv, CaptureInv, wave # <<>>, NEW b \in Positions
  PROVE  /\ Len(wave) = 2 * (Bits - b) + 1 => Head(wave) = 1 - sent[b]
         /\ Len(wave) = 2 * (Bits - b)     => Head(wave) = sent[b]
         /\ sent[b] \in Levels /\ Preceding(sent, b) \in Levels
<1>1. Head(wave) = wave[1] /\ 1 \in 1 .. Len(wave)
  BY TailHalves DEF CaptureInv, TInv, TypeOK, Levels
<1>2. sent[b] \in Levels /\ Preceding(sent, b) \in Levels
  BY TimingAssumption
     DEF TimingAssumption, TInv, TypeOK, Payloads, Preceding, Positions, Levels
<1>3. /\ Len(wave) - 1 = 2 * (Bits - b)     => wave[1] = 1 - sent[b]
      /\ Len(wave) - 1 = 2 * (Bits - b) - 1 => wave[1] = sent[b]
  BY <1>1 DEF CaptureInv, HalvesLeft
<1>4. Len(wave) \in Int /\ b \in Int /\ Bits \in Int
  BY <1>1, TimingAssumption, TailHalves
     DEF TimingAssumption, Positions, CaptureInv, TInv, TypeOK, Levels
<1>5. QED
  BY <1>1, <1>2, <1>3, <1>4

LEMMA GoodStep ==
  ASSUME TInv, CaptureInv, capture = "good", Transmit
  PROVE  /\ FrameReceived => (\A i \in Positions : frame'[i] = sent[i]) /\ ~halfway'
         /\ state' = 3 => Good'
<1> DEFINE val == Head(wave)
<1>0. /\ state = 3 /\ wave # <<>> /\ Slot(val) /\ wave' = Tail(wave) /\ sent' = sent
      /\ Good
  BY DEF CaptureInv, Transmit
<1>1. bits \in Positions /\ bits < Bits /\ Bits \in Nat /\ Overflow > 3
  BY <1>0, TimingAssumption
     DEF TimingAssumption, TInv, TypeOK, RoomForNextBit, Positions
<1>2. Len(wave') = Len(wave) - 1 /\ Len(wave) \in Nat
  BY <1>0, TailHalves DEF CaptureInv, TInv, TypeOK, Levels
<1>3. CASE BetweenGood
  <2>1. val = 1 - sent[bits] /\ sent[bits] \in Levels /\ line \in Levels
        /\ line = Preceding(sent, bits)
    BY <1>0, <1>1, <1>3, NextHalf DEF BetweenGood
  <2>2. ~PayloadBit(tcnt, val)
    BY <1>3 DEF BetweenGood, PayloadBit, inRange
  <2>3. bits' = bits /\ frame' = frame /\ state' = 3 /\ line' = val
        /\ ((tcnt' = 1 /\ halfway') \/ (tcnt' = 2 /\ ~halfway'))
    <3>1. CASE val # line
      <4>1. Boundary(tcnt, val) /\ line' = val /\ tcnt' = 1
        BY <1>0, <3>1, <2>2, EdgeInCapture
      <4>2. halfway'
        BY <4>1, Zenon DEF Boundary
      <4>3. QED
        BY <1>0, <4>1, <4>2 DEF Boundary
    <3>2. CASE val = line
      <4>1. /\ line' = line /\ UNCHANGED <<halfway, bits, frame>>
            /\ tcnt' = 2 /\ state' = state
        BY <1>0, <1>1, <1>3, <3>2, EdgeInCapture DEF BetweenGood
      <4>2. ~halfway'
        BY <4>1, <1>3 DEF BetweenGood
      <4>3. QED
        BY <1>0, <3>2, <4>1, <4>2
    <3>3. QED
      BY <3>1, <3>2
  <2>4. ~FrameReceived
    BY <1>1, <2>3 DEF FrameReceived
  <2>5. InsideGood'
    <3>1. Len(wave') = 2 * (Bits - bits') /\ line' = 1 - sent'[bits']
      BY <1>0, <1>1, <1>2, <1>3, <2>1, <2>3 DEF BetweenGood, Positions
    <3>2. QED
      BY <2>3, <3>1, Zenon DEF InsideGood
  <2>6. QED
    BY <1>0, <2>3, <2>4, <2>5 DEF Good
<1>4. CASE InsideGood
  <2>1. val = sent[bits] /\ sent[bits] \in Levels /\ val # line
    BY <1>0, <1>1, <1>4, NextHalf DEF InsideGood, Levels
  <2>2. ~Boundary(tcnt, val)
    BY <1>4 DEF InsideGood, Boundary, inRange
  <2>3. PayloadBit(tcnt, val) /\ line' = val /\ tcnt' = 1
    BY <1>0, <2>1, <2>2, EdgeInCapture
  <2>4. bits' = bits + 1 /\ ~halfway'
        /\ \A i \in 0 .. bits : frame'[i] = IF i = bits THEN val ELSE frame[i]
    BY <1>0, <1>4, <2>3, PayloadBitDoes DEF InsideGood
  <2>5. \A i \in 0 .. bits : frame'[i] = sent[i]
    BY <1>0, <1>1, <2>1, <2>4 DEF Good, Positions
  <2>6. FrameReceived => \A i \in Positions : frame'[i] = sent[i]
    BY <1>1, <2>4, <2>5 DEF FrameReceived, Positions
  <2>7. BetweenGood'
    <3>1. Preceding(sent, bits + 1) = sent[bits]
      BY <1>1 DEF Preceding, Positions
    <3>2. Len(wave') = 2 * (Bits - bits') + 1
      BY <1>1, <1>2, <1>4, <2>4 DEF InsideGood, Positions
    <3>3. QED
      BY <1>0, <2>1, <2>3, <2>4, <3>1, <3>2 DEF BetweenGood, Preceding
  <2>8. \A i \in 0 .. bits' - 1 : frame'[i] = sent'[i]
    BY <1>0, <1>1, <2>4, <2>5 DEF Positions
  <2>9. QED
    BY <2>4, <2>6, <2>7, <2>8 DEF Good
<1>5. QED
  BY <1>0, <1>3, <1>4 DEF Good

LEMMA StaleStep ==
  ASSUME TInv, CaptureInv, capture = "stale", Transmit
  PROVE  /\ FrameReceived =>
              /\ \A i \in Positions : frame'[i] = 1 - Preceding(sent, i)
              /\ halfway' <=> sent[Bits - 1] # Preceding(sent, Bits - 1)
         /\ state' = 3 => Stale'
<1> DEFINE val == Head(wave)
           Taken(n) == \A i \in 0 .. n - 1 : frame'[i] = 1 - Preceding(sent, i)
<1>0. /\ state = 3 /\ wave # <<>> /\ Slot(val) /\ wave' = Tail(wave) /\ sent' = sent
      /\ Stale
  BY DEF CaptureInv, Transmit
<1>1. bits \in Positions /\ bits < Bits /\ Bits \in Nat /\ Overflow > 3
  BY <1>0, TimingAssumption
     DEF TimingAssumption, TInv, TypeOK, RoomForNextBit, Positions
<1>2. Len(wave') = Len(wave) - 1 /\ Len(wave) \in Nat
  BY <1>0, TailHalves DEF CaptureInv, TInv, TypeOK, Levels
<1>3. ASSUME PayloadBit(tcnt, val), val = 1 - Preceding(sent, bits)
      PROVE  /\ bits' = bits + 1 /\ Taken(bits + 1)
             /\ state' = (IF bits + 1 = Bits THEN 0 ELSE 3)
             /\ FrameReceived => bits = Bits - 1 /\ \A i \in Positions : frame'[i] = 1 - Preceding(sent, i)
  <2>1. bits' = bits + 1 /\ state' = (IF bits + 1 = Bits THEN 0 ELSE 3)
        /\ \A i \in 0 .. bits : frame'[i] = IF i = bits THEN val ELSE frame[i]
    BY <1>0, <1>3, PayloadBitDoes
  <2>2. Taken(bits + 1)
    BY <1>0, <1>1, <1>3, <2>1 DEF Stale, Positions
  <2>3. FrameReceived => bits = Bits - 1 /\ \A i \in Positions : frame'[i] = 1 - Preceding(sent, i)
    BY <1>1, <2>1, <2>2 DEF FrameReceived, Positions
  <2>4. QED
    BY <2>1, <2>2, <2>3
<1>4. ASSUME bits' = bits, frame' = frame
      PROVE  Taken(bits') /\ ~FrameReceived
  BY <1>0, <1>1, <1>4 DEF Stale, FrameReceived
<1>5. CASE BetweenStale
  <2>1. val = 1 - sent[bits] /\ sent[bits] \in Levels /\ line \in Levels
        /\ line = Preceding(sent, bits) /\ Len(wave') = 2 * (Bits - bits)
    BY <1>0, <1>1, <1>2, <1>5, NextHalf DEF BetweenStale, Positions
  <2>2. CASE val # line
    <3>1. ~Boundary(tcnt, val)
      BY <1>5 DEF BetweenStale, Boundary
    <3>2. PayloadBit(tcnt, val) /\ line' = val /\ tcnt' = 1
      BY <1>0, <2>2, <3>1, EdgeInCapture
    <3>3. ~halfway'
      BY <1>0, <1>5, <3>2, PayloadBitDoes DEF BetweenStale
    <3>4. sent[bits] = Preceding(sent, bits) /\ val = 1 - Preceding(sent, bits)
      BY <2>1, <2>2 DEF Levels
    <3>5. bits' = bits + 1 /\ Taken(bits') /\ bits' - 1 = bits /\ bits' > 0
      BY <1>1, <1>3, <3>2, <3>4 DEF Positions
    <3>6. EarlyStale'
      <4>1. /\ Len(wave') = 2 * (Bits - bits') + 2
            /\ line' = 1 - sent'[bits' - 1]
            /\ sent'[bits' - 1] = Preceding(sent', bits' - 1)
        BY <1>0, <1>1, <2>1, <3>2, <3>4, <3>5 DEF Positions, Preceding
      <4>2. QED
        BY <3>2, <3>3, <3>5, <4>1, Zenon DEF EarlyStale
    <3>7. QED
      BY <1>0, <1>3, <3>2, <3>3, <3>4, <3>5, <3>6 DEF Stale, Preceding
  <2>3. CASE val = line
    <3>1. /\ line' = line /\ UNCHANGED <<halfway, bits, frame>>
          /\ tcnt' = 2 /\ state' = state
      <4>1. tcnt = 1 /\ tcnt + 1 # Overflow
        BY <1>1, <1>5 DEF BetweenStale
      <4>2. QED
        BY <1>0, <2>3, <4>1, EdgeInCapture
    <3>2. halfway'
      BY <1>5, <3>1 DEF BetweenStale
    <3>3. sent[bits] # Preceding(sent, bits)
      BY <2>1, <2>3 DEF Levels
    <3>4. InsideStale'
      <4>1. /\ Len(wave') = 2 * (Bits - bits') /\ line' = 1 - sent'[bits']
            /\ sent'[bits'] # Preceding(sent', bits')
        BY <1>0, <2>1, <2>3, <3>1, <3>3 DEF Preceding
      <4>2. QED
        BY <3>1, <3>2, <4>1, Zenon DEF InsideStale
    <3>5. QED
      BY <1>0, <1>4, <3>1, <3>4 DEF Stale, Preceding
  <2>4. QED
    BY <2>2, <2>3
<1>6. CASE EarlyStale
  <2>1. bits - 1 \in Positions /\ Len(wave) = 2 * (Bits - (bits - 1))
    BY <1>1, <1>6 DEF EarlyStale, Positions
  <2>2. val = sent[bits - 1] /\ sent[bits - 1] \in Levels /\ val # line
    BY <1>0, <1>6, <2>1, NextHalf DEF EarlyStale, Levels
  <2>3. ~PayloadBit(tcnt, val)
    BY <1>6 DEF EarlyStale, PayloadBit, inRange
  <2>4. Boundary(tcnt, val) /\ line' = val /\ tcnt' = 1
    BY <1>0, <2>2, <2>3, EdgeInCapture
  <2>5. halfway' /\ UNCHANGED <<state, bits, frame>>
    BY <2>4, Zenon DEF Boundary
  <2>6. BetweenStale'
    <3>1. Len(wave') = 2 * (Bits - bits') + 1 /\ line' = Preceding(sent', bits')
      BY <1>0, <1>1, <1>2, <1>6, <2>1, <2>2, <2>4, <2>5
         DEF EarlyStale, Preceding, Positions
    <3>2. QED
      BY <2>4, <2>5, <3>1, Zenon DEF BetweenStale
  <2>7. QED
    BY <1>0, <1>4, <2>5, <2>6 DEF Stale, Preceding
<1>7. CASE InsideStale
  <2>1. val = sent[bits] /\ sent[bits] \in Levels /\ val # line
        /\ Preceding(sent, bits) \in Levels
    BY <1>0, <1>1, <1>7, NextHalf DEF InsideStale, Levels
  <2>2. ~Boundary(tcnt, val)
    BY <1>7 DEF InsideStale, Boundary, inRange
  <2>3. PayloadBit(tcnt, val) /\ line' = val /\ tcnt' = 1
    BY <1>0, <2>1, <2>2, EdgeInCapture
  <2>4. val = 1 - Preceding(sent, bits)
    BY <1>7, <2>1 DEF InsideStale, Levels
  <2>5. halfway'
    BY <1>0, <1>7, <2>3, PayloadBitDoes DEF InsideStale
  <2>6. bits' = bits + 1 /\ Taken(bits')
    BY <1>3, <2>3, <2>4
  <2>7. BetweenStale'
    <3>1. Len(wave') = 2 * (Bits - bits') + 1 /\ line' = Preceding(sent', bits')
      BY <1>0, <1>1, <1>2, <1>7, <2>1, <2>3, <2>6
         DEF InsideStale, Preceding, Positions
    <3>2. QED
      BY <2>3, <2>5, <3>1, Zenon DEF BetweenStale
  <2>8. FrameReceived => sent[Bits - 1] # Preceding(sent, Bits - 1)
    BY <1>3, <1>7, <2>3, <2>4 DEF InsideStale
  <2>9. QED
    BY <1>0, <1>3, <2>3, <2>4, <2>5, <2>6, <2>7, <2>8 DEF Stale, Preceding
<1>8. QED
  BY <1>0, <1>5, <1>6, <1>7 DEF Stale

(* The software sync of a frame begins a capture.                          *)
LEMMA SyncStep ==
  ASSUME TInv, CaptureInv, Transmit, state = 2, state' = 3, Len(wave) = PayloadLength
  PROVE  /\ halfway => Stale'
         /\ ~halfway => Good'
<1> DEFINE val == Head(wave)
<1>0. wave # <<>> /\ Slot(val) /\ wave' = Tail(wave) /\ sent' = sent
  BY DEF Transmit
<1>1. Len(wave') = 2 * Bits + 1
  BY <1>0, TailHalves, TimingAssumption
     DEF TimingAssumption, PayloadLength, CaptureInv, TInv, TypeOK, Levels
<1>2. Edge(val) /\ line' = val /\ tcnt' = 1
  BY <1>0 DEF Slot, Edge, NoEdge, Unseen, receiver
<1>3. Synchronise(tcnt, val)
  BY <1>2 DEF Edge, stateChange, Boundary, PayloadBit
<1>4. val = 0 /\ bits' = 0 /\ UNCHANGED <<halfway, frame>>
  BY <1>3 DEF Synchronise, SyncFound
<1>5. /\ Len(wave') = 2 * (Bits - bits') + 1 /\ line' = Preceding(sent', bits')
      /\ \A i \in 0 .. bits' - 1 : FALSE
  BY <1>1, <1>2, <1>4, TimingAssumption DEF TimingAssumption, Preceding
<1>6. halfway => BetweenStale'
  BY <1>2, <1>4, <1>5, Zenon DEF BetweenStale
<1>7. ~halfway => BetweenGood'
  BY <1>2, <1>4, <1>5, Zenon DEF BetweenGood
<1>8. QED
  BY <1>5, <1>6, <1>7 DEF Stale, Good

(* Whatever disturbs a capture ends it in the history.                     *)
LEMMA CaptureNext == TInv /\ CaptureInv /\ [Next]_vars => CaptureInv'
<1> SUFFICES ASSUME TInv, CaptureInv, [Next]_vars PROVE CaptureInv'
  OBVIOUS
<1>t. wave \in Seq(Levels) /\ sent \in Payloads
  BY DEF TInv, TypeOK, Levels
<1>e. HalvesLeft(<<>>, sent)
  BY DEF HalvesLeft
<1>b. ASSUME NEW tm, NEW val, stateChange(tm, val), Process, ~busy
      PROVE  busy' => state' = 0
  <2>1. FrameReceived => state' = 0
    <3>1. CASE Synchronise(tm, val)
      BY <3>1 DEF Synchronise, FrameReceived
    <3>2. CASE Boundary(tm, val)
      BY <3>2, TimingAssumption DEF TimingAssumption, Boundary, FrameReceived
    <3>3. CASE PayloadBit(tm, val)
      BY <3>3 DEF PayloadBit, FrameReceived
    <3>4. QED
      BY <1>b, <3>1, <3>2, <3>3 DEF stateChange
  <2>2. QED
    BY <1>b, <2>1 DEF Process
<1>s. ASSUME NEW val, Slot(val) PROVE busy' => state' = 0
  <2>1. CASE Edge(val)
    BY <2>1, <1>b DEF Edge
  <2>2. CASE NoEdge(val)
    BY <2>2 DEF NoEdge
  <2>3. CASE Unseen
    BY <2>3 DEF Unseen, receiver, CaptureInv
  <2>4. QED
    BY <1>s, <2>1, <2>2, <2>3 DEF Slot
<1>n. ASSUME HalvesLeft(wave', sent'), busy' => state' = 0, capture' = "none"
      PROVE  CaptureInv'
  BY <1>n DEF CaptureInv
<1>1. CASE Noise
  BY <1>1, <1>n, <1>s DEF Noise, Forget, remote, CaptureInv
<1>2. CASE Inverted
  BY <1>2, <1>n, <1>s, <1>t, TailHalves DEF Inverted, Forget, CaptureInv
<1>3. CASE Spike
  BY <1>3, <1>n, <1>b DEF Spike, Forget, remote, CaptureInv
<1>4. CASE FallSilent
  BY <1>4, <1>n, <1>e DEF FallSilent, Forget, receiver, CaptureInv
<1>5. CASE Transmit
  <2>1. HalvesLeft(wave', sent')
    BY <1>5, <1>t, TailHalves DEF Transmit, CaptureInv
  <2>2. busy' => state' = 0
    BY <1>5, <1>s DEF Transmit
  <2>3. CASE state = 2 /\ state' = 3 /\ Len(wave) = PayloadLength
    <3>1. capture' = IF halfway THEN "stale" ELSE "good"
      BY <1>5, <2>3, Zenon DEF Transmit, Adjust
    <3>2. QED
      BY <1>5, <2>1, <2>2, <2>3, <3>1, SyncStep DEF CaptureInv
  <2>4. CASE state' # 3
    <3>1. capture' = "none"
      BY <1>5, <2>4 DEF Transmit, Adjust
    <3>2. QED
      BY <2>1, <2>2, <3>1, <1>n
  <2>5. CASE state' = 3 /\ ~(state = 2 /\ Len(wave) = PayloadLength)
    <3>1. capture' = capture
      BY <1>5, <2>5 DEF Transmit, Adjust
    <3>2. QED
      BY <1>5, <2>1, <2>2, <2>5, <3>1, GoodStep, StaleStep DEF CaptureInv
  <2>6. QED
    BY <2>3, <2>4, <2>5
<1>6. CASE Send
  <2>1. PICK p \in (IF held THEN {sent} ELSE Payloads) : sent' = p /\ wave' = Waveform(p)
    BY <1>6 DEF Send
  <2>2. HalvesLeft(wave', sent')
    BY <2>1, <1>t, WaveformHalves
  <2>3. capture = "none"
    <3>1. wave = <<>> /\ Len(wave) = 0
      BY <1>6, EmptySeq DEF Send
    <3>2. bits \in 0 .. Bits /\ (state = 3 => bits < Bits) /\ Bits \in Nat
      BY TimingAssumption DEF TimingAssumption, TInv, TypeOK, RoomForNextBit
    <3>3. ~Good \/ state # 3
      BY <3>1, <3>2 DEF Good, BetweenGood, InsideGood
    <3>4. ~Stale \/ state # 3
      BY <3>1, <3>2 DEF Stale, BetweenStale, EarlyStale, InsideStale
    <3>5. QED
      BY <3>3, <3>4 DEF CaptureInv, TInv, TypeOK
  <2>4. QED
    BY <1>6, <1>n, <2>2, <2>3 DEF Send, receiver, CaptureInv
<1>7. CASE Hold \/ UNCHANGED vars
  <2>1. UNCHANGED <<receiver, tcnt, busy, line, wave, sent, capture>>
    BY <1>7 DEF Hold, vars, remote
  <2>2. QED
    BY <2>1 DEF receiver, CaptureInv, Good, BetweenGood, InsideGood, Stale, BetweenStale,
       EarlyStale, InsideStale, HalvesLeft, Preceding
<1>8. QED
  BY <1>1, <1>2, <1>3, <1>4, <1>5, <1>6, <1>7 DEF Next, Time

LEMMA CaptureAlways == Spec => [](TInv /\ CaptureInv)
<1>1. Init => CaptureInv
  BY DEF Init, CaptureInv, HalvesLeft
<1>2. QED
  BY <1>1, CaptureNext, TypeCorrect, FrameWritesInBounds, PTL DEF Spec, TInv

(* A frame whose software sync is found with halfway reset is received bit *)
(* by bit as it was sent, for every length of a frame.                     *)
THEOREM CaptureIsExact == Spec => GoodCaptureExact
<1>1. TInv /\ TInv' /\ CaptureInv /\ [Next]_vars
        => [Transmit /\ FrameReceived /\ capture = "good" => frame' = sent /\ ~halfway']_vars
  <2> SUFFICES ASSUME TInv, TInv', CaptureInv, Transmit, FrameReceived, capture = "good"
               PROVE  frame' = sent /\ ~halfway'
    OBVIOUS
  <2>1. (\A i \in Positions : frame'[i] = sent[i]) /\ ~halfway'
    BY GoodStep
  <2>2. frame' \in Payloads /\ sent \in Payloads
    BY DEF TInv, TypeOK
  <2>3. QED
    BY <2>1, <2>2 DEF Payloads
<1>2. QED
  BY <1>1, CaptureAlways, PTL DEF Spec, GoodCaptureExact

(* One whose software sync is found with halfway set is received shifted   *)
(* by a bit and inverted, for every length of a frame.                     *)
THEOREM StaleCaptureIsShifted == Spec => StaleCaptureShifted
<1>1. TInv /\ TInv' /\ CaptureInv /\ [Next]_vars
        => [Transmit /\ FrameReceived /\ capture = "stale" =>
              /\ \A i \in Positions : frame'[i] = 1 - Preceding(sent, i)
              /\ halfway' = (sent[Bits - 1] # Preceding(sent, Bits - 1))]_vars
  <2> SUFFICES ASSUME TInv, TInv', CaptureInv, Transmit, FrameReceived, capture = "stale"
               PROVE  /\ \A i \in Positions : frame'[i] = 1 - Preceding(sent, i)
                      /\ halfway' = (sent[Bits - 1] # Preceding(sent, Bits - 1))
    OBVIOUS
  <2>1. /\ \A i \in Positions : frame'[i] = 1 - Preceding(sent, i)
        /\ halfway' <=> sent[Bits - 1] # Preceding(sent, Bits - 1)
    BY StaleStep
  <2>2. halfway' \in BOOLEAN
    BY DEF TInv, TypeOK
  <2>3. QED
    BY <2>1, <2>2
<1>2. QED
  BY <1>1, CaptureAlways, PTL DEF Spec, StaleCaptureShifted

=============================================================================
