--------------------------- MODULE RadioReceiver ---------------------------
(***************************************************************************)
(* The radio front end of arduino_porte_garage.ino: stateChange(), called  *)
(* on every edge of the receiver pin, and the overflow of Timer 1, which   *)
(* measures the gaps between the edges.  Around them, what they listen to: *)
(* a remote that sends frames, and the disturbances a radio link has.      *)
(*                                                                         *)
(* Time advances by half a bit (604 us).  In that unit the hardware sync   *)
(* pulses last 4 (2416 us), the software sync 8 (4750 us) and Timer 1      *)
(* overflows at 54 (32.8 ms); the 150 us of tolerance of inRange() are     *)
(* within the rounding.                                                    *)
(***************************************************************************)
EXTENDS Integers, Sequences

CONSTANTS
  Bits,      (* length of a frame (56 in the program)                       *)
  Sync,      (* length of a hardware sync pulse                             *)
  Soft,      (* length of the software sync pulse                           *)
  Overflow   (* when Timer 1 overflows                                      *)

ASSUME TimingAssumption ==
  /\ Bits \in Nat \ {0}
  /\ Sync \in Nat /\ Soft \in Nat /\ Overflow \in Nat
  /\ 2 < Sync /\ Sync < Soft /\ Soft < Overflow

Positions == 0 .. Bits - 1
Payloads  == [Positions -> {0, 1}]

VARIABLES
  state,     (* 0 idle, 1 and 2 synchronising, 3 receiving the payload      *)
  halfway,   (* the last edge was the boundary between two bits             *)
  bits,      (* payload bits received                                       *)
  frame,     (* the payload buffer                                          *)
  tcnt,      (* Timer 1                                                     *)
  busy,      (* the interrupt is still busy saving what the frame changed   *)
  line,      (* level of the receiver pin                                   *)
  wave,      (* levels the remote has still to send                         *)
  sent,      (* the payload it is sending                                   *)
  held,      (* its button is held and the band is quiet                    *)
  capture,   (* history: how the present capture began (see Adjust)         *)
  heard      (* history: the payload being sent has been received exactly   *)

receiver == <<state, halfway, bits, frame>>
remote   == <<wave, sent, held>>
vars     == <<receiver, tcnt, busy, line, remote, capture, heard>>

-----------------------------------------------------------------------------
(* What a remote sends.  A bit is a level and its opposite, half a bit     *)
(* long each: low then high for 1, high then low for 0.                    *)
Level(n, l) == [i \in 1 .. n |-> l]

Manchester(p) ==
  [i \in 1 .. 2 * Bits |-> IF i % 2 = 0 THEN p[i \div 2 - 1] ELSE 1 - p[i \div 2]]

Waveform(p) ==
  Level(Sync, 1) \o Level(Sync, 0) \o Level(Sync, 1) \o Level(Sync, 0)
    \o Level(Soft, 1) \o <<0>> \o Manchester(p) \o <<0>>

(* The levels left when the software sync pulse has just ended.            *)
PayloadLength == 2 * Bits + 2

-----------------------------------------------------------------------------
Init ==
  /\ state = 0
  /\ halfway = FALSE
  /\ bits = 0
  /\ frame = [i \in Positions |-> 0]
  /\ tcnt = 0
  /\ busy = FALSE
  /\ line = 0
  /\ wave = <<>>
  /\ sent = [i \in Positions |-> 0]
  /\ held = FALSE
  /\ capture = "none"
  /\ heard = FALSE

(* The gaps that stateChange() recognises, in half bits.                   *)
inRange(tm, n) == tm = n

(* Cases 0, 1 and 2: a pulse of the right length and polarity moves on,    *)
(* anything else leaves the state as it is.                                *)
SyncFound(tm, val) ==
  \/ state = 0 /\ inRange(tm, Sync) /\ val = 0
  \/ state = 1 /\ inRange(tm, Sync) /\ val = 1
  \/ state = 2 /\ inRange(tm, Soft) /\ val = 0

(* Mutant: the bit counter keeps what an aborted capture left.              *)
SynchroniseKeepBits(tm, val) ==
  /\ state < 3
  /\ state' = IF SyncFound(tm, val) THEN state + 1 ELSE state
  /\ UNCHANGED <<bits, halfway, frame>>

Synchronise(tm, val) ==
  /\ state < 3
  /\ state' = IF SyncFound(tm, val) THEN state + 1 ELSE state
  /\ bits' = IF state = 2 /\ SyncFound(tm, val) THEN 0 ELSE bits
  /\ UNCHANGED <<halfway, frame>>

(* Case 3, the edge at the boundary of two bits.                           *)
Boundary(tm, val) ==
  /\ state = 3
  /\ inRange(tm, 1) /\ ~halfway
  /\ halfway' = TRUE
  /\ UNCHANGED <<state, bits, frame>>

(* Mutant: an edge that ends a whole bit is taken for half of one.          *)
PayloadBitAlwaysHalf(tm, val) ==
  /\ state = 3
  /\ inRange(tm, 1) => halfway
  /\ halfway' = ~halfway
  /\ frame' = [frame EXCEPT ![bits] = val]
  /\ bits' = bits + 1
  /\ state' = IF bits + 1 = Bits THEN 0 ELSE 3

(* Mutant: the flag survives the bit it announced.                          *)
PayloadBitStaysHalfway(tm, val) ==
  /\ state = 3
  /\ inRange(tm, 1) => halfway
  /\ frame' = [frame EXCEPT ![bits] = val]
  /\ bits' = bits + 1
  /\ state' = IF bits + 1 = Bits THEN 0 ELSE 3
  /\ UNCHANGED halfway

(* Mutant: the last bit does not end the capture.                           *)
PayloadBitNoEnd(tm, val) ==
  /\ state = 3
  /\ inRange(tm, 1) => halfway
  /\ halfway' = IF inRange(tm, 1) THEN FALSE ELSE halfway
  /\ frame' = [frame EXCEPT ![bits] = val]
  /\ bits' = bits + 1
  /\ state' = IF bits = Bits THEN 0 ELSE 3

(* Case 3, the edge in the middle of a bit.  Any gap that is not half a bit*)
(* counts as a whole one.  The last bit of the frame ends the capture.     *)
PayloadBit(tm, val) ==
  /\ state = 3
  /\ inRange(tm, 1) => halfway
  /\ halfway' = IF inRange(tm, 1) THEN FALSE ELSE halfway
  /\ frame' = [frame EXCEPT ![bits] = val]
  /\ bits' = bits + 1
  /\ state' = IF bits + 1 = Bits THEN 0 ELSE 3

stateChange(tm, val) ==
  Synchronise(tm, val) \/ Boundary(tm, val) \/ PayloadBit(tm, val)

(* The step completes a frame: isRepeatedFrame() and processFrame() follow.*)
FrameReceived == state = 3 /\ bits' = Bits /\ bits < Bits

(* processFrame() may write the EEPROM inside the interrupt, and then the  *)
(* edges of the next milliseconds are not seen.                            *)
Process == /\ busy' \in (IF FrameReceived THEN BOOLEAN ELSE {FALSE})
           /\ heard' = IF FrameReceived THEN frame' = sent ELSE heard

-----------------------------------------------------------------------------
(* History.  A capture that begins at the end of the software sync of a    *)
(* frame, and is not disturbed since, should receive that frame.           *)
Adjust == capture' =
  CASE state = 2 /\ state' = 3 /\ Len(wave) = PayloadLength ->
         IF halfway THEN "stale" ELSE "good"
    [] state' # 3 -> "none"
    [] OTHER      -> capture

Forget == capture' = "none"

(* An edge: the interrupt runs, and its last statement resets the timer.   *)
Edge(val) ==
  /\ val # line
  /\ ~busy
  /\ stateChange(tcnt, val)
  /\ Process
  /\ tcnt' = 1

(* No edge: the timer counts, and TIMER1_OVF_vect aborts the capture.      *)
NoEdge(val) ==
  /\ val = line
  /\ ~busy
  /\ tcnt' = IF tcnt + 1 = Overflow THEN 0 ELSE tcnt + 1
  /\ state' = IF tcnt + 1 = Overflow THEN 0 ELSE state
  /\ UNCHANGED <<halfway, bits, frame, busy, heard>>

(* The interrupt is busy: edges pass unseen.  stateChange() resets the     *)
(* timer when it returns, and the edge that waited then has no effect, as  *)
(* the state is 0 and the gap is none of the sync pulses'.                 *)
Unseen ==
  /\ busy
  /\ busy' \in BOOLEAN
  /\ tcnt' = 0
  /\ UNCHANGED <<receiver, heard>>

(* Half a bit goes by with the pin at the level val.                       *)
Slot(val) ==
  /\ line' = val
  /\ Edge(val) \/ NoEdge(val) \/ Unseen

-----------------------------------------------------------------------------
(* The band when nobody sends: any level.                                  *)
Noise ==
  /\ wave = <<>>
  /\ \E val \in {0, 1} : Slot(val)
  /\ held => line' = 0
  /\ Forget
  /\ UNCHANGED remote

Send ==
  /\ wave = <<>>
  /\ \E p \in (IF held THEN {sent} ELSE Payloads) :
       /\ sent' = p
       /\ wave' = Waveform(p)
       /\ heard' = (heard /\ p = sent)
  /\ UNCHANGED <<receiver, tcnt, busy, line, held, capture>>

Transmit ==
  /\ wave # <<>>
  /\ Slot(Head(wave))
  /\ wave' = Tail(wave)
  /\ Adjust
  /\ UNCHANGED <<sent, held>>

(* Disturbances: half a bit inverted, a spike too short for any range, and *)
(* a remote that falls silent in the middle of its frame.                  *)
Inverted ==
  /\ wave # <<>> /\ ~held
  /\ Slot(1 - Head(wave))
  /\ wave' = Tail(wave)
  /\ Forget
  /\ UNCHANGED <<sent, held>>

Spike ==
  /\ ~held /\ ~busy
  /\ line' = 1 - line
  /\ stateChange(tcnt, 1 - line)
  /\ Process
  /\ tcnt' = 0
  /\ Forget
  /\ UNCHANGED remote

FallSilent ==
  /\ wave # <<>> /\ ~held
  /\ wave' = <<>>
  /\ Forget
  /\ UNCHANGED <<receiver, tcnt, busy, line, sent, held, heard>>

(* From now on the remote repeats its frame over a quiet band.             *)
Hold ==
  /\ ~held /\ wave = <<>>
  /\ held' = TRUE
  /\ UNCHANGED <<receiver, tcnt, busy, line, wave, sent, capture, heard>>

Time == Noise \/ Transmit \/ Inverted
Next == Time \/ Send \/ Spike \/ FallSilent \/ Hold

Spec == Init /\ [][Next]_vars

(* Time goes on and no save lasts for ever; a remote whose button is held  *)
(* keeps sending.                                                          *)
FairSpec == Spec /\ WF_vars(Time /\ ~busy') /\ WF_vars(held /\ Send)

-----------------------------------------------------------------------------
(* The types of the variables.                                             *)
TypeOK ==
  /\ state \in 0 .. 3
  /\ halfway \in BOOLEAN
  /\ bits \in 0 .. Bits
  /\ frame \in Payloads
  /\ tcnt \in 0 .. Overflow - 1
  /\ busy \in BOOLEAN
  /\ line \in {0, 1}
  /\ wave \in Seq({0, 1})
  /\ sent \in Payloads
  /\ held \in BOOLEAN
  /\ capture \in {"none", "good", "stale"}
  /\ heard \in BOOLEAN

(* While a payload is received there is room for its next bit: frame[b] is *)
(* never written past its end, whatever the noise.                         *)
RoomForNextBit == state = 3 => bits < Bits

(* A frame whose software sync is found with halfway reset, and which is   *)
(* not disturbed from there on, is received bit by bit as it was sent, and *)
(* leaves halfway reset for the next one.                                  *)
GoodCaptureExact ==
  [][Transmit /\ FrameReceived /\ capture = "good" => frame' = sent /\ ~halfway']_vars

(* With halfway left set by an aborted capture, the edges are taken one    *)
(* half bit early: each bit received is the opposite of the one sent       *)
(* before it, and halfway is put right only by a frame whose last two bits *)
(* are equal.                                                              *)
Preceding(p, i) == IF i = 0 THEN 0 ELSE p[i - 1]

StaleCaptureShifted ==
  [][Transmit /\ FrameReceived /\ capture = "stale" =>
       /\ \A i \in Positions : frame'[i] = 1 - Preceding(sent, i)
       /\ halfway' = (sent[Bits - 1] # Preceding(sent, Bits - 1))]_vars

(* Whatever the receiver went through before, a remote whose button is     *)
(* held over a quiet band is heard, if its frame ends in two equal bits.   *)
HeldFrameHeard ==
  held /\ sent[Bits - 1] = Preceding(sent, Bits - 1) ~> heard

=============================================================================
