----------------------------- MODULE FrameCodec -----------------------------
(***************************************************************************)
(* How arduino_porte_garage.ino decodes the frame it has received: one call*)
(* of unscrambleFrame() and one of calculateChecksum(), loop by loop.  The *)
(* remote that scrambled the frame and the noise that inverted some of its *)
(* bits are around it.  A byte is the set of the numbers of its 1 bits.    *)
(***************************************************************************)
EXTENDS Integers, FiniteSets

CONSTANTS
  Last,      (* number of the last byte of a frame (6)                      *)
  Nibble,    (* bits of half a byte (4)                                     *)
  MaxFlips   (* bound: bits that noise inverts                              *)

ASSUME CodecAssumption ==
  /\ Last \in Nat \ {0}
  /\ Nibble \in Nat \ {0}
  /\ MaxFlips \in Nat

Positions == 0 .. Last
Bits      == 0 .. 2 * Nibble - 1
Bytes     == SUBSET Bits
Frames    == [Positions -> Bytes]

VARIABLES
  phase,     (* "copy", "unscramble", "checksum" or "done"                  *)
  frame,     (* the payload buffer, decoded in place                        *)
  temp,      (* unscrambleFrame's copy of it                                *)
  i,         (* the counter of the loop                                     *)
  checksum,
  sent,      (* what the remote had to say                                  *)
  flips,     (* the bits that noise inverted: pairs of a byte and a bit     *)
  received   (* history: the frame as it came in                            *)

link == <<sent, flips, received>>
vars == <<phase, frame, temp, i, checksum, link>>

-----------------------------------------------------------------------------
Xor(x, y)     == (x \ y) \cup (y \ x)
LowNibble(x)  == {k \in x : k < Nibble}
HighNibble(x) == {k \in 0 .. Nibble - 1 : k + Nibble \in x}
Halves(x)     == Xor(LowNibble(x), HighNibble(x))

(* The remote: the nibbles of what it says cancel out, and every byte after*)
(* the first goes out combined with the one that went before it.           *)
Sum(p) == LET s[n \in Positions] == IF n = 0 THEN Halves(p[0]) ELSE Xor(s[n - 1], Halves(p[n]))
          IN  s[Last]

Sayable == {p \in Frames : Sum(p) = {}}

Scrambled(p) ==
  LET c[n \in Positions] == IF n = 0 THEN p[0] ELSE Xor(c[n - 1], p[n])
  IN  c

(* Noise.                                                                  *)
FlipsOf(n)   == {k \in Bits : <<n, k>> \in flips}
FlipSets     == {{}} \cup {{x, y} : x, y \in Positions \X Bits}
Bursts       == {s \in FlipSets : Cardinality(s) <= MaxFlips}

Init ==
  /\ sent \in Sayable
  /\ flips \in Bursts
  /\ received = [n \in Positions |-> Xor(Scrambled(sent)[n], FlipsOf(n))]
  /\ frame = received
  /\ temp = [n \in Positions |-> {}]
  /\ phase = "copy"
  /\ i = 0
  /\ checksum = {}

-----------------------------------------------------------------------------
(* unscrambleFrame().                                                      *)
CopyFrame ==
  /\ phase = "copy"
  /\ temp' = frame
  /\ phase' = "unscramble"
  /\ i' = 1
  /\ UNCHANGED <<frame, checksum, link>>

(* Mutant: the byte before is taken from the buffer, decoded already.       *)
UnscrambleByteInPlace ==
  /\ phase = "unscramble" /\ i <= Last
  /\ frame' = [frame EXCEPT ![i] = Xor(temp[i], frame[i - 1])]
  /\ i' = i + 1
  /\ UNCHANGED <<phase, temp, checksum, link>>

UnscrambleByte ==
  /\ phase = "unscramble" /\ i <= Last
  /\ frame' = [frame EXCEPT ![i] = Xor(temp[i], temp[i - 1])]
  /\ i' = i + 1
  /\ UNCHANGED <<phase, temp, checksum, link>>

(* calculateChecksum().                                                    *)
BeginChecksum ==
  /\ phase = "unscramble" /\ i > Last
  /\ phase' = "checksum"
  /\ i' = 0
  /\ checksum' = {}
  /\ UNCHANGED <<frame, temp, link>>

(* Mutant: the high nibbles are left out.                                   *)
ChecksumByteLowOnly ==
  /\ phase = "checksum" /\ i <= Last
  /\ checksum' = Xor(checksum, frame[i])
  /\ i' = i + 1
  /\ UNCHANGED <<phase, frame, temp, link>>

ChecksumByte ==
  /\ phase = "checksum" /\ i <= Last
  /\ checksum' = Xor(Xor(checksum, frame[i]), HighNibble(frame[i]))
  /\ i' = i + 1
  /\ UNCHANGED <<phase, frame, temp, link>>

(* Mutant: all the bits of the sum are kept.                                *)
EndChecksumUnmasked ==
  /\ phase = "checksum" /\ i > Last
  /\ phase' = "done"
  /\ UNCHANGED <<frame, temp, i, checksum, link>>

EndChecksum ==
  /\ phase = "checksum" /\ i > Last
  /\ checksum' = LowNibble(checksum)
  /\ phase' = "done"
  /\ UNCHANGED <<frame, temp, i, link>>

Next == CopyFrame \/ UnscrambleByte \/ BeginChecksum \/ ChecksumByte \/ EndChecksum

Spec == Init /\ [][Next]_vars

-----------------------------------------------------------------------------
(* processFrame() goes on with the frame.                                  *)
Accepted == phase = "done" /\ checksum = {}

(* The types of the variables.                                             *)
TypeOK ==
  /\ phase \in {"copy", "unscramble", "checksum", "done"}
  /\ frame \in Frames /\ temp \in Frames
  /\ received \in Frames
  /\ i \in 0 .. Last + 1
  /\ checksum \in Bytes
  /\ phase = "done" => checksum \subseteq 0 .. Nibble - 1

(* A frame that noise left alone is decoded into what the remote said, and *)
(* is accepted.                                                            *)
SentIsDecoded == phase = "done" /\ flips = {} => frame = sent /\ Accepted

(* An inverted bit spoils two bytes: its own and the one after it.         *)
FlipSpoilsTwo ==
  phase = "done" =>
    \A n \in Positions :
      Xor(frame[n], sent[n]) = IF n = 0 THEN FlipsOf(0) ELSE Xor(FlipsOf(n), FlipsOf(n - 1))

(* The two cancel out in the checksum: it is that of the last byte as it   *)
(* came in, and of nothing else.                                           *)
ChecksumIsLastByte == phase = "done" => checksum = Halves(received[Last])

=============================================================================
