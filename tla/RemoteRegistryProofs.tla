------------------------ MODULE RemoteRegistryProofs ------------------------
(***************************************************************************)
(* Machine-checked proofs about RemoteRegistry, for every size of the      *)
(* table, any number of remotes, power failures, reset commands and frames *)
(* made by noise, and any window and width of the codes: the table itself, *)
(* one action for one press, that the registry implements RemoteTable,     *)
(* whose codes the table holds and, where noise and power failures do not  *)
(* interfere, that a remote that is locked out stays so.                   *)
(***************************************************************************)
EXTENDS RemoteRegistry, FiniteSetTheorems, WellFoundedInduction, TLAPS

(* A set of natural numbers that is not empty has a least element.         *)
LEMMA LeastElement ==
  ASSUME NEW T \in SUBSET Nat, T # {}
  PROVE  \E i \in T : \A j \in T : i <= j
<1>1. PICK i \in T : \A j \in T : ~(<<j, i>> \in OpToRel(<, Nat))
  BY NatLessThanWellFounded, WFMin, Zenon
<1>2. \A j \in T : ~(j < i)
  BY <1>1 DEF OpToRel
<1>3. QED
  BY <1>2

(* findRemoteWithAddress returns a counted entry with that address.        *)
LEMMA FindKnown ==
  ASSUME NEW a, remoteCount \in Nat, Known(a)
  PROVE  /\ findRemoteWithAddress(a) \in 0 .. remoteCount - 1
         /\ remotes[findRemoteWithAddress(a)].address = a
         /\ remoteCount > 0
<1> DEFINE T == {i \in 0 .. remoteCount - 1 : remotes[i].address = a}
<1>1. T \in SUBSET Nat /\ T # {}
  BY DEF Known, KnownSet
<1>2. PICK k \in T : \A j \in T : k <= j
  BY <1>1, LeastElement, Zenon
<1>3. /\ k \in 0 .. remoteCount - 1
      /\ remotes[k].address = a
      /\ \A j \in 0 .. k - 1 : remotes[j].address # a
  BY <1>2
<1>4. /\ findRemoteWithAddress(a) \in 0 .. remoteCount - 1
      /\ remotes[findRemoteWithAddress(a)].address = a
  BY <1>3, Zenon DEF findRemoteWithAddress
<1>5. QED
  BY <1>4

-----------------------------------------------------------------------------
(* The table never outgrows its array, whatever fails: what makes the bound*)
(* inductive is that the count in EEPROM, and the count that the reset     *)
(* command has read and not yet written, respect it too.                   *)
Counts == 0 .. MAX_REMOTES - 1

TableInv ==
  /\ remoteCount \in Counts
  /\ eeCount \in Counts
  /\ reset = "writeCount" => tmp \in Counts
  /\ isr \in Labels /\ after \in {"idle", "check", "act"}
  /\ isr \in {"check", "act"} => index \in Slots /\ index <= remoteCount
  /\ isr \in {"saveCount", "saveCell"} /\ after # "idle" =>
       index \in Slots /\ index <= remoteCount

(* The interrupt keeps it.                                                 *)
LEMMA InterruptTableInv ==
  ASSUME TableInv, Interrupt
  PROVE  TableInv'
<1> USE RegistryAssumption
    DEF RegistryAssumption, TableInv, Counts, Slots, Labels, ram, eeprom,
        handler, console, NewFrame, Idle, Save, Return
<1>1. ASSUME NEW f \in OnAir, ReceiveNormal(f) PROVE TableInv'
  <2>1. CASE Known(f.address)
    BY <1>1, <2>1, FindKnown DEF ReceiveNormal
  <2>2. CASE ~Known(f.address)
    BY <1>1, <2>2 DEF ReceiveNormal
  <2>3. QED
    BY <2>1, <2>2
<1>2. ASSUME NEW f \in OnAir, ReceiveProg(f) PROVE TableInv'
  <2>1. CASE Known(f.address)
    BY <1>2, <2>1, FindKnown DEF ReceiveProg, deleteRemote
  <2>2. CASE ~Known(f.address)
    BY <1>2, <2>2 DEF ReceiveProg, addRemote
  <2>3. QED
    BY <2>1, <2>2
<1>3. CASE ReceiveGarbled   BY <1>3 DEF ReceiveGarbled
<1>4. CASE SaveCount        BY <1>4 DEF SaveCount
<1>5. CASE SaveCell         BY <1>5 DEF SaveCell
<1>6. CASE SaveDone         BY <1>6 DEF SaveDone
<1>7. CASE CheckValid       BY <1>7 DEF CheckValid
<1>8. CASE CheckInvalid     BY <1>8 DEF CheckInvalid
<1>9. CASE Act              BY <1>9 DEF Act
<1>10. QED
  BY <1>1, <1>2, <1>3, <1>4, <1>5, <1>6, <1>7, <1>8, <1>9 DEF Interrupt

(* So does everything else.                                                *)
LEMMA NextTableInv == TableInv /\ [Next]_vars => TableInv'
<1> SUFFICES ASSUME TableInv, [Next]_vars PROVE TableInv'
  OBVIOUS
<1>1. CASE Interrupt         BY <1>1, InterruptTableInv
<1> USE RegistryAssumption
    DEF RegistryAssumption, TableInv, Counts, Slots, Labels, ram, eeprom,
        handler, console, LoopRest, DeviceRest
<1>2. CASE OpenProgMode      BY <1>2 DEF OpenProgMode
<1>3. CASE ProgModeTimeout   BY <1>3 DEF ProgModeTimeout
<1>4. CASE ResetCommand      BY <1>4 DEF ResetCommand, Idle
<1>5. CASE ResetReadCount    BY <1>5 DEF ResetReadCount
<1>6. CASE ResetWriteCount   BY <1>6 DEF ResetWriteCount
<1>7. CASE ResetReadCell     BY <1>7 DEF ResetReadCell
<1>8. CASE ResetWriteCell    BY <1>8 DEF ResetWriteCell
<1>9. CASE ResetDone         BY <1>9 DEF ResetDone
<1>10. CASE Crash            BY <1>10 DEF Crash, loadRemotes, Return
<1>11. ASSUME NEW d \in Remotes, Press(d) \/ Release(d) PROVE TableInv'
  BY <1>11 DEF Press, Release
<1>12. CASE UNCHANGED vars   BY <1>12 DEF vars
<1>13. QED
  BY <1>1, <1>2, <1>3, <1>4, <1>5, <1>6, <1>7, <1>8, <1>9, <1>10, <1>11,
     <1>12 DEF Next, Background

LEMMA TableInvAlways == Spec => []TableInv
<1>1. Init => TableInv
  BY RegistryAssumption DEF RegistryAssumption, Init, TableInv, Counts, Labels
<1>2. QED
  BY <1>1, NextTableInv, PTL DEF Spec

(* A number below CodeMod is its two bytes.                                *)
LEMMA TwoBytes ==
  ASSUME NEW h \in Byte, NEW l \in Byte
  PROVE  /\ h * ByteMod + l \in Codes
         /\ (h * ByteMod + l) \div ByteMod = h
         /\ (h * ByteMod + l) % ByteMod = l
<1> DEFINE B == ByteMod
<1>1. B \in Nat \ {0} /\ CodeMod = B * B /\ h \in 0 .. B - 1 /\ l \in 0 .. B - 1
  BY RegistryAssumption DEF RegistryAssumption, Byte
<1> HIDE DEF B
<1>2. h * B \in Nat /\ h * B <= (B - 1) * B /\ (B - 1) * B = B * B - B
  BY <1>1
<1>3. h * B + l \in 0 .. CodeMod - 1
  BY <1>1, <1>2
<1>4. (h * B + l) \div B = h /\ (h * B + l) % B = l
  BY <1>1
<1>5. QED
  BY <1>3, <1>4 DEF B, Codes

LEMMA CodeBytes ==
  ASSUME NEW c \in Codes
  PROVE  /\ c \div ByteMod \in Byte /\ c % ByteMod \in Byte
         /\ (c \div ByteMod) * ByteMod + (c % ByteMod) = c
<1> DEFINE B == ByteMod
           q == c \div B
           r == c % B
<1>1. B \in Nat \ {0} /\ CodeMod = B * B /\ c \in 0 .. B * B - 1
  BY RegistryAssumption DEF RegistryAssumption, Codes
<1>2. q \in Nat /\ r \in 0 .. B - 1 /\ c = q * B + r
  BY <1>1
<1> HIDE DEF q, r, B
<1>3. q < B
  <2> SUFFICES ASSUME q >= B PROVE FALSE
    BY <1>1, <1>2
  <2>1. q * B >= B * B
    BY <1>1, <1>2
  <2>2. QED
    BY <1>1, <1>2, <2>1
<1>4. QED
  BY <1>1, <1>2, <1>3 DEF q, r, B, Byte

(* The places of the bytes in an entry.                                    *)
Places == 0 .. 4

LEMMA ByteType ==
  ASSUME NEW e \in Entry, NEW k \in Places
  PROVE  ByteOf(e, k) \in Byte
<1>1. e.code \in Codes /\ e.address \in Addresses
  BY DEF Entry
<1>2. k \notin {0, 1} => k - 1 \in 1 .. 3
  BY DEF Places
<1>3. QED
  BY <1>1, <1>2, CodeBytes DEF ByteOf, Addresses

(* Writing a byte changes that byte and no other.                          *)
LEMMA ByteWritten ==
  ASSUME NEW e \in Entry, NEW k \in Places, NEW v \in Byte
  PROVE  /\ WithByte(e, k, v) \in Entry
         /\ \A j \in Places : ByteOf(WithByte(e, k, v), j) = IF j = k THEN v ELSE ByteOf(e, j)
<1> DEFINE h == e.code \div ByteMod
           l == e.code % ByteMod
           u == WithByte(e, k, v)
<1>1. e.code \in Codes /\ e.address \in Addresses
  BY DEF Entry
<1>2. h \in Byte /\ l \in Byte
  BY <1>1, CodeBytes
<1>3. CASE k = 0
  <2>1. u = [e EXCEPT !.code = v * ByteMod + l]
    BY <1>3 DEF WithByte
  <2>2. u.code = v * ByteMod + l /\ u.address = e.address /\ u \in Entry
    BY <1>1, <1>2, <2>1, TwoBytes DEF Entry
  <2>3. u.code \div ByteMod = v /\ u.code % ByteMod = l
    BY <1>2, <2>2, TwoBytes
  <2> HIDE DEF u
  <2>4. QED
    BY <1>3, <2>2, <2>3 DEF ByteOf, u
<1>4. CASE k = 1
  <2>1. u = [e EXCEPT !.code = h * ByteMod + v]
    BY <1>4 DEF WithByte
  <2>2. u.code = h * ByteMod + v /\ u.address = e.address /\ u \in Entry
    BY <1>1, <1>2, <2>1, TwoBytes DEF Entry
  <2>3. u.code \div ByteMod = h /\ u.code % ByteMod = v
    BY <1>2, <2>2, TwoBytes
  <2> HIDE DEF u
  <2>4. QED
    BY <1>4, <2>2, <2>3 DEF ByteOf, u
<1>5. CASE k \notin {0, 1}
  <2>0. k - 1 \in 1 .. 3
    BY <1>5 DEF Places
  <2>1. u = [e EXCEPT !.address = [e.address EXCEPT ![k - 1] = v]]
    BY <1>5 DEF WithByte
  <2>2. /\ u.code = e.code /\ u.address = [e.address EXCEPT ![k - 1] = v]
        /\ u.address \in Addresses /\ u \in Entry
    BY <1>1, <2>0, <2>1 DEF Entry, Addresses
  <2> HIDE DEF u
  <2>3. ASSUME NEW j \in Places, j \notin {0, 1}
        PROVE  u.address[j - 1] = IF j = k THEN v ELSE e.address[j - 1]
    <3>1. j - 1 \in 1 .. 3 /\ (j - 1 = k - 1 <=> j = k)
      BY <2>3 DEF Places
    <3>2. QED
      BY <1>1, <2>2, <3>1 DEF Addresses
  <2>4. QED
    BY <1>5, <2>2, <2>3 DEF ByteOf, u
<1>6. QED
  BY <1>3, <1>4, <1>5

(* So are the entries of blank memory.                                     *)
LEMMA BlankTypes == Zeroed \in Entry /\ Erased \in Entry
<1>1. /\ ByteMod \in Nat \ {0} /\ CodeMod = ByteMod * ByteMod
      /\ CodeMod \in Nat /\ CodeMod > 0
  BY RegistryAssumption DEF RegistryAssumption
<1>2. 0 \in Codes /\ CodeMod - 1 \in Codes /\ 0 \in Byte /\ ByteMod - 1 \in Byte
  BY <1>1 DEF Codes, Byte
<1>3. QED
  BY <1>2 DEF Zeroed, Erased, Blank, Entry, Addresses

LEMMA RemotesAreAddresses == Remotes \subseteq Addresses
BY RegistryAssumption DEF RegistryAssumption, Addresses, Byte

(* An entry is its five bytes.                                             *)
LEMMA FiveBytes ==
  ASSUME NEW e \in Entry, NEW f \in Entry,
         \A k \in Places : ByteOf(e, k) = ByteOf(f, k)
  PROVE  e = f
<1>1. /\ e.code \in Codes /\ e.address \in Addresses
      /\ f.code \in Codes /\ f.address \in Addresses
  BY DEF Entry
<1>2. e.code \div ByteMod = f.code \div ByteMod /\ e.code % ByteMod = f.code % ByteMod
  BY DEF Places, ByteOf
<1>3. e.code = f.code
  BY <1>1, <1>2, CodeBytes
<1>4. ASSUME NEW k \in 1 .. 3 PROVE e.address[k] = f.address[k]
  <2>1. k + 1 \in Places /\ k + 1 \notin {0, 1} /\ (k + 1) - 1 = k
    BY DEF Places
  <2>2. QED
    BY <2>1 DEF ByteOf
<1>5. e.address = f.address
  BY <1>1, <1>4 DEF Addresses
<1>6. QED
  BY <1>3, <1>5 DEF Entry

-----------------------------------------------------------------------------
(* No remote is in the table twice.  The types of what is copied into the  *)
(* table come along.                                                       *)
Pending == isr = "check" \/ (isr \in {"saveCount", "saveCell"} /\ after = "check")

EntryTypes ==
  /\ remotes \in [Slots -> Entry]
  /\ presses \in [Remotes -> Nat] /\ button \in [Remotes -> Buttons]
  /\ Pending => rx \in Frame

DupInv == TableInv /\ EntryTypes /\ Distinct

(* What can come in is a frame.                                            *)
LEMMA FrameOfType ==
  ASSUME EntryTypes, NEW f \in OnAir
  PROVE  f \in Frame
<1>1. CASE f \in Misread
  BY <1>1, RegistryAssumption DEF RegistryAssumption, Frame, Codes, Buttons
<1>2. ASSUME NEW d \in Remotes, f = FrameOf(d) PROVE f \in Frame
  <2>1. Code(d) \in Codes
    BY RegistryAssumption DEF RegistryAssumption, EntryTypes, Code, Codes
  <2>2. QED
    BY <1>2, <2>1 DEF FrameOf, Frame, EntryTypes
<1>3. QED
  BY <1>1, <1>2 DEF OnAir

(* A new remote goes to the first free place,                              *)
LEMMA AddKeepsDistinct ==
  ASSUME DupInv, NEW f \in Frame, ~Known(f.address), addRemote(f)
  PROVE  remotes' \in [Slots -> Entry] /\ Distinct'
<1>1. CASE remoteCount >= MAX_REMOTES - 1
  BY <1>1 DEF addRemote, ram, DupInv, EntryTypes, Distinct
<1>2. CASE ~(remoteCount >= MAX_REMOTES - 1)
  <2>1. /\ remotes' = [i \in Slots |-> IF i = remoteCount THEN EntryOf(f)
                                                       ELSE remotes[i]]
        /\ remoteCount' = remoteCount + 1
    BY <1>2 DEF addRemote
  <2>2. EntryOf(f) \in Entry /\ EntryOf(f).address = f.address
    BY RemotesAreAddresses DEF EntryOf, Entry, Frame
  <2>3. remotes' \in [Slots -> Entry]
    BY <2>1, <2>2 DEF DupInv, EntryTypes
  <2>4. /\ \A i \in 0 .. remoteCount - 1 : remotes'[i] = remotes[i]
        /\ remotes'[remoteCount].address = f.address
    BY <2>1, <2>2, <1>2, RegistryAssumption DEF RegistryAssumption, DupInv, TableInv, Counts, Slots
  <2>5. \A i \in 0 .. remoteCount - 1 : remotes[i].address # f.address
    BY DEF Known, KnownSet, Frame
  <2>6. Distinct'
    BY <2>1, <2>4, <2>5 DEF DupInv, TableInv, Counts, Distinct
  <2>7. QED
    BY <2>3, <2>6
<1>3. QED
  BY <1>1, <1>2

(* and a deletion moves the ones above down by one.                        *)
LEMMA DeleteKeepsDistinct ==
  ASSUME DupInv, NEW f \in Frame, Known(f.address), deleteRemote(f)
  PROVE  remotes' \in [Slots -> Entry] /\ Distinct'
<1> DEFINE k == findRemoteWithAddress(f.address)
<1>1. k \in 0 .. remoteCount - 1 /\ remoteCount > 0
  BY FindKnown DEF DupInv, TableInv, Counts
<1>2. /\ remotes' = [i \in Slots |-> IF i \in k .. remoteCount - 2
                                     THEN remotes[i + 1] ELSE remotes[i]]
      /\ remoteCount' = remoteCount - 1
  BY DEF deleteRemote, Without
<1> HIDE DEF k
<1>3. remotes' \in [Slots -> Entry]
  BY <1>1, <1>2, RegistryAssumption
     DEF RegistryAssumption, DupInv, TableInv, EntryTypes, Counts, Slots
<1>4. \A i \in 0 .. remoteCount - 2 :
        remotes'[i] = IF i >= k THEN remotes[i + 1] ELSE remotes[i]
  BY <1>1, <1>2, RegistryAssumption DEF RegistryAssumption, DupInv, TableInv, Counts, Slots
<1>5. Distinct'
  <2> SUFFICES ASSUME NEW i \in 0 .. remoteCount - 2, NEW j \in 0 .. remoteCount - 2,
                      remotes'[i].address = remotes'[j].address
               PROVE  i = j
    BY <1>2 DEF Distinct, DupInv, TableInv, Counts
  <2>1. PICK m \in 0 .. remoteCount - 1 :
          remotes'[i] = remotes[m] /\ m = (IF i >= k THEN i + 1 ELSE i)
    BY <1>1, <1>4 DEF DupInv, TableInv, Counts
  <2>2. PICK n \in 0 .. remoteCount - 1 :
          remotes'[j] = remotes[n] /\ n = (IF j >= k THEN j + 1 ELSE j)
    BY <1>1, <1>4 DEF DupInv, TableInv, Counts
  <2>3. m = n
    BY <2>1, <2>2 DEF DupInv, Distinct
  <2>4. QED
    BY <1>1, <2>1, <2>2, <2>3 DEF DupInv, TableInv, Counts
<1>6. QED
  BY <1>3, <1>5

(* Storing a code leaves the addresses alone.                              *)
LEMMA CheckKeepsDistinct ==
  ASSUME DupInv, CheckValid
  PROVE  remotes' \in [Slots -> Entry] /\ Distinct'
<1>1. index \in Slots /\ rx.code \in Codes
  BY DEF CheckValid, DupInv, TableInv, EntryTypes, Pending, Frame
<1>2. remotes' = [remotes EXCEPT ![index].code = rx.code] /\ remoteCount' = remoteCount
  BY DEF CheckValid
<1>3. remotes' \in [Slots -> Entry]
  BY <1>1, <1>2 DEF DupInv, EntryTypes, Entry
<1>4. \A i \in Slots : remotes'[i].address = remotes[i].address
  BY <1>1, <1>2 DEF DupInv, EntryTypes, Entry
<1>5. Distinct'
  BY <1>2, <1>4, RegistryAssumption
     DEF RegistryAssumption, DupInv, TableInv, Counts, Slots, Distinct
<1>6. QED
  BY <1>3, <1>5

(* No other step counts a power failure.                                   *)
LEMMA CrashesKept ==
  ASSUME [Next]_vars, ~Crash
  PROVE  crashes' = crashes
<1> USE DEF NewFrame, LoopRest, DeviceRest, counts
<1>1. ASSUME NEW f \in OnAir, ReceiveNormal(f) \/ ReceiveProg(f) PROVE crashes' = crashes
  BY <1>1 DEF ReceiveNormal, ReceiveProg
<1>2. CASE \/ ReceiveGarbled \/ SaveCount \/ SaveCell \/ SaveDone
          \/ CheckValid \/ CheckInvalid \/ Act
  BY <1>2 DEF ReceiveGarbled, SaveCount, SaveCell, SaveDone, CheckValid, CheckInvalid, Act
<1>3. CASE Background
  BY <1>3 DEF Background, OpenProgMode, ProgModeTimeout, ResetCommand, ResetReadCount,
     ResetWriteCount, ResetReadCell, ResetWriteCell, ResetDone
<1>4. ASSUME NEW d \in Remotes, Press(d) \/ Release(d) PROVE crashes' = crashes
  BY <1>4 DEF Press, Release
<1>5. CASE UNCHANGED vars
  BY <1>5 DEF vars
<1>6. QED
  BY <1>1, <1>2, <1>3, <1>4, <1>5 DEF Next, Interrupt

(* Every step without a power failure keeps the remotes apart.             *)
LEMMA NextDupInv == DupInv /\ [Next]_vars /\ ~Crash => DupInv'
<1> SUFFICES ASSUME DupInv, [Next]_vars, ~Crash PROVE DupInv'
  OBVIOUS
<1>0. TableInv'
  BY NextTableInv DEF DupInv
<1>1. ASSUME NEW f \in OnAir, ReceiveProg(f) PROVE DupInv'
  <2>1. UNCHANGED <<presses, button>>
    BY <1>1 DEF ReceiveProg, NewFrame, devices, counts
  <2>2. Pending' => rx' \in Frame
    BY <1>1, FrameOfType DEF ReceiveProg, NewFrame, Idle, addRemote, deleteRemote,
       handler, Save, Pending, DupInv
  <2>3. remotes' \in [Slots -> Entry] /\ Distinct'
    BY <1>1, FrameOfType, AddKeepsDistinct, DeleteKeepsDistinct DEF ReceiveProg, DupInv
  <2>4. QED
    BY <1>0, <2>1, <2>2, <2>3 DEF DupInv, EntryTypes
<1>2. CASE CheckValid
  <2>1. UNCHANGED <<presses, button, rx>>
    BY <1>2 DEF CheckValid, devices, counts
  <2>2. Pending' => Pending
    BY <1>2 DEF CheckValid, Save, Pending
  <2>3. QED
    BY <1>0, <1>2, <2>1, <2>2, CheckKeepsDistinct DEF DupInv, EntryTypes
<1>3. CASE ResetCommand
  BY <1>0, <1>3 DEF ResetCommand, LoopRest, handler, devices, DupInv, EntryTypes,
     Pending, Distinct
<1>4. ASSUME NEW d \in Remotes, Press(d) PROVE DupInv'
  BY <1>0, <1>4 DEF Press, DeviceRest, ram, handler, counts, DupInv, EntryTypes,
     Pending, Distinct
<1>5. ASSUME UNCHANGED <<remoteCount, remotes, presses, button>>,
             Pending' => (Pending /\ rx' = rx) \/ rx' \in Frame
      PROVE  DupInv'
  BY <1>0, <1>5 DEF DupInv, EntryTypes, Distinct
<1>6. ASSUME NEW f \in OnAir, ReceiveNormal(f) PROVE DupInv'
  <2>1. UNCHANGED <<remoteCount, remotes, presses, button>>
    BY <1>6 DEF ReceiveNormal, NewFrame, ram, devices, counts
  <2>2. Pending' => rx' \in Frame
    BY <1>6, FrameOfType DEF ReceiveNormal, NewFrame, Idle, handler, Pending, DupInv
  <2>3. QED
    BY <1>5, <2>1, <2>2
<1>7. CASE ReceiveGarbled \/ SaveCount \/ SaveCell \/ SaveDone \/ CheckInvalid \/ Act
  <2>1. UNCHANGED <<remoteCount, remotes, presses, button>>
    BY <1>7 DEF ReceiveGarbled, NewFrame, SaveCount, SaveCell, SaveDone,
       CheckInvalid, Act, ram, devices, counts
  <2>2. Pending' => Pending /\ rx' = rx
    BY <1>7 DEF ReceiveGarbled, NewFrame, SaveCount, SaveCell, SaveDone,
       CheckInvalid, Act, Return, handler, Pending
  <2>3. QED
    BY <1>5, <2>1, <2>2
<1>8. CASE \/ OpenProgMode \/ ProgModeTimeout \/ ResetReadCount \/ ResetWriteCount
          \/ ResetReadCell \/ ResetWriteCell \/ ResetDone \/ UNCHANGED vars
  <2>1. UNCHANGED <<remoteCount, remotes, presses, button>>
    BY <1>8 DEF OpenProgMode, ProgModeTimeout, ResetReadCount, ResetWriteCount,
       ResetReadCell, ResetWriteCell, ResetDone, LoopRest, vars, ram, devices, counts
  <2>2. Pending' => Pending /\ rx' = rx
    BY <1>8 DEF OpenProgMode, ProgModeTimeout, ResetReadCount, ResetWriteCount,
       ResetReadCell, ResetWriteCell, ResetDone, LoopRest, vars, handler, Pending
  <2>3. QED
    BY <1>5, <2>1, <2>2
<1>9. ASSUME NEW d \in Remotes, Release(d) PROVE DupInv'
  <2>1. UNCHANGED <<remoteCount, remotes, presses, button>>
    BY <1>9 DEF Release, DeviceRest, ram, counts
  <2>2. Pending' => Pending /\ rx' = rx
    BY <1>9 DEF Release, DeviceRest, handler, Pending
  <2>3. QED
    BY <1>5, <2>1, <2>2
<1>10. QED
  BY <1>1, <1>2, <1>3, <1>4, <1>6, <1>7, <1>8, <1>9
     DEF Next, Interrupt, Background

WholePower == crashes \in Nat /\ (crashes = 0 => DupInv)

LEMMA WholePowerAlways == Spec => []WholePower
<1>1. Init => WholePower
  <2> SUFFICES ASSUME Init PROVE WholePower
    OBVIOUS
  <2>1. TableInv /\ Distinct /\ crashes = 0 /\ ~Pending
    BY RegistryAssumption DEF RegistryAssumption, Init, TableInv, Counts, Labels,
       Distinct, Pending
  <2>2. Zeroed \in Entry
    BY BlankTypes
  <2>3. EntryTypes
    BY <2>1, <2>2 DEF Init, EntryTypes, Buttons
  <2>4. QED
    BY <2>1, <2>3 DEF DupInv, WholePower
<1>2. WholePower /\ [Next]_vars => WholePower'
  <2> SUFFICES ASSUME WholePower, [Next]_vars PROVE WholePower'
    OBVIOUS
  <2>1. CASE Crash
    BY <2>1 DEF Crash, WholePower
  <2>2. CASE ~Crash
    <3>1. crashes' = crashes
      BY <2>2, CrashesKept
    <3>2. QED
      BY <2>2, <3>1, NextDupInv DEF WholePower
  <2>3. QED
    BY <2>1, <2>2
<1>3. QED
  BY <1>1, <1>2, PTL DEF Spec

(* However remotes are added, deleted, heard and reset, none is known twice*)
(* as long as the power has not failed.                                    *)
THEOREM NoRemoteTwice == Spec => []NoDuplicates
<1>1. WholePower => NoDuplicates
  BY DEF WholePower, DupInv, NoDuplicates
<1>2. QED
  BY <1>1, WholePowerAlways, PTL

-----------------------------------------------------------------------------
(* The types of the variables, group by group; what has been read and not  *)
(* yet written has the type of the cell it is for.                         *)
CellTypes ==
  /\ remotes \in [Slots -> Entry] /\ eeRemotes \in [Slots -> Entry]

(* The save of the reset command is inside an entry: it does not ask for   *)
(* the count again before that entry is complete.                          *)
InEntry == reset = "writeCell" \/ (reset = "readCell" /\ resetCell % 5 # 0)

ResetTypes ==
  /\ reset \in {"none", "readCount", "writeCount", "readCell", "writeCell"}
  /\ resetCell \in 0 .. 5 * MAX_REMOTES /\ tmp \in Nat
  /\ InEntry => resetCell \div 5 \in Slots
  /\ reset = "writeCell" => tmp \in Byte

HandlerTypes ==
  /\ index \in -1 .. MAX_REMOTES - 1
  /\ cell \in 0 .. 5 * MAX_REMOTES
  /\ isr = "saveCount" => cell = 0
  /\ isr = "saveCell" /\ cell % 5 # 0 => cell \div 5 < remoteCount
  /\ rx \in Frame \cup {NoFrame}
  /\ isr # "idle" => rx \in Frame

DeviceTypes ==
  /\ presses \in [Remotes -> Nat] /\ \A d \in Remotes : presses[d] \in 0 .. MaxPresses[d]
  /\ button \in [Remotes -> Buttons]
  /\ onAir \in [Remotes -> BOOLEAN]

HistoryTypes ==
  /\ lastFrame \in Frame \cup {NoFrame, Garbled}
  /\ progModeEnabled \in BOOLEAN
  /\ served \in [Remotes -> 0 .. 2]
  /\ mixed \in [Remotes -> BOOLEAN]
  /\ saved \subseteq Addresses /\ admitted \subseteq Remotes

TypeInv == TableInv /\ CellTypes /\ ResetTypes /\ HandlerTypes /\ DeviceTypes /\ HistoryTypes

LEMMA TypeInvIsTypeOK == TypeInv => TypeOK
BY DEF TypeInv, TypeOK, TableInv, Counts, CellTypes, ResetTypes, HandlerTypes,
       DeviceTypes, HistoryTypes

LEMMA OnAirType == ASSUME TypeInv, NEW f \in OnAir PROVE f \in Frame
<1>1. CASE f \in Misread
  BY <1>1, RegistryAssumption DEF RegistryAssumption, Frame, Codes, Buttons
<1>2. ASSUME NEW d \in Remotes, f = FrameOf(d) PROVE f \in Frame
  <2>1. Code(d) \in Codes
    BY RegistryAssumption DEF RegistryAssumption, TypeInv, DeviceTypes, Code, Codes
  <2>2. QED
    BY <1>2, <2>1 DEF FrameOf, Frame, TypeInv, DeviceTypes
<1>3. QED
  BY <1>1, <1>2 DEF OnAir

LEMMA DeviceTypesNext == TypeInv /\ [Next]_vars => DeviceTypes'
<1> SUFFICES ASSUME TypeInv, [Next]_vars PROVE DeviceTypes'
  OBVIOUS
<1> USE DEF TypeInv, DeviceTypes
<1>0. UNCHANGED devices => DeviceTypes'
  BY DEF devices
<1>1. ASSUME NEW d \in Remotes, Press(d) PROVE DeviceTypes'
  <2>0. presses[d] < MaxPresses[d] /\ presses' = [presses EXCEPT ![d] = @ + 1]
    BY <1>1 DEF Press
  <2>a. presses[d] \in Nat /\ MaxPresses[d] \in Nat
    BY RegistryAssumption DEF RegistryAssumption
  <2>1. presses[d] + 1 \in 0 .. MaxPresses[d]
    BY <2>0, <2>a
  <2>2. presses' \in [Remotes -> Nat] /\ \A e \in Remotes : presses'[e] \in 0 .. MaxPresses[e]
    BY <2>0, <2>a, <2>1
  <2>3. button' \in [Remotes -> Buttons]
    <3>1. PICK b \in Buttons : button' = [button EXCEPT ![d] = b]
      BY <1>1 DEF Press
    <3>2. QED
      BY <3>1
  <2>4. onAir' \in [Remotes -> BOOLEAN]
    BY <1>1 DEF Press
  <2>5. QED
    BY <2>2, <2>3, <2>4
<1>2. ASSUME NEW d \in Remotes, Release(d) PROVE DeviceTypes'
  <2>1. onAir' \in [Remotes -> BOOLEAN] /\ UNCHANGED <<presses, button>>
    BY <1>2 DEF Release
  <2>2. QED
    BY <2>1
<1>3. CASE Interrupt
  BY <1>0, <1>3 DEF Interrupt, ReceiveNormal, ReceiveProg, ReceiveGarbled, NewFrame, SaveCount,
     SaveCell, SaveDone, CheckValid, CheckInvalid, Act
<1>4. CASE Background
  BY <1>0, <1>4 DEF Background, OpenProgMode, ProgModeTimeout, ResetCommand, ResetReadCount,
     ResetWriteCount, ResetReadCell, ResetWriteCell, ResetDone, LoopRest
<1>5. CASE Crash \/ UNCHANGED vars
  BY <1>0, <1>5 DEF Crash, vars
<1>6. QED
  BY <1>1, <1>2, <1>3, <1>4, <1>5 DEF Next

(* The known addresses are addresses.                                      *)
LEMMA KnownType ==
  /\ TableInv /\ CellTypes => KnownSet \subseteq Addresses
  /\ TableInv' /\ CellTypes' => KnownSet' \subseteq Addresses
<1>1. ASSUME NEW n \in Counts, NEW t \in [Slots -> Entry]
      PROVE  {t[i].address : i \in 0 .. n - 1} \subseteq Addresses
  BY RegistryAssumption DEF RegistryAssumption, Counts, Slots, Entry
<1>2. QED
  BY <1>1 DEF TableInv, CellTypes, KnownSet

LEMMA HistoryTypesNext == TypeInv /\ [Next]_vars /\ TableInv' /\ CellTypes' => HistoryTypes'
<1> SUFFICES ASSUME TypeInv, [Next]_vars, TableInv', CellTypes' PROVE HistoryTypes'
  OBVIOUS
<1> USE DEF TypeInv, HistoryTypes
<1>k. KnownSet \subseteq Addresses /\ KnownSet' \subseteq Addresses
  BY KnownType
<1>0. UNCHANGED <<lastFrame, progModeEnabled, served, mixed, admitted>> /\ saved' \subseteq Addresses
        => HistoryTypes'
  OBVIOUS
<1>n. ASSUME NEW f, NewFrame(f), f \in Frame \/ f = Garbled
      PROVE  /\ lastFrame' \in Frame \cup {NoFrame, Garbled}
             /\ mixed' \in [Remotes -> BOOLEAN]
             /\ UNCHANGED <<served, saved>>
  BY <1>n DEF NewFrame
<1>1. ASSUME NEW f \in OnAir, ReceiveNormal(f) \/ ReceiveProg(f) PROVE HistoryTypes'
  <2>1. f \in Frame /\ f.address \in Remotes
    BY OnAirType DEF Frame
  <2>2. NewFrame(f) /\ progModeEnabled' \in BOOLEAN
    BY <1>1 DEF ReceiveNormal, ReceiveProg
  <2>3. admitted' \subseteq Remotes
    BY <1>1, <2>1 DEF ReceiveNormal, ReceiveProg, addRemote, deleteRemote
  <2>4. QED
    BY <1>n, <2>1, <2>2, <2>3
<1>2. CASE ReceiveGarbled
  BY <1>2, <1>n DEF ReceiveGarbled
<1>3. CASE SaveCount \/ SaveCell \/ SaveDone \/ CheckValid \/ CheckInvalid
  BY <1>0, <1>3, <1>k DEF SaveCount, SaveCell, SaveDone, CheckValid, CheckInvalid, history
<1>4. CASE Act
  <2> DEFINE s == served[rx.address]
             new == IF rx = FrameOf(rx.address) /\ rx.button = "door" /\ s < 2
                    THEN s + 1 ELSE s
  <2>1. rx.address \in Remotes
    BY <1>4 DEF Act, HandlerTypes, Frame
  <2>2. s \in 0 .. 2
    BY <2>1
  <2>3. new \in 0 .. 2
    BY <2>2
  <2>4. served' = [served EXCEPT ![rx.address] = new]
    BY <1>4 DEF Act
  <2>5. served' \in [Remotes -> 0 .. 2]
    BY <2>3, <2>4
  <2>6. QED
    BY <1>4, <2>5 DEF Act
<1>5. CASE OpenProgMode \/ ProgModeTimeout
  BY <1>5 DEF OpenProgMode, ProgModeTimeout, history
<1>6. CASE \/ ResetCommand \/ ResetReadCount \/ ResetWriteCount
           \/ ResetReadCell \/ ResetWriteCell \/ ResetDone
  BY <1>0, <1>6, <1>k DEF ResetCommand, ResetReadCount, ResetWriteCount, ResetReadCell,
     ResetWriteCell, ResetDone, LoopRest
<1>7. CASE Crash
  <2>1. mixed' \in [Remotes -> BOOLEAN]
    BY <1>7 DEF Crash
  <2>2. QED
    BY <1>7, <1>k, <2>1 DEF Crash
<1>8. ASSUME NEW d \in Remotes, Press(d) PROVE HistoryTypes'
  <2>1. served' \in [Remotes -> 0 .. 2] /\ mixed' \in [Remotes -> BOOLEAN]
    BY <1>8 DEF Press
  <2>2. QED
    BY <1>8, <2>1 DEF Press, DeviceRest
<1>9. ASSUME NEW d \in Remotes, Release(d) PROVE HistoryTypes'
  BY <1>0, <1>9 DEF Release, DeviceRest, history
<1>10. CASE UNCHANGED vars
  BY <1>0, <1>10 DEF vars, history
<1>11. QED
  BY <1>1, <1>2, <1>3, <1>4, <1>5, <1>6, <1>7, <1>8, <1>9, <1>10
     DEF Next, Interrupt, Background

LEMMA HandlerTypesNext == TypeInv /\ [Next]_vars => HandlerTypes'
<1> SUFFICES ASSUME TypeInv, [Next]_vars PROVE HandlerTypes'
  OBVIOUS
<1> USE DEF TypeInv, HandlerTypes
<1>m. MAX_REMOTES \in Nat \ {0} /\ remoteCount \in 0 .. MAX_REMOTES - 1
  BY RegistryAssumption DEF RegistryAssumption, TableInv, Counts
<1>0. UNCHANGED handler /\ (isr = "saveCell" => remoteCount' = remoteCount) => HandlerTypes'
  BY DEF handler
<1>r. Return => HandlerTypes'
  BY <1>m DEF Return
<1>s. ASSUME NEW then, Save(then), rx' \in Frame, index' \in -1 .. MAX_REMOTES - 1
      PROVE  HandlerTypes'
  BY <1>m, <1>s DEF Save
<1>f. ASSUME NEW a, Known(a) PROVE findRemoteWithAddress(a) \in -1 .. MAX_REMOTES - 1
  BY <1>m, <1>f, FindKnown
<1>1. ASSUME NEW f \in OnAir, ReceiveNormal(f) PROVE HandlerTypes'
  BY <1>0, <1>1, <1>f, OnAirType DEF ReceiveNormal, ram
<1>2. ASSUME NEW f \in OnAir, ReceiveProg(f) PROVE HandlerTypes'
  <2>1. f \in Frame
    BY OnAirType
  <2>2. CASE Known(f.address)
    BY <1>2, <1>s, <1>f, <2>1, <2>2 DEF ReceiveProg, deleteRemote
  <2>3. CASE ~Known(f.address)
    BY <1>0, <1>2, <1>s, <2>1, <2>3 DEF ReceiveProg, addRemote, ram
  <2>4. QED
    BY <2>2, <2>3
<1>3. CASE ReceiveGarbled
  BY <1>0, <1>3 DEF ReceiveGarbled, ram
<1>4. CASE SaveCount
  <2>1. cell' % 5 # 0 => cell' \div 5 < remoteCount'
    BY <1>4 DEF SaveCount
  <2>2. QED
    BY <1>4, <2>1 DEF SaveCount
<1>5. CASE SaveCell
  <2>1. cell \in Nat /\ cell \div 5 < remoteCount
    BY <1>5, <1>m DEF SaveCell, MoreToSave
  <2>2. cell + 1 \in 0 .. 5 * MAX_REMOTES
    BY <1>m, <2>1
  <2>3. (cell + 1) % 5 # 0 => (cell + 1) \div 5 < remoteCount
    BY <1>m, <2>1
  <2>4. QED
    BY <1>5, <2>2, <2>3 DEF SaveCell, ram
<1>6. CASE SaveDone
  <2>1. CASE after = "idle"
    BY <1>6, <1>r, <2>1 DEF SaveDone
  <2>2. CASE after # "idle"
    BY <1>6, <1>m, <2>2 DEF SaveDone
  <2>3. QED
    BY <2>1, <2>2
<1>7. CASE CheckValid
  BY <1>7, <1>s DEF CheckValid
<1>8. CASE CheckInvalid \/ Act
  BY <1>8, <1>r DEF CheckInvalid, Act
<1>9. CASE Background
  BY <1>0, <1>9 DEF Background, OpenProgMode, ProgModeTimeout, ResetCommand, ResetReadCount,
     ResetWriteCount, ResetReadCell, ResetWriteCell, ResetDone, LoopRest, Idle
<1>10. CASE Crash
  BY <1>10, <1>r DEF Crash
<1>11. ASSUME NEW d \in Remotes, Press(d) \/ Release(d) PROVE HandlerTypes'
  BY <1>0, <1>11 DEF Press, Release, DeviceRest, ram
<1>12. CASE UNCHANGED vars
  BY <1>0, <1>12 DEF vars, ram
<1>13. QED
  BY <1>1, <1>2, <1>3, <1>4, <1>5, <1>6, <1>7, <1>8, <1>9, <1>10, <1>11, <1>12
     DEF Next, Interrupt

(* The entry a byte is in and its place in that entry.                     *)
LEMMA BytePlace ==
  ASSUME NEW k \in Nat
  PROVE  /\ k % 5 \in Places /\ k \div 5 \in Nat /\ k = 5 * (k \div 5) + (k % 5)
         /\ (k + 1) % 5 # 0 => (k + 1) \div 5 = k \div 5
<1>1. k % 5 \in Places
  BY DEF Places
<1>2. k \div 5 \in Nat /\ k = 5 * (k \div 5) + (k % 5)
  OBVIOUS
<1>3. (k + 1) % 5 # 0 => (k + 1) \div 5 = k \div 5
  OBVIOUS
<1>4. QED
  BY <1>1, <1>2, <1>3

(* saveRemotes() reads entries of the array, also inside an entry that is  *)
(* not counted any more.                                                   *)
LEMMA SavedEntry ==
  ASSUME TypeInv
  PROVE  /\ isr = "saveCell" /\ MoreToSave(cell) =>
              cell \in Nat /\ cell \div 5 \in Slots /\ cell \div 5 < remoteCount
         /\ reset = "readCell" /\ MoreToSave(resetCell) =>
              resetCell \in Nat /\ resetCell \div 5 \in Slots
<1>1. /\ MAX_REMOTES \in Nat /\ remoteCount \in Nat /\ remoteCount < MAX_REMOTES
      /\ cell \in Nat /\ resetCell \in Nat
  BY RegistryAssumption DEF RegistryAssumption, TypeInv, TableInv, HandlerTypes, ResetTypes, Counts
<1>2. isr = "saveCell" /\ MoreToSave(cell) => cell \div 5 < remoteCount
  BY DEF TypeInv, HandlerTypes, MoreToSave
<1>3. reset = "readCell" /\ MoreToSave(resetCell) =>
        resetCell \div 5 < remoteCount \/ resetCell \div 5 \in Slots
  BY DEF TypeInv, ResetTypes, InEntry, MoreToSave
<1>4. \A k \in Nat : k \div 5 \in Nat
  BY BytePlace
<1>5. QED
  BY <1>1, <1>2, <1>3, <1>4 DEF Slots

LEMMA ResetTypesNext == TypeInv /\ [Next]_vars => ResetTypes'
<1> SUFFICES ASSUME TypeInv, [Next]_vars PROVE ResetTypes'
  OBVIOUS
<1> USE DEF TypeInv, ResetTypes, InEntry
<1>m. MAX_REMOTES \in Nat \ {0} /\ remoteCount \in Nat
  BY RegistryAssumption DEF RegistryAssumption, TableInv, Counts
<1>0. UNCHANGED console => ResetTypes'
  BY DEF console
<1>1. CASE ResetReadCell
  <2>1. resetCell \in Nat /\ resetCell \div 5 \in Slots /\ resetCell % 5 \in Places
    BY <1>1, SavedEntry, BytePlace DEF ResetReadCell
  <2>2. ByteOf(remotes[resetCell \div 5], resetCell % 5) \in Byte
    BY <2>1, ByteType DEF CellTypes
  <2>3. tmp' \in Byte /\ tmp' \in Nat
    BY <1>1, <2>2, RegistryAssumption DEF RegistryAssumption, ResetReadCell, Byte
  <2>4. QED
    BY <1>1, <2>1, <2>3 DEF ResetReadCell
<1>2. CASE ResetWriteCell
  <2>1. resetCell \in Nat /\ resetCell \div 5 \in Slots
    BY <1>2, <1>m DEF ResetWriteCell
  <2>2. resetCell + 1 \in 0 .. 5 * MAX_REMOTES
    BY <1>m, <2>1 DEF Slots
  <2>3. (resetCell + 1) % 5 # 0 => (resetCell + 1) \div 5 \in Slots
    BY <2>1, BytePlace
  <2>4. QED
    BY <1>2, <2>2, <2>3 DEF ResetWriteCell
<1>3. CASE ResetCommand \/ ResetReadCount
  BY <1>3, <1>m DEF ResetCommand, ResetReadCount
<1>4. CASE ResetWriteCount \/ ResetDone \/ Crash
  <2>1. resetCell' \in 0 .. 5 * MAX_REMOTES /\ resetCell' % 5 = 0 /\ tmp' \in Nat
    BY <1>4, <1>m DEF ResetWriteCount, ResetDone, Crash
  <2>2. reset' \in {"none", "readCell"}
    BY <1>4 DEF ResetWriteCount, ResetDone, Crash
  <2>3. QED
    BY <2>1, <2>2
<1>5. CASE Interrupt
  BY <1>0, <1>5 DEF Interrupt, ReceiveNormal, ReceiveProg, ReceiveGarbled, NewFrame, SaveCount,
     SaveCell, SaveDone, CheckValid, CheckInvalid, Act
<1>6. CASE OpenProgMode \/ ProgModeTimeout \/ UNCHANGED vars
  BY <1>0, <1>6 DEF OpenProgMode, ProgModeTimeout, vars
<1>7. ASSUME NEW d \in Remotes, Press(d) \/ Release(d) PROVE ResetTypes'
  BY <1>0, <1>7 DEF Press, Release, DeviceRest
<1>8. QED
  BY <1>1, <1>2, <1>3, <1>4, <1>5, <1>6, <1>7 DEF Next, Background

LEMMA CellTypesNext == TypeInv /\ [Next]_vars => CellTypes'
<1> SUFFICES ASSUME TypeInv, [Next]_vars PROVE CellTypes'
  OBVIOUS
<1> USE DEF TypeInv, CellTypes
<1>m. MAX_REMOTES \in Nat \ {0} /\ remoteCount \in 0 .. MAX_REMOTES - 1
      /\ eeCount \in 0 .. MAX_REMOTES - 1
  BY RegistryAssumption DEF RegistryAssumption, TableInv, Counts
<1>0. UNCHANGED <<remotes, eeRemotes>> => CellTypes'
  OBVIOUS
<1>w. ASSUME NEW i \in Slots, NEW k \in Places, NEW v \in Byte
      PROVE  [eeRemotes EXCEPT ![i] = WithByte(@, k, v)] \in [Slots -> Entry]
  <2>1. WithByte(eeRemotes[i], k, v) \in Entry
    BY ByteWritten
  <2>2. QED
    BY <2>1
<1>1. ASSUME NEW f \in OnAir, ReceiveNormal(f) \/ ReceiveProg(f) PROVE CellTypes'
  <2>1. f \in Frame /\ eeRemotes' = eeRemotes
    BY <1>1, OnAirType DEF ReceiveNormal, ReceiveProg, NewFrame, eeprom
  <2>2. CASE ReceiveProg(f) /\ Known(f.address)
    <3> DEFINE k == findRemoteWithAddress(f.address)
    <3>1. k \in 0 .. remoteCount - 1
      BY <1>m, <2>2, FindKnown
    <3>2. remotes' = Without(k)
      BY <2>2 DEF ReceiveProg, deleteRemote
    <3> HIDE DEF k
    <3>3. Without(k) \in [Slots -> Entry]
      BY <1>m, <3>1 DEF Without, Slots
    <3>4. QED
      BY <2>1, <3>2, <3>3
  <2>3. CASE ReceiveProg(f) /\ ~Known(f.address)
    <3>1. EntryOf(f) \in Entry
      BY <2>1, RemotesAreAddresses DEF EntryOf, Entry, Frame
    <3>2. QED
      BY <2>1, <2>3, <3>1 DEF ReceiveProg, addRemote, ram
  <2>4. CASE ReceiveNormal(f)
    BY <2>1, <2>4 DEF ReceiveNormal, ram
  <2>5. QED
    BY <1>1, <2>2, <2>3, <2>4
<1>2. CASE SaveCell
  <2>1. cell \in Nat /\ cell \div 5 \in Slots /\ cell % 5 \in Places
    BY <1>2, SavedEntry, BytePlace DEF SaveCell
  <2>2. ByteOf(remotes[cell \div 5], cell % 5) \in Byte
    BY <2>1, ByteType
  <2>3. eeRemotes' \in [Slots -> Entry]
    BY <1>2, <1>w, <2>1, <2>2 DEF SaveCell
  <2>4. QED
    BY <1>2, <2>3 DEF SaveCell, ram
<1>3. CASE ResetWriteCell
  <2>1. resetCell \div 5 \in Slots /\ resetCell % 5 \in Places /\ tmp \in Byte
    BY <1>3, <1>m, BytePlace DEF ResetWriteCell, ResetTypes, InEntry
  <2>2. eeRemotes' \in [Slots -> Entry]
    BY <1>3, <1>w, <2>1 DEF ResetWriteCell
  <2>3. QED
    BY <1>3, <2>2 DEF ResetWriteCell, ram
<1>4. CASE CheckValid
  <2>1. index \in Slots /\ rx.code \in Codes
    BY <1>4 DEF CheckValid, TableInv, HandlerTypes, Frame
  <2>2. remotes' = [remotes EXCEPT ![index].code = rx.code]
    BY <1>4 DEF CheckValid
  <2>3. remotes' \in [Slots -> Entry]
    BY <2>1, <2>2 DEF Entry
  <2>4. QED
    BY <1>4, <2>3 DEF CheckValid, eeprom
<1>5. CASE Crash
  <2>1. Zeroed \in Entry
    BY BlankTypes
  <2>2. QED
    BY <1>5, <2>1 DEF Crash, loadRemotes, eeprom
<1>6. CASE ReceiveGarbled \/ SaveCount \/ SaveDone \/ CheckInvalid \/ Act
  BY <1>0, <1>6 DEF ReceiveGarbled, NewFrame, SaveCount, SaveDone, CheckInvalid, Act, ram, eeprom
<1>7. CASE \/ OpenProgMode \/ ProgModeTimeout \/ ResetCommand \/ ResetReadCount
           \/ ResetWriteCount \/ ResetReadCell \/ ResetDone
  BY <1>0, <1>7 DEF OpenProgMode, ProgModeTimeout, ResetCommand, ResetReadCount,
     ResetWriteCount, ResetReadCell, ResetDone, ram, eeprom
<1>8. ASSUME NEW d \in Remotes, Press(d) \/ Release(d) PROVE CellTypes'
  BY <1>0, <1>8 DEF Press, Release, DeviceRest, ram, eeprom
<1>9. CASE UNCHANGED vars
  BY <1>0, <1>9 DEF vars, ram, eeprom
<1>10. QED
  BY <1>1, <1>2, <1>3, <1>4, <1>5, <1>6, <1>7, <1>8, <1>9 DEF Next, Interrupt, Background

LEMMA TypeInvAlways == Spec => []TypeInv
<1>1. Init => TypeInv
  <2> SUFFICES ASSUME Init PROVE TypeInv
    OBVIOUS
  <2> USE RegistryAssumption DEF RegistryAssumption
  <2>1. TableInv
    BY DEF Init, TableInv, Counts, Labels
  <2>2. CellTypes
    BY BlankTypes DEF Init, CellTypes
  <2>3. ResetTypes /\ HandlerTypes
    BY DEF Init, ResetTypes, InEntry, HandlerTypes
  <2>4. DeviceTypes
    <3>1. \A d \in Remotes : MaxPresses[d] \in Nat
      OBVIOUS
    <3>2. /\ presses = [d \in Remotes |-> 0]
          /\ button = [d \in Remotes |-> "door"]
          /\ onAir = [d \in Remotes |-> FALSE]
      BY DEF Init
    <3>3. presses \in [Remotes -> Nat] /\ \A d \in Remotes : presses[d] \in 0 .. MaxPresses[d]
      BY <3>1, <3>2
    <3>4. button \in [Remotes -> Buttons] /\ onAir \in [Remotes -> BOOLEAN]
      BY <3>2 DEF Buttons
    <3>5. QED
      BY <3>3, <3>4 DEF DeviceTypes
  <2>5. HistoryTypes
    <3>1. served = [d \in Remotes |-> 0] /\ mixed = [d \in Remotes |-> FALSE]
      BY DEF Init
    <3>2. served \in [Remotes -> 0 .. 2] /\ mixed \in [Remotes -> BOOLEAN]
      BY <3>1
    <3>3. /\ lastFrame = NoFrame /\ progModeEnabled = FALSE
          /\ saved = {} /\ admitted = {}
      BY DEF Init
    <3>4. QED
      BY <3>2, <3>3 DEF HistoryTypes
  <2>6. QED
    BY <2>1, <2>2, <2>3, <2>4, <2>5 DEF TypeInv
<1>2. TypeInv /\ [Next]_vars => TypeInv'
  BY NextTableInv, CellTypesNext, ResetTypesNext, HandlerTypesNext, DeviceTypesNext,
     HistoryTypesNext DEF TypeInv
<1>3. QED
  BY <1>1, <1>2, PTL DEF Spec

(* Every variable keeps its type, through power failures, resets and noise:*)
(* what is put together from the bytes of two entries is still an entry.   *)
THEOREM TypeCorrect == Spec => []TypeOK
BY TypeInvAlways, TypeInvIsTypeOK, PTL

(* Every place the program looks a code up in, and every byte a save copies*)
(* also while the radio interrupt changes the count under it, belongs to a *)
(* cell of the array, through power failures and resets.                   *)
THEOREM TableStaysWithinBounds == Spec => []TableWithinBounds
<1>1. TypeInv => TableWithinBounds
  <2> SUFFICES ASSUME TypeInv PROVE TableWithinBounds
    OBVIOUS
  <2>1. isr \in {"check", "act"} => index \in Slots /\ index <= remoteCount
    BY RegistryAssumption DEF RegistryAssumption, TypeInv, TableInv, Counts, Slots
  <2>2. reset = "writeCell" => resetCell \div 5 \in Slots
    BY DEF TypeInv, ResetTypes, InEntry
  <2>3. QED
    BY <2>1, <2>2, SavedEntry DEF TableWithinBounds
<1>2. QED
  BY <1>1, TypeInvAlways, PTL

-----------------------------------------------------------------------------
(* The copy in EEPROM.  While saveRemotes() runs, the bytes it has written *)
(* already agree with the table: that makes the agreement after the last   *)
(* one inductive.                                                          *)
SavedUpTo(n) ==
  /\ eeCount = remoteCount
  /\ \A i \in 0 .. remoteCount - 1 : \A k \in Places :
       5 * i + k < n => ByteOf(eeRemotes[i], k) = ByteOf(remotes[i], k)

Mirrored ==
  /\ eeCount = remoteCount
  /\ \A i \in 0 .. remoteCount - 1 : eeRemotes[i] = remotes[i]

MirrorInv ==
  /\ reset = "none"
  /\ isr = "saveCount" => cell = 0
  /\ isr = "saveCell" => SavedUpTo(cell)
  /\ isr \notin {"saveCount", "saveCell"} => Mirrored

(* The last byte written completes the copy.                               *)
LEMMA SavedUpToEnd ==
  ASSUME TypeInv, isr = "saveCell", SavedUpTo(cell), ~MoreToSave(cell)
  PROVE  Mirrored
<1>1. cell \in Nat /\ remoteCount \in Nat /\ remoteCount <= MAX_REMOTES - 1
      /\ MAX_REMOTES \in Nat
  BY RegistryAssumption DEF RegistryAssumption, TypeInv, TableInv, HandlerTypes, Counts
<1>2. cell % 5 = 0 /\ cell \div 5 >= remoteCount
  BY <1>1 DEF MoreToSave
<1>3. \A i \in 0 .. remoteCount - 1 : \A k \in Places : 5 * i + k < cell
  BY <1>1, <1>2 DEF Places
<1>4. ASSUME NEW i \in 0 .. remoteCount - 1 PROVE eeRemotes[i] = remotes[i]
  <2>1. \A k \in Places : ByteOf(eeRemotes[i], k) = ByteOf(remotes[i], k)
    BY <1>3 DEF SavedUpTo
  <2>2. eeRemotes[i] \in Entry /\ remotes[i] \in Entry
    BY <1>1 DEF TypeInv, CellTypes, Slots
  <2>3. QED
    BY <2>1, <2>2, FiveBytes
<1>5. QED
  BY <1>4 DEF Mirrored, SavedUpTo

(* Each byte written adds one to those that agree.                         *)
LEMMA SaveCellMirrors ==
  ASSUME TypeInv, MirrorInv, SaveCell
  PROVE  MirrorInv'
<1> DEFINE c == cell \div 5
           m == cell % 5
           v == ByteOf(remotes[c], m)
<1>1. /\ cell \in Nat /\ c \in Slots /\ c \in Nat /\ c < remoteCount
      /\ m \in Places /\ cell = 5 * c + m
  BY SavedEntry, BytePlace DEF SaveCell
<1>2. /\ eeRemotes' = [eeRemotes EXCEPT ![c] = WithByte(@, m, v)]
      /\ cell' = cell + 1
      /\ UNCHANGED <<remoteCount, remotes, eeCount, isr, reset>> /\ isr = "saveCell"
  BY DEF SaveCell, ram, console
<1>3. eeRemotes \in [Slots -> Entry] /\ remotes[c] \in Entry /\ eeRemotes[c] \in Entry
  BY <1>1 DEF TypeInv, CellTypes
<1>4. v \in Byte
  BY <1>1, <1>3, ByteType
<1> HIDE DEF c, m, v
<1>5. /\ \A i \in Slots : i # c => eeRemotes'[i] = eeRemotes[i]
      /\ eeRemotes'[c] = WithByte(eeRemotes[c], m, v)
  BY <1>1, <1>2, <1>3
<1>6. \A k \in Places : ByteOf(eeRemotes'[c], k) = IF k = m THEN v ELSE ByteOf(eeRemotes[c], k)
  BY <1>1, <1>3, <1>4, <1>5, ByteWritten
<1>7. SavedUpTo(cell)
  BY <1>2 DEF MirrorInv
<1>8. ASSUME NEW i \in 0 .. remoteCount - 1, NEW k \in Places, 5 * i + k < cell + 1
      PROVE  ByteOf(eeRemotes'[i], k) = ByteOf(remotes[i], k)
  <2>0. remoteCount \in 0 .. MAX_REMOTES - 1 /\ MAX_REMOTES \in Nat
    BY RegistryAssumption DEF RegistryAssumption, TypeInv, TableInv, Counts
  <2>1. CASE i # c
    <3>1. 5 * i + k < cell /\ i \in Slots
      BY <1>1, <1>8, <2>0, <2>1 DEF Places, Slots
    <3>2. QED
      BY <1>5, <1>7, <2>1, <3>1 DEF SavedUpTo
  <2>2. CASE i = c /\ k = m
    BY <1>6, <2>2 DEF v
  <2>3. CASE i = c /\ k # m
    <3>1. 5 * i + k < cell
      BY <1>1, <1>8, <2>0, <2>3 DEF Places
    <3>2. QED
      BY <1>6, <1>7, <2>3, <3>1 DEF SavedUpTo
  <2>4. QED
    BY <2>1, <2>2, <2>3
<1>9. SavedUpTo(cell)'
  BY <1>2, <1>7, <1>8 DEF SavedUpTo
<1>10. QED
  BY <1>2, <1>9 DEF MirrorInv

LEMMA NextMirrorInv ==
  ASSUME TypeInv, MirrorInv, [Next]_vars, ~ResetCommand
  PROVE  MirrorInv'
<1> USE DEF MirrorInv
<1>0. UNCHANGED <<ram, eeprom, reset, isr, cell>> => MirrorInv'
  BY DEF ram, eeprom, Mirrored, SavedUpTo
<1>s. ASSUME isr' = "saveCount", cell' = 0, reset' = reset PROVE MirrorInv'
  BY <1>s
<1>1. ASSUME NEW f \in OnAir, ReceiveNormal(f) PROVE MirrorInv'
  BY <1>1 DEF ReceiveNormal, NewFrame, Idle, console, handler, ram, eeprom, Mirrored
<1>2. ASSUME NEW f \in OnAir, ReceiveProg(f) PROVE MirrorInv'
  BY <1>0, <1>2, <1>s DEF ReceiveProg, NewFrame, addRemote, deleteRemote, Save, console, handler
<1>3. CASE SaveCount
  <2>1. TypeInv /\ cell = 0 /\ cell' = 0 /\ eeCount' = remoteCount' /\ isr' = "saveCell"
        /\ reset' = reset
    BY <1>3 DEF SaveCount, ram, console
  <2>2. remoteCount' \in Nat
    BY <1>3, RegistryAssumption
       DEF RegistryAssumption, SaveCount, ram, TypeInv, TableInv, Counts
  <2>a. \A i \in 0 .. remoteCount' - 1 : \A k \in Places : ~(5 * i + k < cell')
    BY <2>1, <2>2 DEF Places
  <2>3. SavedUpTo(cell)'
    BY <2>1, <2>a, Zenon DEF SavedUpTo
  <2>4. QED
    BY <2>1, <2>3
<1>4. CASE SaveCell
  BY <1>4, SaveCellMirrors
<1>5. CASE SaveDone
  <2>1. Mirrored
    BY <1>5, SavedUpToEnd DEF SaveDone
  <2>2. UNCHANGED <<ram, eeprom, reset>> /\ isr' \in {"idle", "check", "act"}
    BY <1>5 DEF SaveDone, Return, console, TypeInv, TableInv
  <2>3. QED
    BY <2>1, <2>2 DEF Mirrored, ram, eeprom
<1>6. CASE CheckValid
  BY <1>6, <1>s DEF CheckValid, Save, console
<1>7. CASE CheckInvalid \/ Act
  BY <1>7 DEF CheckInvalid, Act, Return, ram, eeprom, console, Mirrored
<1>8. CASE ReceiveGarbled \/ OpenProgMode \/ ProgModeTimeout
  BY <1>0, <1>8 DEF ReceiveGarbled, NewFrame, OpenProgMode, ProgModeTimeout, handler, console
<1>9. CASE \/ ResetReadCount \/ ResetWriteCount \/ ResetReadCell \/ ResetWriteCell \/ ResetDone
  BY <1>9 DEF ResetReadCount, ResetWriteCount, ResetReadCell, ResetWriteCell, ResetDone
<1>10. CASE Crash
  <2>1. /\ remoteCount' = eeCount /\ UNCHANGED <<eeCount, eeRemotes>>
        /\ remotes' = [i \in Slots |-> IF i < eeCount THEN eeRemotes[i] ELSE Zeroed]
        /\ isr' = "idle" /\ reset' = "none"
    BY <1>10 DEF Crash, loadRemotes, Return, eeprom
  <2>2. \A i \in 0 .. eeCount - 1 : i \in Slots /\ i < eeCount
    BY RegistryAssumption DEF RegistryAssumption, TypeInv, TableInv, Counts, Slots
  <2>3. Mirrored'
    BY <2>1, <2>2 DEF Mirrored
  <2>4. QED
    BY <2>1, <2>3
<1>11. ASSUME NEW d \in Remotes, Press(d) \/ Release(d) PROVE MirrorInv'
  BY <1>0, <1>11 DEF Press, Release, DeviceRest, handler, console
<1>12. CASE UNCHANGED vars
  BY <1>0, <1>12 DEF vars, handler, console
<1>13. QED
  BY <1>1, <1>2, <1>3, <1>4, <1>5, <1>6, <1>7, <1>8, <1>9, <1>10, <1>11, <1>12
     DEF Next, Interrupt, Background

(* Only the reset command counts a reset.                                  *)
LEMMA ResetsKept ==
  ASSUME [Next]_vars, ~ResetCommand
  PROVE  resets' = resets
<1> USE DEF NewFrame, DeviceRest, counts
<1>1. ASSUME NEW f \in OnAir, ReceiveNormal(f) \/ ReceiveProg(f) PROVE resets' = resets
  BY <1>1 DEF ReceiveNormal, ReceiveProg
<1>2. CASE \/ ReceiveGarbled \/ SaveCount \/ SaveCell \/ SaveDone
           \/ CheckValid \/ CheckInvalid \/ Act
  BY <1>2 DEF ReceiveGarbled, SaveCount, SaveCell, SaveDone, CheckValid, CheckInvalid, Act
<1>3. CASE Background \/ Crash
  BY <1>3 DEF Background, OpenProgMode, ProgModeTimeout, ResetReadCount, ResetWriteCount,
     ResetReadCell, ResetWriteCell, ResetDone, Crash
<1>4. ASSUME NEW d \in Remotes, Press(d) \/ Release(d) PROVE resets' = resets
  BY <1>4 DEF Press, Release
<1>5. CASE UNCHANGED vars
  BY <1>5 DEF vars
<1>6. QED
  BY <1>1, <1>2, <1>3, <1>4, <1>5 DEF Next, Interrupt

(* Whenever no save is going on, the EEPROM holds the table, also after any*)
(* number of power failures in the middle of earlier saves: the table read *)
(* back is the one half written.                                           *)
THEOREM NothingIsLostBetweenSaves == Spec => []EepromMirrors
<1> DEFINE IInv == resets \in Nat /\ (resets = 0 => MirrorInv)
<1>1. Init => IInv
  BY DEF Init, MirrorInv, Mirrored
<1>2. TypeInv /\ IInv /\ [Next]_vars => IInv'
  <2> SUFFICES ASSUME TypeInv, IInv, [Next]_vars PROVE IInv'
    OBVIOUS
  <2>1. CASE ResetCommand
    BY <2>1 DEF ResetCommand
  <2>2. CASE ~ResetCommand
    BY <2>2, ResetsKept, NextMirrorInv
  <2>3. QED
    BY <2>1, <2>2
<1>3. IInv => EepromMirrors
  BY DEF MirrorInv, Mirrored, EepromMirrors
<1>4. QED
  BY <1>1, <1>2, <1>3, TypeInvAlways, PTL DEF Spec

-----------------------------------------------------------------------------
(* The frame of one press.  What processFrame() works on is the last frame *)
(* received; and once it has served a press that nothing has mixed with,   *)
(* that press is either over or its frame is the last one received, which  *)
(* the comparison with lastFrame refuses.                                  *)
WorksOnLast == isr # "idle" => rx = lastFrame

ServedOnce(d) ==
  served[d] # 0 /\ ~mixed[d] =>
    /\ onAir[d] => lastFrame = FrameOf(d)
    /\ isr # "idle" => rx # FrameOf(d)

RepeatInv == WorksOnLast /\ \A d \in Remotes : ServedOnce(d) /\ (served[d] = 2 => mixed[d])

(* What a remote sends depends on that remote only.                        *)
LEMMA FrameOfSame ==
  ASSUME NEW d \in Remotes, presses'[d] = presses[d], button'[d] = button[d]
  PROVE  FrameOf(d)' = FrameOf(d)
BY DEF FrameOf, Code

(* A new frame is another one than that of a press already served, or it is*)
(* mixed with it.                                                          *)
LEMMA NewFrameRepeatInv ==
  ASSUME TypeInv, RepeatInv, NEW f, NewFrame(f),
         isr' # "idle" =>
           /\ rx' = f
           /\ \E e \in Remotes : onAir[e] /\ f = FrameOf(e)
  PROVE  RepeatInv'
<1>1. /\ isr = "idle" /\ f # lastFrame /\ lastFrame' = f
      /\ mixed' = [d \in Remotes |-> mixed[d] \/ (onAir[d] /\ f # FrameOf(d))]
      /\ UNCHANGED <<devices, served>>
  BY DEF NewFrame, Idle
<1>2. WorksOnLast'
  BY <1>1 DEF WorksOnLast
<1>3. ASSUME NEW d \in Remotes PROVE ServedOnce(d)' /\ (served[d] = 2 => mixed[d])'
  <2>1. FrameOf(d)' = FrameOf(d) /\ onAir'[d] = onAir[d] /\ served'[d] = served[d]
    BY <1>1, FrameOfSame DEF devices
  <2>2. mixed'[d] <=> (mixed[d] \/ (onAir[d] /\ f # FrameOf(d)))
    BY <1>1, Zenon
  <2>3. served[d] = 2 => mixed[d]
    BY DEF RepeatInv
  <2>4. (served[d] = 2 => mixed[d])'
    BY <2>1, <2>2, <2>3, Zenon
  <2>5. ASSUME served'[d] # 0, ~mixed'[d] PROVE ~onAir'[d] /\ (isr' # "idle" => rx' # FrameOf(d)')
    <3>1. served[d] # 0 /\ ~mixed[d] /\ (onAir[d] => f = FrameOf(d))
      BY <2>1, <2>2, <2>5, Zenon
    <3>2. ~onAir[d]
      BY <1>1, <3>1 DEF RepeatInv, ServedOnce
    <3>3. ASSUME isr' # "idle" PROVE rx' # FrameOf(d)
      <4>1. PICK e \in Remotes : onAir[e] /\ f = FrameOf(e)
        BY <3>3
      <4>2. e # d
        BY <3>2, <4>1
      <4>3. QED
        BY <3>3, <4>1, <4>2 DEF FrameOf
    <3>4. QED
      BY <2>1, <3>2, <3>3
  <2>6. QED
    BY <2>4, <2>5 DEF ServedOnce
<1>4. QED
  BY <1>2, <1>3 DEF RepeatInv

LEMMA NextRepeatInv ==
  ASSUME Misread = {}, TypeInv, RepeatInv, [Next]_vars
  PROVE  RepeatInv'
<1>0. ASSUME UNCHANGED <<lastFrame, devices, served, mixed>>,
             isr' = "idle" \/ (isr # "idle" /\ rx' = rx)
      PROVE  RepeatInv'
  <2>1. WorksOnLast'
    BY <1>0 DEF RepeatInv, WorksOnLast
  <2>2. ASSUME NEW d \in Remotes PROVE ServedOnce(d)' /\ (served[d] = 2 => mixed[d])'
    <3>1. FrameOf(d)' = FrameOf(d)
      BY <1>0, FrameOfSame DEF devices
    <3>2. QED
      BY <1>0, <3>1 DEF RepeatInv, ServedOnce, devices
  <2>3. QED
    BY <2>1, <2>2 DEF RepeatInv
<1>1. ASSUME NEW f \in OnAir, ReceiveNormal(f) \/ ReceiveProg(f) PROVE RepeatInv'
  <2>1. \E e \in Remotes : onAir[e] /\ f = FrameOf(e)
    BY DEF OnAir
  <2>2. NewFrame(f) /\ isr = "idle"
    BY <1>1 DEF ReceiveNormal, ReceiveProg, NewFrame, Idle
  <2>3. isr' # "idle" => rx' = f
    BY <1>1, <2>2 DEF ReceiveNormal, ReceiveProg, addRemote, deleteRemote, handler
  <2>4. QED
    BY <2>1, <2>2, <2>3, NewFrameRepeatInv
<1>2. CASE ReceiveGarbled
  BY <1>2, NewFrameRepeatInv DEF ReceiveGarbled, NewFrame, Idle, handler
<1>3. CASE SaveCount \/ SaveCell \/ SaveDone \/ CheckValid \/ CheckInvalid
  BY <1>0, <1>3 DEF SaveCount, SaveCell, SaveDone, CheckValid, CheckInvalid, Save, Return,
     history, TypeInv, TableInv
<1>4. CASE Act
  <2> DEFINE a == rx.address
  <2>1. /\ isr = "act" /\ isr' = "idle"
        /\ UNCHANGED <<lastFrame, devices, mixed>>
        /\ served' = [served EXCEPT ![a] = IF rx = FrameOf(a) /\ rx.button = "door" /\ @ < 2
                                           THEN @ + 1 ELSE @]
    BY <1>4 DEF Act, Return
  <2>2. rx = lastFrame /\ a \in Remotes
    BY <2>1 DEF RepeatInv, WorksOnLast, TypeInv, HandlerTypes, Frame
  <2>3. served \in [Remotes -> 0 .. 2]
    BY DEF TypeInv, HistoryTypes
  <2>4. ASSUME NEW d \in Remotes PROVE ServedOnce(d)' /\ (served[d] = 2 => mixed[d])'
    <3>1. FrameOf(d)' = FrameOf(d)
      BY <2>1, FrameOfSame DEF devices
    <3>2. CASE served'[d] = served[d]
      BY <2>1, <3>1, <3>2 DEF RepeatInv, ServedOnce, devices
    <3>3. CASE served'[d] # served[d]
      <4>1. d = a /\ rx = FrameOf(d) /\ served'[d] = served[d] + 1 /\ served[d] \in 0 .. 2
        BY <2>1, <2>2, <2>3, <3>3
      <4>2. ServedOnce(d)'
        BY <2>1, <2>2, <3>1, <4>1 DEF ServedOnce
      <4>3. ASSUME served'[d] = 2 PROVE mixed'[d]
        <5>1. served[d] # 0
          BY <4>1, <4>3
        <5>2. mixed[d]
          BY <2>1, <4>1, <5>1 DEF RepeatInv, ServedOnce
        <5>3. QED
          BY <2>1, <5>2
      <4>4. QED
        BY <4>2, <4>3
    <3>4. QED
      BY <3>2, <3>3
  <2>5. WorksOnLast'
    BY <2>1 DEF WorksOnLast
  <2>6. QED
    BY <2>4, <2>5 DEF RepeatInv
<1>5. CASE Background
  <2>1. UNCHANGED <<lastFrame, devices, served, mixed, isr, rx>> /\ isr = "idle"
    BY <1>5 DEF Background, OpenProgMode, ProgModeTimeout, ResetCommand, ResetReadCount,
       ResetWriteCount, ResetReadCell, ResetWriteCell, ResetDone, LoopRest, Idle, handler, history
  <2>2. QED
    BY <1>0, <2>1
<1>6. CASE Crash
  <2>1. /\ isr' = "idle" /\ UNCHANGED <<devices, served>>
        /\ mixed' = [d \in Remotes |-> mixed[d] \/ onAir[d]]
    BY <1>6 DEF Crash, Return
  <2>2. ASSUME NEW d \in Remotes PROVE ServedOnce(d)' /\ (served[d] = 2 => mixed[d])'
    <3>1. mixed'[d] <=> (mixed[d] \/ onAir[d])
      BY <2>1, Zenon
    <3>2. served'[d] = served[d] /\ onAir'[d] = onAir[d]
      BY <2>1 DEF devices
    <3>3. (served[d] = 2 => mixed[d])'
      BY <3>1, <3>2, Zenon DEF RepeatInv
    <3>4. ServedOnce(d)'
      BY <2>1, <3>1, <3>2 DEF ServedOnce
    <3>5. QED
      BY <3>3, <3>4
  <2>3. QED
    BY <2>1, <2>2 DEF RepeatInv, WorksOnLast
<1>7. ASSUME NEW e \in Remotes, Press(e) PROVE RepeatInv'
  <2>1. /\ presses' = [presses EXCEPT ![e] = @ + 1]
        /\ served' = [served EXCEPT ![e] = 0]
        /\ UNCHANGED <<lastFrame, isr, rx>>
    BY <1>7 DEF Press, DeviceRest, handler
  <2>2. \E b \in Buttons : button' = [button EXCEPT ![e] = b]
    BY <1>7 DEF Press
  <2>3. onAir' = [onAir EXCEPT ![e] = TRUE] /\ mixed' = [mixed EXCEPT ![e] = FALSE]
    BY <1>7 DEF Press
  <2>4. ASSUME NEW d \in Remotes PROVE ServedOnce(d)' /\ (served[d] = 2 => mixed[d])'
    <3>1. CASE d = e
      <4>1. served'[d] = 0
        BY <2>1, <3>1 DEF TypeInv, HistoryTypes
      <4>2. QED
        BY <4>1 DEF ServedOnce
    <3>2. CASE d # e
      <4>1. presses'[d] = presses[d] /\ served'[d] = served[d] /\ button'[d] = button[d]
        BY <2>1, <2>2, <3>2 DEF TypeInv, HistoryTypes, DeviceTypes
      <4>2. onAir'[d] = onAir[d] /\ mixed'[d] = mixed[d]
        BY <2>3, <3>2 DEF TypeInv, HistoryTypes, DeviceTypes
      <4>3. FrameOf(d)' = FrameOf(d)
        BY <4>1, FrameOfSame
      <4>4. QED
        BY <2>1, <4>1, <4>2, <4>3 DEF RepeatInv, ServedOnce
    <3>3. QED
      BY <3>1, <3>2
  <2>5. QED
    BY <2>1, <2>4 DEF RepeatInv, WorksOnLast
<1>8. ASSUME NEW e \in Remotes, Release(e) PROVE RepeatInv'
  <2>1. /\ onAir' = [onAir EXCEPT ![e] = FALSE]
        /\ UNCHANGED <<lastFrame, isr, rx, presses, button, served, mixed>>
    BY <1>8 DEF Release, DeviceRest, handler, history
  <2>2. ASSUME NEW d \in Remotes PROVE ServedOnce(d)' /\ (served[d] = 2 => mixed[d])'
    <3>1. FrameOf(d)' = FrameOf(d)
      BY <2>1, FrameOfSame
    <3>2. onAir'[d] => onAir[d]
      BY <2>1 DEF TypeInv, DeviceTypes
    <3>3. QED
      BY <2>1, <3>1, <3>2 DEF RepeatInv, ServedOnce
  <2>3. QED
    BY <2>1, <2>2 DEF RepeatInv, WorksOnLast
<1>9. CASE UNCHANGED vars
  <2>1. UNCHANGED <<lastFrame, devices, served, mixed, isr, rx>>
    BY <1>9 DEF vars, handler, history
  <2>2. ASSUME NEW d \in Remotes PROVE ServedOnce(d)' /\ (served[d] = 2 => mixed[d])'
    <3>1. FrameOf(d)' = FrameOf(d)
      BY <2>1, FrameOfSame DEF devices
    <3>2. QED
      BY <2>1, <3>1 DEF RepeatInv, ServedOnce, devices
  <2>3. QED
    BY <2>1, <2>2 DEF RepeatInv, WorksOnLast
<1>10. QED
  BY <1>1, <1>2, <1>3, <1>4, <1>5, <1>6, <1>7, <1>8, <1>9 DEF Next, Interrupt

(* Where noise makes no frame of its own, a button that is held, its frame *)
(* sent again and again, asks for two actions only if another frame or a   *)
(* restart came in between.                                                *)
THEOREM HeldButtonActsOnce == ASSUME Misread = {} PROVE Spec => []RepeatsIgnored
<1>1. Init => RepeatInv
  <2> SUFFICES ASSUME Init PROVE RepeatInv
    OBVIOUS
  <2>1. isr = "idle" /\ served = [d \in Remotes |-> 0]
    BY DEF Init
  <2>2. QED
    BY <2>1 DEF RepeatInv, WorksOnLast, ServedOnce
<1>2. TypeInv /\ RepeatInv /\ [Next]_vars => RepeatInv'
  BY NextRepeatInv
<1>3. RepeatInv => RepeatsIgnored
  BY DEF RepeatInv, RepeatsIgnored
<1>4. QED
  BY <1>1, <1>2, <1>3, TypeInvAlways, PTL DEF Spec


-----------------------------------------------------------------------------
(* The arithmetic of the rolling codes.                                    *)

(* The remainder is the only one of its kind.                              *)
LEMMA Remainder ==
  ASSUME NEW m \in Nat, m > 0, NEW x \in Int, NEW q \in Int, NEW r \in 0 .. m - 1,
         x = m * q + r
  PROVE  x % m = r
<1> DEFINE d == x \div m
           s == x % m
<1>1. d \in Int /\ s \in 0 .. m - 1 /\ x = m * d + s
  OBVIOUS
<1> HIDE DEF d, s
<1>2. m * (q - d) = s - r
  <2>1. m * (q - d) = m * q - m * d
    BY <1>1
  <2>2. QED
    BY <1>1, <2>1
<1>3. CASE q - d >= 1
  <2>1. m * (q - d) >= m
    BY <1>1, <1>3
  <2>2. QED
    BY <1>1, <1>2, <2>1
<1>4. CASE q - d <= -1
  <2>1. m * (q - d) <= -m
    BY <1>1, <1>4
  <2>2. QED
    BY <1>1, <1>2, <2>1
<1>5. CASE q = d
  BY <1>1, <1>5 DEF s
<1>6. QED
  BY <1>1, <1>3, <1>4, <1>5

(* What the lemmas about codes need of the constants.                      *)
LEMMA CodeCounts == CodeMod \in Nat /\ CodeMod > 0 /\ Window \in Nat /\ 0 < Window /\ Window < CodeMod
BY RegistryAssumption DEF RegistryAssumption

(* How far a code is ahead, without remainders.                            *)
LEMMA AheadIs ==
  ASSUME NEW c \in Codes, NEW s \in Codes
  PROVE  Ahead(c, s) = IF c >= s THEN c - s ELSE c - s + CodeMod
<1> USE CodeCounts DEF Codes
<1>1. CASE c >= s
  <2>1. c - s + CodeMod = CodeMod * 1 + (c - s) /\ c - s \in 0 .. CodeMod - 1
    BY <1>1
  <2>2. QED
    BY <1>1, <2>1, Remainder DEF Ahead
<1>2. CASE ~(c >= s)
  <2>1. c - s + CodeMod = CodeMod * 0 + (c - s + CodeMod)
        /\ c - s + CodeMod \in 0 .. CodeMod - 1
    BY <1>2
  <2>2. QED
    BY <1>2, <2>1, Remainder DEF Ahead
<1>3. QED
  BY <1>1, <1>2

(* What adding n to both codes makes of them.                              *)
LEMMA Shifted ==
  ASSUME NEW c \in Codes, NEW n \in Nat
  PROVE  LET r == n % CodeMod
         IN  (c + n) % CodeMod = IF c + r < CodeMod THEN c + r ELSE c + r - CodeMod
<1> USE CodeCounts DEF Codes
<1> DEFINE r == n % CodeMod
           q == n \div CodeMod
<1>1. q \in Int /\ r \in 0 .. CodeMod - 1 /\ n = CodeMod * q + r
  OBVIOUS
<1> HIDE DEF q, r
<1>2. CASE c + r < CodeMod
  <2>1. c + n = CodeMod * q + (c + r) /\ c + r \in 0 .. CodeMod - 1 /\ c + n \in Int
    BY <1>1, <1>2
  <2>2. (c + n) % CodeMod = c + r
    BY <1>1, <2>1, Remainder
  <2>3. QED
    BY <1>2, <2>2 DEF r
<1>3. CASE ~(c + r < CodeMod)
  <2>1. c + n = CodeMod * (q + 1) + (c + r - CodeMod)
        /\ c + r - CodeMod \in 0 .. CodeMod - 1 /\ c + n \in Int
    BY <1>1, <1>3
  <2>a. CodeMod \in Nat /\ CodeMod > 0 /\ q + 1 \in Int
    BY <1>1
  <2> HIDE DEF Codes
  <2>2. (c + n) % CodeMod = c + r - CodeMod
    BY <2>1, <2>a, Remainder
  <2>3. QED
    BY <1>3, <2>2 DEF r
<1>4. QED
  BY <1>2, <1>3

(* The second attempt, "in case of overflow", accepts nothing that the     *)
(* first one does not: the comparison is the same.                         *)
LEMMA SecondAttemptIsFirst ==
  ASSUME NEW c \in Codes, NEW s \in Codes
  PROVE  Ahead((c + 100) % CodeMod, (s + 100) % CodeMod) = Ahead(c, s)
<1> USE CodeCounts
<1> DEFINE r == 100 % CodeMod
           cc == (c + 100) % CodeMod
           ss == (s + 100) % CodeMod
<1>0. 100 \in Nat /\ r \in Codes
  BY DEF Codes
<1>1. /\ cc = IF c + r < CodeMod THEN c + r ELSE c + r - CodeMod
      /\ ss = IF s + r < CodeMod THEN s + r ELSE s + r - CodeMod
  BY <1>0, Shifted, Zenon
<1> HIDE DEF r, cc, ss
<1>2. cc \in Codes /\ ss \in Codes
  BY <1>0, <1>1 DEF Codes
<1>3. Ahead(cc, ss) = Ahead(c, s)
  BY <1>0, <1>1, <1>2, AheadIs DEF Codes
<1>4. QED
  BY <1>3 DEF cc, ss

(* isRollingCodeValid(): through every overflow of the two bytes, and for  *)
(* any window, a code is valid exactly when it is ahead by less than that. *)
THEOREM OverflowTestAddsNothing ==
  ASSUME NEW c \in Codes, NEW s \in Codes
  PROVE  isRollingCodeValid(c, s) <=> Ahead(c, s) < Window
BY SecondAttemptIsFirst DEF isRollingCodeValid

(* A valid code is the stored one moved ahead by less than the window.     *)
LEMMA ValidIsAhead ==
  ASSUME NEW c \in Codes, NEW s \in Codes, isRollingCodeValid(c, s)
  PROVE  \E n \in 0 .. Window - 1 : c = (s + n) % CodeMod
<1> USE CodeCounts
<1> DEFINE n == Ahead(c, s)
<1>1. n < Window /\ n = (IF c >= s THEN c - s ELSE c - s + CodeMod)
  BY OverflowTestAddsNothing, AheadIs
<1> HIDE DEF n
<1>2. n \in 0 .. Window - 1
  BY <1>1 DEF Codes
<1>3. s + n \in Nat /\ (s + n = CodeMod * 0 + c \/ s + n = CodeMod * 1 + c)
  BY <1>1 DEF Codes
<1>4. (s + n) % CodeMod = c
  BY <1>3, Remainder DEF Codes
<1>5. QED
  BY <1>2, <1>4

-----------------------------------------------------------------------------
(* A table of n entries: the remotes in it, and the first place of each.   *)
In(n, t)       == {t[i].address : i \in 0 .. n - 1}
IsFirst(i, n, t, a) ==
  /\ i \in 0 .. n - 1 /\ t[i].address = a
  /\ \A j \in 0 .. i - 1 : t[j].address # a
First(n, t, a) == CHOOSE i \in 0 .. n - 1 : t[i].address = a
                                            /\ \A j \in 0 .. i - 1 : t[j].address # a
CodesIn(n, t)  == [a \in In(n, t) |-> t[First(n, t, a)].code]

LEMMA FirstIs ==
  ASSUME NEW n \in Nat, NEW t, NEW a \in In(n, t)
  PROVE  IsFirst(First(n, t, a), n, t, a)
<1> DEFINE T == {i \in 0 .. n - 1 : t[i].address = a}
<1>1. T \in SUBSET Nat /\ T # {}
  BY DEF In
<1>2. PICK k \in T : \A j \in T : k <= j
  BY <1>1, LeastElement, Zenon
<1>3. /\ k \in 0 .. n - 1
      /\ t[k].address = a
      /\ \A j \in 0 .. k - 1 : t[j].address # a
  BY <1>2
<1>4. QED
  BY <1>3, Zenon DEF First, IsFirst

LEMMA FirstIsOne ==
  ASSUME NEW n \in Nat, NEW t, NEW a, NEW i, IsFirst(i, n, t, a)
  PROVE  a \in In(n, t) /\ First(n, t, a) = i
<1>1. a \in In(n, t)
  BY DEF In, IsFirst
<1>2. IsFirst(First(n, t, a), n, t, a)
  BY <1>1, FirstIs
<1>3. QED
  BY <1>1, <1>2 DEF IsFirst

(* The program's table, before and after a step.                           *)
StoredCodes == [a \in KnownSet |-> Stored(a)]

LEMMA CodesAreIn ==
  /\ KnownSet = In(remoteCount, remotes)
  /\ StoredCodes = CodesIn(remoteCount, remotes)
  /\ KnownSet' = In(remoteCount', remotes')
  /\ StoredCodes' = CodesIn(remoteCount', remotes')
<1>1. KnownSet = In(remoteCount, remotes) /\ KnownSet' = In(remoteCount', remotes')
  BY DEF KnownSet, In
<1>2. \A a \in KnownSet : findRemoteWithAddress(a) = First(remoteCount, remotes, a)
  BY DEF findRemoteWithAddress, First, Known
<1>3. \A a \in KnownSet' : findRemoteWithAddress(a)' = First(remoteCount', remotes', a)
  BY DEF findRemoteWithAddress, First, Known
<1>4. \A a \in KnownSet : Stored(a) = remotes[First(remoteCount, remotes, a)].code
  BY <1>2 DEF Stored
<1>5. \A a \in KnownSet' : Stored(a)' = remotes'[First(remoteCount', remotes', a)].code
  BY <1>3 DEF Stored
<1>6. StoredCodes = CodesIn(remoteCount, remotes)
  BY <1>1, <1>4 DEF StoredCodes, CodesIn
<1>7. StoredCodes' = CodesIn(remoteCount', remotes')
  BY <1>1, <1>5 DEF StoredCodes, CodesIn
<1>8. QED
  BY <1>1, <1>6, <1>7

(* Adding a remote that is not in the table.                               *)
IsAdded(a, n, t, u) ==
  /\ n \in Nat /\ a \in Remotes /\ a \notin In(n, t)
  /\ \A i \in 0 .. n - 1 : u[i] = t[i]
  /\ u[n].address = a

LEMMA AddedCodes ==
  ASSUME NEW n, NEW t, NEW u, NEW a, IsAdded(a, n, t, u)
  PROVE  /\ In(n + 1, u) = In(n, t) \cup {a}
         /\ CodesIn(n + 1, u)[a] = u[n].code
         /\ \A b \in In(n, t) : b # a /\ CodesIn(n + 1, u)[b] = CodesIn(n, t)[b]
<1> USE DEF IsAdded
<1>1. IsFirst(n, n + 1, u, a)
  BY DEF IsFirst, In
<1>2. a \in In(n + 1, u) /\ First(n + 1, u, a) = n
  BY <1>1, FirstIsOne
<1>3. ASSUME NEW b \in In(n, t)
      PROVE  /\ b \in In(n + 1, u) /\ b # a
             /\ u[First(n + 1, u, b)].code = t[First(n, t, b)].code
  <2> DEFINE i == First(n, t, b)
  <2>1. IsFirst(i, n, t, b)
    BY FirstIs
  <2> HIDE DEF i
  <2>2. IsFirst(i, n + 1, u, b) /\ u[i] = t[i]
    BY <2>1 DEF IsFirst
  <2>3. b \in In(n + 1, u) /\ First(n + 1, u, b) = i
    BY <2>2, FirstIsOne DEF In
  <2>4. QED
    BY <2>2, <2>3 DEF i
<1>4. ASSUME NEW b \in In(n + 1, u), b # a PROVE b \in In(n, t)
  BY <1>4 DEF In
<1>5. In(n + 1, u) = In(n, t) \cup {a}
  BY <1>2, <1>3, <1>4
<1>6. QED
  BY <1>2, <1>3, <1>5 DEF CodesIn

(* Taking out the first entry of a remote.                                 *)
IsTakenOut(a, k, n, t, u) ==
  /\ n \in Nat /\ a \in In(n, t) /\ k = First(n, t, a)
  /\ \A i \in 0 .. n - 2 : u[i] = IF i >= k THEN t[i + 1] ELSE t[i]

LEMMA DeletedCodes ==
  ASSUME NEW n, NEW t, NEW u, NEW a, NEW k, IsTakenOut(a, k, n, t, u)
  PROVE  /\ n - 1 \in Nat
         /\ In(n - 1, u) \ {a} = In(n, t) \ {a}
         /\ \A b \in In(n, t) \ {a} : CodesIn(n - 1, u)[b] = CodesIn(n, t)[b]
<1> USE DEF IsTakenOut
<1>1. IsFirst(k, n, t, a)
  BY FirstIs
<1>2. n - 1 \in Nat /\ k \in 0 .. n - 1
  BY <1>1 DEF IsFirst
<1>3. ASSUME NEW b \in In(n, t) \ {a}
      PROVE  /\ b \in In(n - 1, u)
             /\ u[First(n - 1, u, b)].code = t[First(n, t, b)].code
  <2> DEFINE i == First(n, t, b)
             j == IF i > k THEN i - 1 ELSE i
  <2>1. IsFirst(i, n, t, b)
    BY FirstIs
  <2> HIDE DEF i
  <2>2. i # k /\ i \in 0 .. n - 1
    BY <1>1, <2>1 DEF IsFirst
  <2>3. j \in 0 .. n - 2 /\ u[j] = t[i]
    BY <1>2, <2>2
  <2>4. ASSUME NEW m \in 0 .. j - 1 PROVE u[m].address # b
    <3>1. CASE m < k
      BY <1>2, <2>1, <2>2, <2>3, <3>1 DEF IsFirst
    <3>2. CASE ~(m < k)
      <4>1. m + 1 \in 0 .. i - 1 /\ u[m] = t[m + 1]
        BY <1>2, <2>2, <2>3, <3>2
      <4>2. QED
        BY <2>1, <4>1 DEF IsFirst
    <3>3. QED
      BY <3>1, <3>2
  <2>5. IsFirst(j, n - 1, u, b)
    BY <1>2, <2>1, <2>3, <2>4 DEF IsFirst
  <2>6. b \in In(n - 1, u) /\ First(n - 1, u, b) = j
    BY <1>2, <2>5, FirstIsOne DEF In
  <2>7. QED
    BY <2>3, <2>6 DEF i
<1>4. ASSUME NEW b \in In(n - 1, u) PROVE b \in In(n, t)
  <2>1. PICK i \in 0 .. n - 2 : u[i].address = b
    BY <1>2 DEF In
  <2>2. \E m \in 0 .. n - 1 : t[m].address = b
    BY <1>2, <2>1
  <2>3. QED
    BY <2>2 DEF In
<1>5. QED
  BY <1>2, <1>3, <1>4 DEF CodesIn

(* Writing a code into the entry k.                                        *)
IsCoded(k, c, n, t, u) ==
  /\ n \in Nat
  /\ \A i \in 0 .. n - 1 : /\ u[i].address = t[i].address
                           /\ i # k => u[i] = t[i]
  /\ k \in 0 .. n - 1 => u[k].code = c

LEMMA CodedCodes ==
  ASSUME NEW n, NEW t, NEW u, NEW k, NEW c, IsCoded(k, c, n, t, u)
  PROVE  \/ CodesIn(n, u) = CodesIn(n, t)
         \/ \E a \in In(n, t) :
              /\ k = First(n, t, a)
              /\ In(n, u) = In(n, t)
              /\ \A b \in In(n, t) : CodesIn(n, u)[b] = IF b = a THEN c ELSE CodesIn(n, t)[b]
<1> USE DEF IsCoded
<1>1. In(n, u) = In(n, t)
  BY DEF In
<1>2. ASSUME NEW b \in In(n, t)
      PROVE  /\ First(n, u, b) = First(n, t, b)
             /\ First(n, t, b) \in 0 .. n - 1
             /\ t[First(n, t, b)].address = b
  <2> DEFINE i == First(n, t, b)
  <2>1. IsFirst(i, n, t, b)
    BY FirstIs
  <2> HIDE DEF i
  <2>2. IsFirst(i, n, u, b)
    BY <2>1 DEF IsFirst
  <2>3. First(n, u, b) = i
    BY <2>2, FirstIsOne DEF In
  <2>4. QED
    BY <2>1, <2>3 DEF i, IsFirst
<1>3. CASE \E a \in In(n, t) : k = First(n, t, a)
  <2>1. PICK a \in In(n, t) : k = First(n, t, a)
    BY <1>3
  <2>2. \A b \in In(n, t) : u[First(n, u, b)].code = (IF b = a THEN c ELSE CodesIn(n, t)[b])
    BY <1>2, <2>1 DEF CodesIn
  <2>3. QED
    BY <1>1, <2>1, <2>2 DEF CodesIn
<1>4. CASE ~\E a \in In(n, t) : k = First(n, t, a)
  <2>1. \A b \in In(n, t) : u[First(n, u, b)].code = t[First(n, t, b)].code
    BY <1>2, <1>4
  <2>2. QED
    BY <1>1, <2>1 DEF CodesIn
<1>5. QED
  BY <1>3, <1>4

(* A table in which no remote is twice has as many remotes as entries.     *)
LEMMA AsManyRemotes ==
  ASSUME NEW n \in Nat, NEW t,
         \A i \in 0 .. n - 1 : t[i].address \in Remotes,
         \A i, j \in 0 .. n - 1 : t[i].address = t[j].address => i = j
  PROVE  Cardinality(In(n, t)) = n
<1> DEFINE S == 0 .. n - 1
           g == [i \in S |-> t[i].address]
<1>1. IsFiniteSet(S) /\ Cardinality(S) = n
  BY FS_Interval
<1>2. g \in Bijection(S, In(n, t))
  <2>1. g \in [S -> In(n, t)]
    BY DEF In
  <2>2. \A i, j \in S : g[i] = g[j] => i = j
    OBVIOUS
  <2>3. \A a \in In(n, t) : \E i \in S : g[i] = a
    BY DEF In
  <2>4. QED
    BY <2>1, <2>2, <2>3 DEF Bijection, Injection, Surjection, IsInjective
<1>3. ExistsBijection(S, In(n, t))
  BY <1>2 DEF ExistsBijection
<1>4. QED
  BY <1>1, <1>3, FS_Bijection

-----------------------------------------------------------------------------
(* Where addresses come from.  Each byte of an address in the table, in its*)
(* copy and in what the reset command has read was written for a remote    *)
(* that was added once, or is a byte of the EEPROM that never was.  What is*)
(* beyond the table in RAM counts as well while the reset command copies   *)
(* the entry that the radio interrupt has taken out under it.              *)
Piece(k) == {b[k] : b \in admitted \cup {Blank}}

PiecesOnly(e) == \A k \in 1 .. 3 : e.address[k] \in Piece(k)

OnlyAdmitted ==
  /\ \A i \in 0 .. remoteCount - 1 : PiecesOnly(remotes[i])
  /\ InEntry => PiecesOnly(remotes[resetCell \div 5])
  /\ \A i \in Slots : PiecesOnly(eeRemotes[i])
  /\ reset = "writeCell" /\ resetCell % 5 >= 2 => tmp \in Piece((resetCell % 5) - 1)

(* An address byte that is a piece, or any code byte, may be written.      *)
LEMMA PieceWritten ==
  ASSUME NEW e \in Entry, PiecesOnly(e), NEW k \in Places, NEW v \in Byte,
         k >= 2 => v \in Piece(k - 1)
  PROVE  PiecesOnly(WithByte(e, k, v))
<1> SUFFICES ASSUME NEW n \in 1 .. 3 PROVE WithByte(e, k, v).address[n] \in Piece(n)
  BY DEF PiecesOnly
<1>1. n + 1 \in Places /\ n + 1 \notin {0, 1} /\ (n + 1) - 1 = n /\ (n + 1 = k => k >= 2 /\ k - 1 = n)
  BY DEF Places
<1>2. ByteOf(WithByte(e, k, v), n + 1) = IF n + 1 = k THEN v ELSE ByteOf(e, n + 1)
  BY <1>1, ByteWritten
<1>3. /\ ByteOf(WithByte(e, k, v), n + 1) = WithByte(e, k, v).address[n]
      /\ ByteOf(e, n + 1) = e.address[n]
  BY <1>1 DEF ByteOf
<1>4. CASE n + 1 = k
  BY <1>1, <1>2, <1>3, <1>4
<1>5. CASE n + 1 # k
  BY <1>2, <1>3, <1>5 DEF PiecesOnly
<1>6. QED
  BY <1>4, <1>5

(* What is read of an entry of pieces is a piece.                          *)
LEMMA PieceRead ==
  ASSUME NEW e, PiecesOnly(e), NEW k \in Places, k >= 2
  PROVE  ByteOf(e, k) \in Piece(k - 1)
<1>1. k - 1 \in 1 .. 3 /\ k # 0 /\ k # 1
  BY DEF Places
<1>2. QED
  BY <1>1 DEF ByteOf, PiecesOnly

(* The pieces stay pieces when more remotes are admitted.                  *)
LEMMA PiecesGrow ==
  ASSUME admitted \subseteq admitted'
  PROVE  /\ \A k : Piece(k) \subseteq Piece(k)'
         /\ \A e : PiecesOnly(e) => PiecesOnly(e)'
<1>1. ASSUME NEW k PROVE Piece(k) \subseteq Piece(k)'
  BY DEF Piece
<1>2. ASSUME NEW e, PiecesOnly(e) PROVE PiecesOnly(e)'
  BY <1>1, <1>2 DEF PiecesOnly
<1>3. QED
  BY <1>1, <1>2

LEMMA NextOnlyAdmitted ==
  ASSUME TypeInv, OnlyAdmitted, [Next]_vars
  PROVE  OnlyAdmitted'
<1>m. /\ remoteCount \in 0 .. MAX_REMOTES - 1 /\ MAX_REMOTES \in Nat
      /\ resetCell \in Nat /\ cell \in Nat
  BY RegistryAssumption
     DEF RegistryAssumption, TypeInv, TableInv, ResetTypes, HandlerTypes, Counts
<1>e. /\ remotes \in [Slots -> Entry] /\ eeRemotes \in [Slots -> Entry]
  BY DEF TypeInv, CellTypes
<1>0. ASSUME UNCHANGED <<remotes, eeRemotes, admitted>>,
             remoteCount' = remoteCount \/ remoteCount' = 0,
             UNCHANGED <<resetCell, tmp, reset>> \/ ~InEntry'
      PROVE  OnlyAdmitted'
  <2>1. \A e : PiecesOnly(e) => PiecesOnly(e)'
    BY <1>0, PiecesGrow
  <2>2. (InEntry => InEntry)' /\ ((\A i \in 0 .. remoteCount - 1 : PiecesOnly(remotes[i])))'
    BY <1>0, <2>1 DEF OnlyAdmitted
  <2>3. (InEntry => PiecesOnly(remotes[resetCell \div 5]))'
    BY <1>0, <2>1 DEF OnlyAdmitted, InEntry
  <2>4. (\A i \in Slots : PiecesOnly(eeRemotes[i]))'
    BY <1>0, <2>1 DEF OnlyAdmitted
  <2>5. (reset = "writeCell" /\ resetCell % 5 >= 2 => tmp \in Piece((resetCell % 5) - 1))'
    BY <1>0 DEF OnlyAdmitted, Piece, InEntry
  <2>6. QED
    BY <2>2, <2>3, <2>4, <2>5 DEF OnlyAdmitted
<1>1. ASSUME NEW f \in OnAir, ReceiveNormal(f) PROVE OnlyAdmitted'
  BY <1>0, <1>1 DEF ReceiveNormal, NewFrame, ram, eeprom, console
<1>2. ASSUME NEW f \in OnAir, ReceiveProg(f) PROVE OnlyAdmitted'
  <2>1. UNCHANGED <<eeRemotes, resetCell, tmp, reset>>
    BY <1>2 DEF ReceiveProg, NewFrame, eeprom, console
  <2>2. /\ admitted \subseteq admitted'
        /\ (\A i \in 0 .. remoteCount - 1 : PiecesOnly(remotes[i]))'
        /\ (InEntry => PiecesOnly(remotes[resetCell \div 5]))'
    <3>0. InEntry => resetCell \div 5 \in Slots
      BY DEF TypeInv, ResetTypes
    <3>1. CASE Known(f.address)
      <4> DEFINE k == findRemoteWithAddress(f.address)
      <4>1. admitted' = admitted /\ remotes' = Without(k) /\ remoteCount' = remoteCount - 1
        BY <1>2, <3>1 DEF ReceiveProg, deleteRemote
      <4>2. k \in 0 .. remoteCount - 1
        BY <1>m, <3>1, FindKnown
      <4> HIDE DEF k
      <4>3. \A i \in Slots : \/ Without(k)[i] = remotes[i]
                              \/ \E j \in 0 .. remoteCount - 1 : Without(k)[i] = remotes[j]
        BY <1>m, <4>2 DEF Without, Slots
      <4>4. \A i \in 0 .. remoteCount - 2 : i \in Slots /\ i \in 0 .. remoteCount - 1
        BY <1>m DEF Slots
      <4>5. \A e : PiecesOnly(e) => PiecesOnly(e)'
        BY <4>1, PiecesGrow
      <4>6. \A i \in 0 .. remoteCount - 2 : PiecesOnly(Without(k)[i])
        BY <4>3, <4>4 DEF OnlyAdmitted
      <4>7. InEntry => PiecesOnly(Without(k)[resetCell \div 5])
        BY <3>0, <4>3 DEF OnlyAdmitted
      <4>8. \A i \in 0 .. remoteCount' - 1 : i \in 0 .. remoteCount - 2
        BY <1>m, <4>1
      <4>9. QED
        BY <2>1, <4>1, <4>5, <4>6, <4>7, <4>8 DEF InEntry
    <3>2. CASE ~Known(f.address) /\ remoteCount >= MAX_REMOTES - 1
      <4>1. UNCHANGED <<remotes, remoteCount, admitted>>
        BY <1>2, <3>2 DEF ReceiveProg, addRemote, ram
      <4>2. \A e : PiecesOnly(e) => PiecesOnly(e)'
        BY <4>1, PiecesGrow
      <4>3. QED
        BY <2>1, <4>1, <4>2 DEF OnlyAdmitted, InEntry
    <3>3. CASE ~Known(f.address) /\ ~(remoteCount >= MAX_REMOTES - 1)
      <4>1. /\ admitted' = admitted \cup {f.address}
            /\ remotes' = [i \in Slots |-> IF i = remoteCount THEN EntryOf(f) ELSE remotes[i]]
            /\ remoteCount' = remoteCount + 1
        BY <1>2, <3>3 DEF ReceiveProg, addRemote
      <4>2. \A e : PiecesOnly(e) => PiecesOnly(e)'
        BY <4>1, PiecesGrow
      <4>3. ASSUME NEW e, e = EntryOf(f) PROVE PiecesOnly(e)'
        BY <4>1, <4>3 DEF PiecesOnly, Piece, EntryOf
      <4>4. \A i \in 0 .. remoteCount' - 1 : i \in Slots /\ (i # remoteCount => i \in 0 .. remoteCount - 1)
        BY <1>m, <3>3, <4>1 DEF Slots
      <4>5. \A i \in Slots : remotes'[i] = IF i = remoteCount THEN EntryOf(f) ELSE remotes[i]
        BY <4>1
      <4>6. (\A i \in 0 .. remoteCount - 1 : PiecesOnly(remotes[i]))'
        BY <4>2, <4>3, <4>4, <4>5 DEF OnlyAdmitted
      <4>7. (InEntry => PiecesOnly(remotes[resetCell \div 5]))'
        BY <2>1, <3>0, <4>2, <4>3, <4>5 DEF OnlyAdmitted, InEntry
      <4>8. QED
        BY <4>1, <4>6, <4>7
    <3>4. QED
      BY <3>1, <3>2, <3>3
  <2>3. (\A i \in Slots : PiecesOnly(eeRemotes[i]))'
    BY <2>1, <2>2, PiecesGrow DEF OnlyAdmitted
  <2>4. (reset = "writeCell" /\ resetCell % 5 >= 2 => tmp \in Piece((resetCell % 5) - 1))'
    BY <2>1, <2>2, PiecesGrow DEF OnlyAdmitted
  <2>5. QED
    BY <2>2, <2>3, <2>4 DEF OnlyAdmitted
<1>w. ASSUME NEW i \in Slots, NEW k \in Places, NEW v \in Byte, k >= 2 => v \in Piece(k - 1),
             eeRemotes' = [eeRemotes EXCEPT ![i] = WithByte(@, k, v)], admitted' = admitted
      PROVE  (\A j \in Slots : PiecesOnly(eeRemotes[j]))'
  <2>1. PiecesOnly(WithByte(eeRemotes[i], k, v))
    BY <1>e, <1>w, PieceWritten DEF OnlyAdmitted
  <2>2. \A j \in Slots : PiecesOnly(eeRemotes'[j])
    BY <1>e, <1>w, <2>1 DEF OnlyAdmitted
  <2>3. \A e : PiecesOnly(e) => PiecesOnly(e)'
    BY <1>w, PiecesGrow
  <2>4. QED
    BY <2>2, <2>3
<1>3. CASE SaveCell
  <2> DEFINE i == cell \div 5
             k == cell % 5
             v == ByteOf(remotes[i], k)
  <2>1. i \in Slots /\ i \in 0 .. remoteCount - 1 /\ k \in Places
    BY <1>m, <1>3, SavedEntry, BytePlace DEF SaveCell
  <2>2. /\ eeRemotes' = [eeRemotes EXCEPT ![i] = WithByte(@, k, v)]
        /\ UNCHANGED <<remoteCount, remotes, admitted, resetCell, tmp, reset>>
    BY <1>3 DEF SaveCell, ram, console, history
  <2>3. v \in Byte /\ (k >= 2 => v \in Piece(k - 1))
    BY <1>e, <2>1, ByteType, PieceRead DEF OnlyAdmitted
  <2> HIDE DEF i, k, v
  <2>4. (\A j \in Slots : PiecesOnly(eeRemotes[j]))'
    BY <1>w, <2>1, <2>2, <2>3
  <2>5. \A e : PiecesOnly(e) => PiecesOnly(e)'
    BY <2>2, PiecesGrow
  <2>6. QED
    BY <2>2, <2>4, <2>5 DEF OnlyAdmitted, InEntry, Piece
<1>4. CASE ResetWriteCell
  <2> DEFINE i == resetCell \div 5
             k == resetCell % 5
  <2>1. i \in Slots /\ k \in Places /\ tmp \in Byte /\ (k >= 2 => tmp \in Piece(k - 1))
        /\ PiecesOnly(remotes[i])
    BY <1>m, <1>4, BytePlace DEF ResetWriteCell, TypeInv, ResetTypes, InEntry, OnlyAdmitted
  <2>2. /\ eeRemotes' = [eeRemotes EXCEPT ![i] = WithByte(@, k, tmp)]
        /\ UNCHANGED <<remoteCount, remotes, admitted>>
        /\ reset' = "readCell" /\ resetCell' = resetCell + 1
    BY <1>4 DEF ResetWriteCell, ram, LoopRest
  <2>3. InEntry' => resetCell' \div 5 = i
    BY <1>m, <2>2, BytePlace DEF InEntry
  <2> HIDE DEF i, k
  <2>4. (\A j \in Slots : PiecesOnly(eeRemotes[j]))'
    BY <1>w, <2>1, <2>2
  <2>5. \A e : PiecesOnly(e) => PiecesOnly(e)'
    BY <2>2, PiecesGrow
  <2>6. (InEntry => PiecesOnly(remotes[resetCell \div 5]))'
    BY <2>1, <2>2, <2>3, <2>5
  <2>7. QED
    BY <2>2, <2>4, <2>5, <2>6 DEF OnlyAdmitted
<1>5. CASE ResetReadCell
  <2> DEFINE i == resetCell \div 5
             k == resetCell % 5
  <2>1. i \in Slots /\ k \in Places
    BY <1>m, <1>5, SavedEntry, BytePlace DEF ResetReadCell
  <2>2. PiecesOnly(remotes[i])
    BY <1>m, <1>5, <2>1 DEF ResetReadCell, MoreToSave, OnlyAdmitted, InEntry, Slots
  <2>3. /\ UNCHANGED <<remoteCount, remotes, eeRemotes, admitted, resetCell>>
        /\ tmp' = ByteOf(remotes[i], k) /\ reset' = "writeCell"
    BY <1>5 DEF ResetReadCell, ram, eeprom, LoopRest
  <2>4. k >= 2 => tmp' \in Piece(k - 1)
    BY <2>1, <2>2, <2>3, PieceRead
  <2>5. (\A e : PiecesOnly(e) => PiecesOnly(e)') /\ Piece(k - 1)' = Piece(k - 1)
    BY <2>3, PiecesGrow DEF Piece
  <2>6. QED
    BY <2>2, <2>3, <2>4, <2>5 DEF OnlyAdmitted
<1>6. CASE CheckValid
  <2>1. /\ remotes' = [remotes EXCEPT ![index].code = rx.code] /\ index \in Slots
        /\ UNCHANGED <<remoteCount, eeRemotes, admitted, resetCell, tmp, reset>>
    BY <1>6, <1>m DEF CheckValid, eeprom, console, history, TypeInv, TableInv, Slots
  <2>2. \A i \in Slots : remotes'[i].address = remotes[i].address
    BY <1>e, <2>1 DEF Entry
  <2>3. \A e : PiecesOnly(e) => PiecesOnly(e)'
    BY <2>1, PiecesGrow
  <2>4. \A i \in Slots : PiecesOnly(remotes[i]) => PiecesOnly(remotes'[i])
    BY <2>2 DEF PiecesOnly
  <2>5. (InEntry => resetCell \div 5 \in Slots) /\ \A i \in 0 .. remoteCount - 1 : i \in Slots
    BY <1>m DEF TypeInv, ResetTypes, Slots
  <2>6. QED
    BY <2>1, <2>3, <2>4, <2>5 DEF OnlyAdmitted, InEntry, Piece
<1>7. CASE Crash
  <2>1. /\ remotes' = [i \in Slots |-> IF i < eeCount THEN eeRemotes[i] ELSE Zeroed]
        /\ remoteCount' = eeCount
        /\ UNCHANGED <<eeRemotes, admitted>> /\ reset' = "none"
    BY <1>7 DEF Crash, loadRemotes, eeprom
  <2>2. \A i \in 0 .. eeCount - 1 : i \in Slots /\ i < eeCount
    BY <1>m DEF TypeInv, TableInv, Counts, Slots
  <2>3. \A e : PiecesOnly(e) => PiecesOnly(e)'
    BY <2>1, PiecesGrow
  <2>4. \A i \in 0 .. eeCount - 1 : remotes'[i] = eeRemotes[i]
    BY <2>1, <2>2
  <2>5. QED
    BY <2>1, <2>2, <2>3, <2>4 DEF OnlyAdmitted, InEntry
<1>8. CASE \/ ReceiveGarbled \/ SaveCount \/ SaveDone \/ CheckInvalid \/ Act
           \/ OpenProgMode \/ ProgModeTimeout
  BY <1>0, <1>8 DEF ReceiveGarbled, NewFrame, SaveCount, SaveDone, CheckInvalid, Act,
     OpenProgMode, ProgModeTimeout, ram, eeprom, console, history
<1>9. CASE ResetCommand \/ ResetReadCount \/ ResetWriteCount \/ ResetDone
  BY <1>0, <1>9 DEF ResetCommand, ResetReadCount, ResetWriteCount, ResetDone,
     LoopRest, ram, eeprom, InEntry
<1>10. ASSUME NEW d \in Remotes, Press(d) \/ Release(d) PROVE OnlyAdmitted'
  BY <1>0, <1>10 DEF Press, Release, DeviceRest, ram, eeprom, console, history
<1>11. CASE UNCHANGED vars
  BY <1>0, <1>11 DEF vars, ram, eeprom, console, history
<1>12. QED
  BY <1>1, <1>2, <1>3, <1>4, <1>5, <1>6, <1>7, <1>8, <1>9, <1>10, <1>11
     DEF Next, Interrupt, Background

LEMMA OnlyAdmittedAlways == Spec => []OnlyAdmitted
<1>1. Init => OnlyAdmitted
  <2> SUFFICES ASSUME Init PROVE OnlyAdmitted
    OBVIOUS
  <2>1. PiecesOnly(Erased)
    BY DEF PiecesOnly, Piece, Erased
  <2>2. QED
    BY <2>1 DEF Init, OnlyAdmitted, InEntry
<1>2. QED
  BY <1>1, NextOnlyAdmitted, TypeInvAlways, PTL DEF Spec

-----------------------------------------------------------------------------
(* Before the first power failure every counted entry holds a remote.      *)
CountedAreRemotes ==
  crashes \in Nat /\
    (crashes = 0 => \A i \in 0 .. remoteCount - 1 : remotes[i].address \in Remotes)

LEMMA NextCountedAreRemotes ==
  ASSUME TypeInv, CountedAreRemotes, [Next]_vars
  PROVE  CountedAreRemotes'
<1>m. remoteCount \in 0 .. MAX_REMOTES - 1 /\ MAX_REMOTES \in Nat
  BY RegistryAssumption DEF RegistryAssumption, TypeInv, TableInv, Counts
<1>0. ASSUME UNCHANGED <<remoteCount, remotes, crashes>> PROVE CountedAreRemotes'
  BY <1>0 DEF CountedAreRemotes
<1>1. ASSUME NEW f \in OnAir, ReceiveProg(f) PROVE CountedAreRemotes'
  <2>1. f.address \in Remotes /\ crashes' = crashes
    BY <1>1, OnAirType DEF ReceiveProg, NewFrame, counts, Frame
  <2>2. CASE Known(f.address)
    <3> DEFINE k == findRemoteWithAddress(f.address)
    <3>1. /\ remotes' = [i \in Slots |-> IF i \in k .. remoteCount - 2
                                         THEN remotes[i + 1] ELSE remotes[i]]
          /\ remoteCount' = remoteCount - 1 /\ k \in 0 .. remoteCount - 1
      BY <1>1, <1>m, <2>2, FindKnown DEF ReceiveProg, deleteRemote, Without
    <3> HIDE DEF k
    <3>2. \A i \in 0 .. remoteCount - 2 : i \in Slots
             /\ \E j \in 0 .. remoteCount - 1 : remotes'[i] = remotes[j]
      BY <1>m, <3>1 DEF Slots
    <3>3. QED
      BY <2>1, <3>1, <3>2, <1>m DEF CountedAreRemotes
  <2>3. CASE ~Known(f.address) /\ remoteCount >= MAX_REMOTES - 1
    BY <1>1, <1>0, <2>1, <2>3 DEF ReceiveProg, addRemote, ram
  <2>4. CASE ~Known(f.address) /\ ~(remoteCount >= MAX_REMOTES - 1)
    <3>1. /\ remoteCount' = remoteCount + 1
          /\ remotes' = [i \in Slots |-> IF i = remoteCount THEN EntryOf(f) ELSE remotes[i]]
      BY <1>1, <2>4 DEF ReceiveProg, addRemote
    <3>2. \A i \in 0 .. remoteCount : i \in Slots /\ (i # remoteCount => i \in 0 .. remoteCount - 1)
      BY <1>m, <2>4 DEF Slots
    <3>3. QED
      BY <1>m, <2>1, <3>1, <3>2 DEF EntryOf, CountedAreRemotes
  <2>5. QED
    BY <2>2, <2>3, <2>4
<1>2. CASE CheckValid
  <2>1. /\ remotes' = [remotes EXCEPT ![index].code = rx.code] /\ index \in Slots
        /\ UNCHANGED <<remoteCount, crashes>>
    BY <1>2 DEF CheckValid, counts, TypeInv, TableInv
  <2>2. \A i \in Slots : remotes'[i].address = remotes[i].address
    BY <2>1 DEF TypeInv, CellTypes, Entry
  <2>3. QED
    BY <1>m, <2>1, <2>2 DEF CountedAreRemotes, Slots
<1>3. CASE ResetCommand
  BY <1>3 DEF ResetCommand, LoopRest, CountedAreRemotes
<1>4. CASE Crash
  BY <1>4 DEF Crash, CountedAreRemotes
<1>5. ASSUME NEW f \in OnAir, ReceiveNormal(f) PROVE CountedAreRemotes'
  BY <1>0, <1>5 DEF ReceiveNormal, NewFrame, ram, counts
<1>6. CASE \/ ReceiveGarbled \/ SaveCount \/ SaveCell \/ SaveDone \/ CheckInvalid \/ Act
           \/ OpenProgMode \/ ProgModeTimeout \/ ResetReadCount \/ ResetWriteCount
           \/ ResetReadCell \/ ResetWriteCell \/ ResetDone
  BY <1>0, <1>6 DEF ReceiveGarbled, NewFrame, SaveCount, SaveCell, SaveDone, CheckInvalid, Act,
     OpenProgMode, ProgModeTimeout, ResetReadCount, ResetWriteCount, ResetReadCell,
     ResetWriteCell, ResetDone, LoopRest, ram, counts
<1>7. ASSUME NEW d \in Remotes, Press(d) \/ Release(d) PROVE CountedAreRemotes'
  BY <1>0, <1>7 DEF Press, Release, DeviceRest, ram, counts
<1>8. CASE UNCHANGED vars
  BY <1>0, <1>8 DEF vars, ram, counts
<1>9. QED
  BY <1>1, <1>2, <1>3, <1>4, <1>5, <1>6, <1>7, <1>8 DEF Next, Interrupt, Background

LEMMA CountedAreRemotesAlways == Spec => []CountedAreRemotes
<1>1. Init => CountedAreRemotes
  BY DEF Init, CountedAreRemotes
<1>2. QED
  BY <1>1, NextCountedAreRemotes, TypeInvAlways, PTL DEF Spec

-----------------------------------------------------------------------------
(* The steps.                                                              *)
RefineInv == TypeInv /\ OnlyAdmitted /\ CountedAreRemotes /\ WholePower

(* The table's variables, apart from the codes.                            *)
Rest == <<progModeEnabled, lastFrame, admitted, crashes>>

LEMMA CountIsSmall ==
  ASSUME TypeInv
  PROVE  /\ remoteCount \in 0 .. MAX_REMOTES - 1 /\ remoteCount \in Nat
         /\ MAX_REMOTES \in Nat \ {0}
         /\ \A i \in 0 .. remoteCount - 1 : i \in Slots
BY RegistryAssumption DEF RegistryAssumption, TypeInv, TableInv, Counts, Slots

LEMMA CodesKept ==
  ASSUME UNCHANGED ram
  PROVE  StoredCodes' = StoredCodes /\ KnownSet' = KnownSet
BY CodesAreIn DEF ram

LEMMA Stutters ==
  ASSUME UNCHANGED ram, UNCHANGED Rest
  PROVE  UNCHANGED Table!vars
BY CodesKept DEF Rest, Table!vars, StoredCodes

LEMMA AdmitStep ==
  ASSUME RefineInv, NEW f \in OnAir, ReceiveProg(f), ~Known(f.address),
         ~(remoteCount >= MAX_REMOTES - 1)
  PROVE  Table!Admit(f)
<1>1. f \in Frame /\ f.address \in Remotes /\ f.address \notin KnownSet
  BY OnAirType DEF RefineInv, Frame, Known
<1>2. /\ remotes' = [i \in Slots |-> IF i = remoteCount THEN EntryOf(f) ELSE remotes[i]]
      /\ remoteCount' = remoteCount + 1
      /\ admitted' = admitted \cup {f.address}
      /\ progModeEnabled /\ progModeEnabled' = FALSE
      /\ f # lastFrame /\ lastFrame' = f /\ crashes' = crashes
  BY DEF ReceiveProg, addRemote, NewFrame, counts
<1>3. /\ \A i \in 0 .. remoteCount - 1 : remotes'[i] = remotes[i]
      /\ remotes'[remoteCount].address = f.address
      /\ remotes'[remoteCount].code = f.code
  BY <1>2, CountIsSmall DEF RefineInv, Slots, EntryOf
<1>4. StoredCodes' = [b \in KnownSet \cup {f.address} |->
                   IF b = f.address THEN f.code ELSE StoredCodes[b]]
  <2>1. IsAdded(f.address, remoteCount, remotes, remotes')
    BY <1>1, <1>3, CodesAreIn, CountIsSmall DEF RefineInv, IsAdded
  <2>2. /\ In(remoteCount + 1, remotes') = In(remoteCount, remotes) \cup {f.address}
        /\ CodesIn(remoteCount + 1, remotes')[f.address] = remotes'[remoteCount].code
        /\ \A b \in In(remoteCount, remotes) :
             /\ b # f.address
             /\ CodesIn(remoteCount + 1, remotes')[b] = CodesIn(remoteCount, remotes)[b]
    BY <2>1, AddedCodes
  <2>3. /\ KnownSet' = KnownSet \cup {f.address}
        /\ StoredCodes'[f.address] = f.code
        /\ \A b \in KnownSet : b # f.address /\ StoredCodes'[b] = StoredCodes[b]
    BY <1>2, <1>3, <2>2, CodesAreIn
  <2>4. StoredCodes' = [b \in KnownSet' |-> StoredCodes'[b]]
    BY DEF StoredCodes
  <2>5. QED
    BY <2>3, <2>4
<1>5. DOMAIN StoredCodes = KnownSet
  BY DEF StoredCodes
<1>6. StoredCodes' = [b \in (DOMAIN StoredCodes) \cup {f.address} |->
                   IF b = f.address THEN f.code ELSE StoredCodes[b]]
  BY <1>4, <1>5
<1>7. f.address \notin DOMAIN StoredCodes
  BY <1>1, <1>5
<1>8. QED
  BY <1>2, <1>6, <1>7 DEF Table!Admit, Table!Known, Table!Put, Table!Hear, StoredCodes

LEMMA RefuseStep ==
  ASSUME RefineInv, NEW f \in OnAir, ReceiveProg(f), ~Known(f.address),
         remoteCount >= MAX_REMOTES - 1
  PROVE  Table!Refuse(f)
<1>1. f.address \notin DOMAIN StoredCodes /\ DOMAIN StoredCodes = KnownSet
  BY OnAirType DEF RefineInv, Frame, Known, StoredCodes
<1>2. /\ UNCHANGED <<ram, admitted>>
      /\ progModeEnabled /\ progModeEnabled' = FALSE
      /\ f # lastFrame /\ lastFrame' = f /\ crashes' = crashes
  BY DEF ReceiveProg, addRemote, NewFrame, counts
<1>3. StoredCodes' = StoredCodes
  BY <1>2, CodesKept
<1>4. crashes = 0 => Cardinality(DOMAIN StoredCodes) = MAX_REMOTES - 1
  <2> SUFFICES ASSUME crashes = 0 PROVE Cardinality(DOMAIN StoredCodes) = MAX_REMOTES - 1
    OBVIOUS
  <2>1. \A i \in 0 .. remoteCount - 1 : remotes[i].address \in Remotes
    BY DEF RefineInv, CountedAreRemotes
  <2>2. \A i, j \in 0 .. remoteCount - 1 : remotes[i].address = remotes[j].address => i = j
    BY DEF RefineInv, WholePower, DupInv, Distinct
  <2>3. Cardinality(In(remoteCount, remotes)) = remoteCount
    BY <2>1, <2>2, AsManyRemotes, CountIsSmall DEF RefineInv
  <2>4. remoteCount = MAX_REMOTES - 1
    BY CountIsSmall DEF RefineInv
  <2>5. QED
    BY <1>1, <2>3, <2>4, CodesAreIn
<1>5. Table!Cardinality(DOMAIN StoredCodes) = Cardinality(DOMAIN StoredCodes)
  BY DEF Table!Cardinality, Cardinality
<1>6. QED
  BY <1>1, <1>2, <1>3, <1>4, <1>5 DEF Table!Refuse, Table!Known, Table!Hear, StoredCodes

LEMMA ForgetStep ==
  ASSUME RefineInv, NEW f \in OnAir, ReceiveProg(f), Known(f.address), RefineInv'
  PROVE  Table!Forget(f)
<1> DEFINE a == f.address
           k == findRemoteWithAddress(f.address)
<1>1. a \in KnownSet /\ DOMAIN StoredCodes = KnownSet /\ DOMAIN StoredCodes' = KnownSet'
  BY DEF Known, StoredCodes
<1>2. /\ remotes' = Without(k)
      /\ remoteCount' = remoteCount - 1
      /\ progModeEnabled /\ progModeEnabled' = FALSE
      /\ f # lastFrame /\ lastFrame' = f /\ UNCHANGED <<crashes, admitted>>
  BY DEF ReceiveProg, deleteRemote, NewFrame, counts
<1>3. k = First(remoteCount, remotes, a)
  BY DEF findRemoteWithAddress, First
<1> HIDE DEF k
<1>4. \A i \in 0 .. remoteCount - 2 :
        remotes'[i] = IF i >= k THEN remotes[i + 1] ELSE remotes[i]
  <2>1. k \in 0 .. remoteCount - 1
    BY CountIsSmall, FindKnown DEF RefineInv, k
  <2>2. \A i \in 0 .. remoteCount - 2 :
          i \in Slots /\ (i \in k .. remoteCount - 2 <=> i >= k)
    BY <2>1, CountIsSmall DEF RefineInv, Slots
  <2>3. QED
    BY <1>2, <2>2 DEF Without
<1>5. /\ KnownSet' \ {a} = KnownSet \ {a}
      /\ \A b \in KnownSet \ {a} : StoredCodes'[b] = StoredCodes[b]
  <2> HIDE DEF a
  <2>1. IsTakenOut(a, k, remoteCount, remotes, remotes')
    BY <1>1, <1>3, <1>4, CodesAreIn, CountIsSmall DEF RefineInv, IsTakenOut
  <2>2. /\ In(remoteCount - 1, remotes') \ {a} = In(remoteCount, remotes) \ {a}
        /\ \A b \in In(remoteCount, remotes) \ {a} :
             CodesIn(remoteCount - 1, remotes')[b] = CodesIn(remoteCount, remotes)[b]
    BY <2>1, DeletedCodes
  <2>3. QED
    BY <1>2, <2>2, CodesAreIn
<1>6. CASE a \notin KnownSet'
  <2>1. KnownSet' = (DOMAIN StoredCodes) \ {a}
    BY <1>1, <1>5, <1>6
  <2>2. StoredCodes' = [b \in KnownSet' |-> StoredCodes'[b]]
    BY DEF StoredCodes
  <2>3. StoredCodes' = [b \in (DOMAIN StoredCodes) \ {a} |-> StoredCodes[b]]
    BY <1>1, <1>5, <2>1, <2>2
  <2>4. QED
    BY <1>1, <1>2, <2>3 DEF Table!Forget, Table!Known, Table!Drop, Table!Hear, StoredCodes
<1>7. CASE a \in KnownSet'
  <2> DEFINE c == StoredCodes'[a]
  <2>1. KnownSet' = (DOMAIN StoredCodes) \cup {a}
    BY <1>1, <1>5, <1>7
  <2>2. StoredCodes' = [b \in KnownSet' |-> StoredCodes'[b]]
    BY DEF StoredCodes
  <2>3. StoredCodes' = [b \in (DOMAIN StoredCodes) \cup {a} |-> IF b = a THEN c ELSE StoredCodes[b]]
    BY <1>1, <1>5, <2>1, <2>2
  <2>4. c \in 0 .. CodeMod - 1
    <3>1. a \in In(remoteCount', remotes') /\ c = CodesIn(remoteCount', remotes')[a]
      BY <1>7, CodesAreIn
    <3>2. remoteCount' \in Nat
      BY <1>2, CountIsSmall, FindKnown DEF RefineInv
    <3>3. First(remoteCount', remotes', a) \in 0 .. remoteCount' - 1
      BY <3>1, <3>2, FirstIs DEF IsFirst
    <3>4. remotes' \in [Slots -> Entry] /\ First(remoteCount', remotes', a) \in Slots
      BY <1>2, <3>3, CountIsSmall DEF RefineInv, TypeInv, CellTypes, Slots
    <3>5. QED
      BY <3>1, <3>4 DEF CodesIn, Entry, Codes
  <2>5. crashes # 0
    <3> SUFFICES ASSUME crashes = 0 PROVE FALSE
      OBVIOUS
    <3>1. Distinct
      BY DEF RefineInv, WholePower, DupInv
    <3>2. PICK i \in 0 .. remoteCount - 2 : remotes'[i].address = a
      BY <1>2, <1>7, CountIsSmall DEF KnownSet, RefineInv
    <3>3. k \in 0 .. remoteCount - 1 /\ remotes[k].address = a
      BY CountIsSmall, FindKnown DEF RefineInv, k
    <3>4. PICK m \in 0 .. remoteCount - 1 : m # k /\ remotes[m].address = a
      BY <1>4, <3>2, <3>3, CountIsSmall DEF RefineInv
    <3>5. QED
      BY <3>1, <3>3, <3>4 DEF Distinct
  <2> HIDE DEF c
  <2>6. QED
    BY <1>1, <1>2, <2>3, <2>4, <2>5
       DEF Table!Forget, Table!Known, Table!Put, Table!Hear, StoredCodes
<1>8. QED
  BY <1>6, <1>7

(* What a valid code does to the codes stored.                             *)
LEMMA CheckedCodes ==
  ASSUME RefineInv, CheckValid
  PROVE  \/ StoredCodes' = StoredCodes
         \/ \E a \in KnownSet :
              /\ index = First(remoteCount, remotes, a)
              /\ StoredCodes' = [b \in KnownSet \cup {a} |-> IF b = a THEN rx.code ELSE StoredCodes[b]]
<1>1. /\ isRollingCodeValid(rx.code, remotes[index].code)
      /\ remotes' = [remotes EXCEPT ![index].code = rx.code]
      /\ remoteCount' = remoteCount /\ UNCHANGED Rest
      /\ index \in Slots /\ rx.code \in Codes
  BY DEF CheckValid, Rest, counts, history, RefineInv, TypeInv, TableInv, HandlerTypes, Frame
<1>2. remotes \in [Slots -> Entry] /\ remotes[index].code \in Codes
  BY <1>1 DEF RefineInv, TypeInv, CellTypes, Entry
<1>3. /\ \A i \in Slots : /\ remotes'[i].address = remotes[i].address
                          /\ i # index => remotes'[i] = remotes[i]
      /\ remotes'[index].code = rx.code
  BY <1>1, <1>2 DEF Entry
<1>4. IsCoded(index, rx.code, remoteCount, remotes, remotes')
  BY <1>3, CountIsSmall DEF RefineInv, IsCoded
<1>5. \/ CodesIn(remoteCount, remotes') = CodesIn(remoteCount, remotes)
      \/ \E a \in In(remoteCount, remotes) :
           /\ index = First(remoteCount, remotes, a)
           /\ In(remoteCount, remotes') = In(remoteCount, remotes)
           /\ \A b \in In(remoteCount, remotes) :
                CodesIn(remoteCount, remotes')[b] =
                  IF b = a THEN rx.code ELSE CodesIn(remoteCount, remotes)[b]
  BY <1>4, CodedCodes
<1>6. StoredCodes' = [b \in KnownSet' |-> StoredCodes'[b]]
  BY DEF StoredCodes
<1>7. /\ CodesIn(remoteCount', remotes') = CodesIn(remoteCount, remotes')
      /\ In(remoteCount', remotes') = In(remoteCount, remotes')
  BY <1>1
<1>8. CASE CodesIn(remoteCount, remotes') = CodesIn(remoteCount, remotes)
  BY <1>7, <1>8, CodesAreIn
<1>9. ASSUME NEW a \in In(remoteCount, remotes), index = First(remoteCount, remotes, a),
             In(remoteCount, remotes') = In(remoteCount, remotes),
             \A b \in In(remoteCount, remotes) :
               CodesIn(remoteCount, remotes')[b] =
                 IF b = a THEN rx.code ELSE CodesIn(remoteCount, remotes)[b]
      PROVE  /\ a \in KnownSet
             /\ index = First(remoteCount, remotes, a)
             /\ StoredCodes' = [b \in KnownSet \cup {a} |->
                                  IF b = a THEN rx.code ELSE StoredCodes[b]]
  <2>1. /\ KnownSet' = KnownSet \cup {a} /\ a \in KnownSet
        /\ \A b \in KnownSet : StoredCodes'[b] = IF b = a THEN rx.code ELSE StoredCodes[b]
    BY <1>1, <1>7, <1>9, CodesAreIn
  <2>2. QED
    BY <1>6, <1>7, <1>9, <2>1
<1>10. QED
  BY <1>5, <1>8, <1>9

LEMMA AdvanceStep ==
  ASSUME RefineInv, CheckValid
  PROVE  UNCHANGED Table!vars \/ \E a \in Table!Known : Table!Advance(a)
<1>1. /\ isRollingCodeValid(rx.code, remotes[index].code)
      /\ UNCHANGED Rest /\ index \in Slots /\ rx.code \in Codes
  BY DEF CheckValid, Rest, counts, history, RefineInv, TypeInv, TableInv, HandlerTypes, Frame
<1>2. remotes \in [Slots -> Entry] /\ remotes[index].code \in Codes
  BY <1>1 DEF RefineInv, TypeInv, CellTypes, Entry
<1>3. CASE StoredCodes' = StoredCodes
  BY <1>1, <1>3 DEF Rest, Table!vars, StoredCodes
<1>4. ASSUME NEW a \in KnownSet, index = First(remoteCount, remotes, a),
             StoredCodes' = [b \in KnownSet \cup {a} |-> IF b = a THEN rx.code ELSE StoredCodes[b]]
      PROVE  a \in Table!Known /\ Table!Advance(a)
  <2>1. DOMAIN StoredCodes = KnownSet
    BY DEF StoredCodes
  <2>2. StoredCodes[a] = remotes[index].code
    BY <1>4, CodesAreIn DEF CodesIn
  <2>3. PICK n \in 0 .. Window - 1 : rx.code = (StoredCodes[a] + n) % CodeMod
    BY <1>1, <1>2, <2>2, ValidIsAhead
  <2>4. StoredCodes' = [b \in (DOMAIN StoredCodes) \cup {a} |->
                     IF b = a THEN (StoredCodes[a] + n) % CodeMod ELSE StoredCodes[b]]
    BY <1>4, <2>1, <2>3
  <2>5. a \in DOMAIN StoredCodes
    BY <2>1
  <2>6. QED
    BY <1>1, <2>4, <2>5 DEF Rest, Table!Advance, Table!Known, Table!Put, StoredCodes
<1>5. QED
  BY <1>3, <1>4, CheckedCodes

LEMMA RestartStep ==
  ASSUME RefineInv, Crash
  PROVE  Table!Restart
<1>1. /\ remoteCount' = eeCount
      /\ remotes' = [i \in Slots |-> IF i < eeCount THEN eeRemotes[i] ELSE Zeroed]
      /\ progModeEnabled' = FALSE /\ lastFrame' = NoFrame /\ admitted' = admitted
      /\ crashes' = crashes + 1
  BY DEF Crash, loadRemotes
<1>2. eeCount \in 0 .. MAX_REMOTES - 1 /\ MAX_REMOTES \in Nat
  BY RegistryAssumption DEF RegistryAssumption, RefineInv, TypeInv, TableInv, Counts
<1>3. \A i \in 0 .. eeCount - 1 : i \in Slots /\ remotes'[i] = eeRemotes[i]
  BY <1>1, <1>2 DEF Slots
<1>4. ASSUME NEW a \in KnownSet' PROVE Table!Pieced(a)'
  <2>1. PICK i \in 0 .. eeCount - 1 : remotes'[i].address = a
    BY <1>1 DEF KnownSet
  <2>2. eeRemotes[i].address = a /\ i \in Slots
    BY <1>3, <2>1
  <2>3. \A k \in 1 .. 3 : a[k] \in Piece(k)
    BY <2>2 DEF RefineInv, OnlyAdmitted, PiecesOnly
  <2>4. QED
    BY <1>1, <2>3 DEF Piece, Table!Pieced
<1>5. DOMAIN StoredCodes' = KnownSet'
  BY DEF StoredCodes
<1>6. (crashes = 0)' = FALSE
  BY <1>1 DEF RefineInv, CountedAreRemotes
<1>7. QED
  BY <1>1, <1>4, <1>5, <1>6 DEF Table!Restart, Table!Pieced, StoredCodes

LEMMA StepIsTableStep ==
  ASSUME RefineInv, RefineInv', [Next]_vars
  PROVE  [Table!Next]_(Table!vars)
<1> USE DEF Table!Next
<1>1. ASSUME NEW f \in OnAir, ReceiveNormal(f) PROVE Table!Ignore
  <2>1. f \in Frame
    BY OnAirType DEF RefineInv
  <2>2. /\ UNCHANGED ram /\ ~progModeEnabled /\ f # lastFrame /\ lastFrame' = f
        /\ UNCHANGED <<crashes, progModeEnabled, admitted>>
    BY <1>1 DEF ReceiveNormal, NewFrame, counts
  <2>3. StoredCodes' = StoredCodes
    BY <2>2, CodesKept
  <2>4. QED
    BY <2>1, <2>2, <2>3 DEF Table!Ignore, Table!Hear, StoredCodes
<1>2. CASE ReceiveGarbled
  <2>1. /\ UNCHANGED ram /\ Garbled # lastFrame /\ lastFrame' = Garbled
        /\ UNCHANGED <<crashes, progModeEnabled, admitted>>
    BY <1>2 DEF ReceiveGarbled, NewFrame, counts
  <2>2. StoredCodes' = StoredCodes
    BY <2>1, CodesKept
  <2>3. QED
    BY <2>1, <2>2 DEF Table!Ignore, Table!Hear, StoredCodes
<1>3. ASSUME NEW f \in OnAir, ReceiveProg(f) PROVE Table!Next
  <2>1. f \in Frame
    BY OnAirType DEF RefineInv
  <2>2. QED
    BY <1>3, <2>1, AdmitStep, RefuseStep, ForgetStep
<1>4. CASE CheckValid
  BY <1>4, AdvanceStep
<1>5. CASE OpenProgMode \/ ProgModeTimeout
  <2>1. UNCHANGED <<ram, lastFrame, admitted, crashes>>
        /\ (progModeEnabled' = TRUE \/ progModeEnabled' = FALSE)
    BY <1>5 DEF OpenProgMode, ProgModeTimeout, counts, history
  <2>2. StoredCodes' = StoredCodes
    BY <2>1, CodesKept
  <2>3. QED
    BY <2>1, <2>2 DEF Table!Open, Table!Close, StoredCodes
<1>6. CASE ResetCommand
  <2>1. remoteCount' = 0 /\ UNCHANGED Rest
    BY <1>6 DEF ResetCommand, LoopRest, Rest
  <2>2. KnownSet' = {}
    BY <2>1 DEF KnownSet
  <2>3. StoredCodes' = [x \in {} |-> 0]
    BY <2>2 DEF StoredCodes
  <2>4. QED
    BY <2>1, <2>3 DEF Rest, Table!ForgetAll, Table!Nothing, StoredCodes
<1>7. CASE Crash
  BY <1>7, RestartStep
<1>8. CASE \/ SaveCount \/ SaveCell \/ SaveDone \/ CheckInvalid \/ Act \/ ResetReadCount
           \/ ResetWriteCount \/ ResetReadCell \/ ResetWriteCell \/ ResetDone \/ UNCHANGED vars
  BY <1>8, Stutters DEF SaveCount, SaveCell, SaveDone, CheckInvalid, Act, ResetReadCount,
     ResetWriteCount, ResetReadCell, ResetWriteCell, ResetDone, LoopRest, Rest, counts,
     history, vars
<1>9. ASSUME NEW d \in Remotes, Press(d) \/ Release(d) PROVE UNCHANGED Table!vars
  BY <1>9, Stutters DEF Press, Release, DeviceRest, Rest, counts, history
<1>10. QED
  BY <1>1, <1>2, <1>3, <1>4, <1>5, <1>6, <1>7, <1>8, <1>9 DEF Next, Interrupt, Background

(* Through deletions that move entries, saves cut short, reset commands and*)
(* power failures, the program keeps the promise of RemoteTable.           *)
THEOREM RegistryKeepsThePromise == Spec => ImplementsTable
<1>1. Init => Table!Init
  <2> SUFFICES ASSUME Init PROVE Table!Init
    OBVIOUS
  <2>1. remoteCount = 0 /\ progModeEnabled = FALSE /\ lastFrame = NoFrame
        /\ admitted = {} /\ crashes = 0
    BY DEF Init
  <2>2. KnownSet = {}
    BY <2>1 DEF KnownSet
  <2>3. StoredCodes = [x \in {} |-> 0]
    BY <2>2 DEF StoredCodes
  <2>4. QED
    BY <2>1, <2>3 DEF Table!Init, Table!Nothing, StoredCodes
<1>2. Spec => []RefineInv
  BY TypeInvAlways, OnlyAdmittedAlways, CountedAreRemotesAlways, WholePowerAlways, PTL
     DEF RefineInv
<1>3. RefineInv /\ RefineInv' /\ [Next]_vars => [Table!Next]_(Table!vars)
  BY StepIsTableStep
<1>4. QED
  BY <1>1, <1>2, <1>3, PTL DEF Spec, ImplementsTable, Table!Spec

-----------------------------------------------------------------------------
(* Whose codes the table holds.  Where noise makes no frame of its own, the*)
(* power does not fail, and no code of a remote lies in the window of      *)
(* another one's, what processFrame() stores is a code of the remote that  *)
(* it stores it for: also at the place of a remote it has just deleted.    *)
AllCodes(d) == {(FirstCode[d] + k) % CodeMod : k \in 1 .. MaxPresses[d]}

NoneInWindow == \A d, e \in Remotes : d # e =>
                  \A c \in AllCodes(d), s \in AllCodes(e) : ~(Ahead(c, s) < Window)

Own(e) == e.address \in Remotes /\ e.code \in SentCodes(e.address)

OwnInv ==
  /\ \A d \in Remotes : onAir[d] => presses[d] >= 1
  /\ \A i \in 0 .. remoteCount - 1 : Own(remotes[i])
  /\ isr # "idle" => Own(rx)
  /\ Pending => Own(remotes[index])

(* What has been sent stays sent, and is one of a remote's codes.          *)
LEMMA SentGrows ==
  ASSUME TypeInv, [Next]_vars, NEW d \in Remotes
  PROVE  /\ SentCodes(d) \subseteq SentCodes(d)'
         /\ SentCodes(d) \subseteq AllCodes(d) /\ AllCodes(d) \subseteq Codes
<1>1. MaxPresses[d] \in Nat /\ presses[d] \in 0 .. MaxPresses[d] /\ presses \in [Remotes -> Nat]
  BY RegistryAssumption DEF RegistryAssumption, TypeInv, DeviceTypes
<1>2. presses'[d] \in Nat /\ presses[d] <= presses'[d]
  <2>1. CASE UNCHANGED presses
    BY <1>1, <2>1
  <2>2. ASSUME NEW e \in Remotes, Press(e) PROVE presses'[d] \in Nat /\ presses[d] <= presses'[d]
    BY <1>1, <2>2 DEF Press
  <2>3. ASSUME NEW e \in Remotes, Release(e) PROVE UNCHANGED presses
    BY <2>3 DEF Release
  <2>4. CASE Interrupt
    BY <2>1, <2>4 DEF Interrupt, ReceiveNormal, ReceiveProg, ReceiveGarbled, NewFrame, SaveCount,
       SaveCell, SaveDone, CheckValid, CheckInvalid, Act, devices
  <2>5. CASE Background
    BY <2>1, <2>5 DEF Background, OpenProgMode, ProgModeTimeout, ResetCommand, ResetReadCount,
       ResetWriteCount, ResetReadCell, ResetWriteCell, ResetDone, LoopRest, devices
  <2>6. CASE Crash \/ UNCHANGED vars
    BY <2>1, <2>6 DEF Crash, vars, devices
  <2>7. QED
    BY <2>1, <2>2, <2>3, <2>4, <2>5, <2>6 DEF Next
<1>3. \A k \in 1 .. presses[d] : k \in 1 .. presses'[d] /\ k \in 1 .. MaxPresses[d]
  BY <1>1, <1>2
<1>4. SentCodes(d) \subseteq SentCodes(d)' /\ SentCodes(d) \subseteq AllCodes(d)
  BY <1>3 DEF SentCodes, AllCodes
<1>5. AllCodes(d) \subseteq Codes
  BY <1>1, RegistryAssumption DEF RegistryAssumption, AllCodes, Codes
<1>6. QED
  BY <1>4, <1>5

(* A button that is held sends a code of its remote.                       *)
LEMMA HeldIsOwn ==
  ASSUME Misread = {}, TypeInv, OwnInv, NEW f \in OnAir
  PROVE  Own(f)
<1>1. PICK d \in Remotes : onAir[d] /\ f = FrameOf(d)
  BY DEF OnAir
<1>2. presses[d] \in 1 .. presses[d]
  BY <1>1 DEF OwnInv, TypeInv, DeviceTypes
<1>3. Code(d) \in SentCodes(d)
  BY <1>2 DEF Code, SentCodes
<1>4. QED
  BY <1>1, <1>3 DEF Own, FrameOf

(* A code that is valid for an entry is one of that entry's remote.        *)
LEMMA ValidIsOwn ==
  ASSUME NoneInWindow, TypeInv, OwnInv, CheckValid
  PROVE  rx.address = remotes[index].address
<1>1. Own(rx) /\ Own(remotes[index]) /\ isRollingCodeValid(rx.code, remotes[index].code)
  BY DEF CheckValid, OwnInv, Pending
<1>2. /\ rx.code \in AllCodes(rx.address) /\ rx.code \in Codes
      /\ remotes[index].code \in AllCodes(remotes[index].address) /\ remotes[index].code \in Codes
  BY <1>1, SentGrows DEF Own, Next, Interrupt
<1>3. Ahead(rx.code, remotes[index].code) < Window
  BY <1>1, <1>2, OverflowTestAddsNothing
<1>4. QED
  BY <1>1, <1>2, <1>3 DEF Own, NoneInWindow

LEMMA NextOwnInv ==
  ASSUME Misread = {}, NoneInWindow, TypeInv, OwnInv, [Next]_vars, ~Crash
  PROVE  OwnInv'
<1>g. \A d \in Remotes : SentCodes(d) \subseteq SentCodes(d)'
  BY SentGrows
<1>m. /\ remoteCount \in 0 .. MAX_REMOTES - 1 /\ MAX_REMOTES \in Nat
      /\ remotes \in [Slots -> Entry]
  BY CountIsSmall DEF TypeInv, CellTypes
<1>p. ASSUME UNCHANGED <<presses, onAir>>
      PROVE  \A d \in Remotes : onAir'[d] => presses'[d] >= 1
  BY <1>p DEF OwnInv
<1>0. ASSUME UNCHANGED <<remotes, devices>>,
             remoteCount' = remoteCount \/ remoteCount' = 0,
             isr' = "idle" \/ (isr # "idle" /\ UNCHANGED <<rx, index>> /\ (Pending' => Pending))
      PROVE  OwnInv'
  <2>1. \A i \in 0 .. remoteCount' - 1 : Own(remotes[i])'
    BY <1>0, <1>g DEF OwnInv, Own
  <2>2. isr' # "idle" => Own(rx)'
    BY <1>0, <1>g DEF OwnInv, Own
  <2>3. Pending' => Own(remotes[index])'
    BY <1>0, <1>g DEF OwnInv, Own, Pending
  <2>4. QED
    BY <1>0, <1>p, <2>1, <2>2, <2>3 DEF OwnInv, devices
<1>1. ASSUME NEW f \in OnAir, ReceiveNormal(f) PROVE OwnInv'
  <2>1. Own(f) /\ UNCHANGED <<ram, devices>> /\ isr = "idle"
    BY <1>1, HeldIsOwn DEF ReceiveNormal, NewFrame, Idle
  <2>2. CASE ~Known(f.address)
    BY <1>0, <1>1, <2>1, <2>2 DEF ReceiveNormal, ram, handler
  <2>3. CASE Known(f.address)
    <3>1. rx' = f /\ index' = findRemoteWithAddress(f.address) /\ isr' = "check"
      BY <1>1, <2>3 DEF ReceiveNormal
    <3>2. index' \in 0 .. remoteCount - 1
      BY <3>1, <2>3, <1>m, FindKnown
    <3>3. Own(rx)' /\ Own(remotes[index])'
      BY <1>g, <2>1, <3>1, <3>2 DEF OwnInv, Own, ram
    <3>4. \A i \in 0 .. remoteCount' - 1 : Own(remotes[i])'
      BY <1>g, <2>1 DEF OwnInv, Own, ram
    <3>5. QED
      BY <1>p, <2>1, <3>3, <3>4 DEF OwnInv, devices
  <2>4. QED
    BY <2>2, <2>3
<1>2. ASSUME NEW f \in OnAir, ReceiveProg(f) PROVE OwnInv'
  <2>1. Own(f) /\ UNCHANGED devices /\ isr = "idle"
    BY <1>2, HeldIsOwn DEF ReceiveProg, NewFrame, Idle
  <2>2. CASE Known(f.address)
    <3> DEFINE k == findRemoteWithAddress(f.address)
    <3>1. /\ remotes' = Without(k) /\ remoteCount' = remoteCount - 1
          /\ rx' = f /\ index' = k /\ k \in 0 .. remoteCount - 1
      BY <1>2, <1>m, <2>2, FindKnown DEF ReceiveProg, deleteRemote
    <3> HIDE DEF k
    <3>2. \A i \in 0 .. remoteCount - 1 : i \in Slots
             /\ \E j \in 0 .. remoteCount - 1 : remotes'[i] = remotes[j]
      <4> SUFFICES ASSUME NEW i \in 0 .. remoteCount - 1
                   PROVE  i \in Slots /\ \E j \in 0 .. remoteCount - 1 : remotes'[i] = remotes[j]
        OBVIOUS
      <4>1. i \in Slots
        BY <1>m DEF Slots
      <4>2. CASE i \in k .. remoteCount - 2
        <5>1. remotes'[i] = remotes[i + 1] /\ i + 1 \in 0 .. remoteCount - 1
          BY <1>m, <3>1, <4>1, <4>2 DEF Without
        <5>2. QED
          BY <4>1, <5>1
      <4>3. CASE i \notin k .. remoteCount - 2
        BY <3>1, <4>1, <4>3 DEF Without
      <4>4. QED
        BY <4>2, <4>3
    <3>3. \A i \in 0 .. remoteCount - 1 : Own(remotes[i])'
      BY <1>g, <3>2 DEF OwnInv, Own
    <3>4. Own(rx)' /\ Own(remotes[index])'
      BY <1>g, <2>1, <3>1, <3>3 DEF Own
    <3>5. QED
      BY <1>m, <1>p, <2>1, <3>1, <3>3, <3>4 DEF OwnInv, devices
  <2>3. CASE ~Known(f.address) /\ remoteCount >= MAX_REMOTES - 1
    BY <1>0, <1>2, <2>1, <2>3 DEF ReceiveProg, addRemote, ram, handler
  <2>4. CASE ~Known(f.address) /\ ~(remoteCount >= MAX_REMOTES - 1)
    <3>1. /\ remoteCount' = remoteCount + 1 /\ rx' = f /\ ~Pending'
          /\ remotes' = [i \in Slots |-> IF i = remoteCount THEN EntryOf(f) ELSE remotes[i]]
      BY <1>2, <2>4 DEF ReceiveProg, addRemote, Save, Pending
    <3>2. \A i \in 0 .. remoteCount : i \in Slots /\ (i # remoteCount => i \in 0 .. remoteCount - 1)
      BY <1>m, <2>4 DEF Slots
    <3>3. \A i \in 0 .. remoteCount' - 1 : Own(remotes[i])'
      <4> SUFFICES ASSUME NEW i \in 0 .. remoteCount PROVE Own(remotes[i])'
        BY <1>m, <3>1
      <4>1. CASE i = remoteCount
        <5>1. remotes'[i] = EntryOf(f)
          BY <3>1, <3>2, <4>1
        <5>2. QED
          BY <1>g, <2>1, <5>1 DEF Own, EntryOf
      <4>2. CASE i # remoteCount
        <5>1. remotes'[i] = remotes[i] /\ i \in 0 .. remoteCount - 1
          BY <3>1, <3>2, <4>2
        <5>2. QED
          BY <1>g, <5>1 DEF OwnInv, Own
      <4>3. QED
        BY <4>1, <4>2
    <3>4. Own(rx)'
      BY <1>g, <2>1, <3>1 DEF Own
    <3>5. QED
      BY <1>p, <2>1, <3>1, <3>3, <3>4 DEF OwnInv, devices
  <2>5. QED
    BY <2>2, <2>3, <2>4
<1>3. CASE CheckValid
  <2>1. /\ isr = "check" /\ isr' = "saveCount" /\ after' = "act"
        /\ remotes' = [remotes EXCEPT ![index].code = rx.code] /\ index \in Slots
        /\ UNCHANGED <<remoteCount, rx, index, devices>>
    BY <1>3 DEF CheckValid, Save, TypeInv, TableInv
  <2>2. /\ \A i \in Slots : i # index => remotes'[i] = remotes[i]
        /\ remotes'[index].address = rx.address /\ remotes'[index].code = rx.code
    BY <1>3, <1>m, <2>1, ValidIsOwn DEF Entry
  <2>3. Own(rx)'
    BY <1>g, <2>1 DEF OwnInv, Own
  <2>4. \A i \in 0 .. remoteCount' - 1 : Own(remotes[i])'
    <3> SUFFICES ASSUME NEW i \in 0 .. remoteCount - 1 PROVE Own(remotes[i])'
      BY <2>1
    <3>1. CASE i = index
      BY <2>1, <2>2, <2>3, <3>1 DEF Own
    <3>2. CASE i # index
      <4>1. remotes'[i] = remotes[i]
        BY <1>m, <2>2, <3>2 DEF Slots
      <4>2. QED
        BY <1>g, <4>1 DEF OwnInv, Own
    <3>3. QED
      BY <3>1, <3>2
  <2>5. ~Pending'
    BY <2>1 DEF Pending
  <2>6. QED
    BY <1>p, <2>1, <2>3, <2>4, <2>5 DEF OwnInv, devices
<1>4. CASE \/ SaveCount \/ SaveCell \/ SaveDone \/ CheckInvalid \/ Act \/ Background
  BY <1>0, <1>4 DEF SaveCount, SaveCell, SaveDone, CheckInvalid, Act, Return, Pending,
     Background, OpenProgMode, ProgModeTimeout, ResetCommand, ResetReadCount, ResetWriteCount,
     ResetReadCell, ResetWriteCell, ResetDone, LoopRest, Idle, ram, handler
<1>5. CASE ReceiveGarbled
  BY <1>0, <1>5 DEF ReceiveGarbled, NewFrame, Idle, ram, handler
<1>6. ASSUME NEW d \in Remotes, Press(d) \/ Release(d) PROVE OwnInv'
  <2>1. UNCHANGED <<ram, handler>>
    BY <1>6 DEF Press, Release, DeviceRest
  <2>2. \A e \in Remotes : onAir'[e] => presses'[e] >= 1
    BY <1>6 DEF Press, Release, OwnInv, TypeInv, DeviceTypes
  <2>3. \A i \in 0 .. remoteCount' - 1 : Own(remotes[i])'
    BY <1>g, <2>1 DEF OwnInv, Own, ram
  <2>4. isr' # "idle" => Own(rx)'
    BY <1>g, <2>1 DEF OwnInv, Own, handler
  <2>5. Pending' => Own(remotes[index])'
    BY <1>g, <2>1 DEF OwnInv, Own, Pending, ram, handler
  <2>6. QED
    BY <2>2, <2>3, <2>4, <2>5 DEF OwnInv
<1>7. CASE UNCHANGED vars
  BY <1>0, <1>7 DEF vars, ram, handler, Pending, OwnInv, Own
<1>8. QED
  BY <1>1, <1>2, <1>3, <1>4, <1>5, <1>6, <1>7 DEF Next, Interrupt

LEMMA OwnInvAlways ==
  ASSUME Misread = {}, MaxCrashes = 0, NoneInWindow
  PROVE  Spec => []OwnInv
<1>1. Init => OwnInv
  BY DEF Init, OwnInv, Pending
<1>2. CountedAreRemotes => ~Crash
  BY DEF CountedAreRemotes, Crash
<1>3. TypeInv /\ CountedAreRemotes /\ OwnInv /\ [Next]_vars => OwnInv'
  BY <1>2, NextOwnInv
<1>4. QED
  BY <1>1, <1>3, TypeInvAlways, CountedAreRemotesAlways, PTL DEF Spec

(* The code stored for a remote is one that this remote has sent.          *)
THEOREM OwnCodesOnly ==
  ASSUME Misread = {}, MaxCrashes = 0, NoneInWindow
  PROVE  Spec => []StoredCodeIsOwn
<1>1. OwnInv => StoredCodeIsOwn
  BY DEF OwnInv, Own, StoredCodeIsOwn
<1>2. QED
  BY <1>1, OwnInvAlways, PTL

-----------------------------------------------------------------------------
(* A remote pressed too often out of range.  While the deletion of a remote*)
(* is saved, that remote is not known.                                     *)
GoneInv == isr \in {"saveCount", "saveCell"} /\ after = "check" => ~Known(rx.address)

LEMMA NextGoneInv ==
  ASSUME RefineInv, RefineInv', crashes = 0, GoneInv, [Next]_vars, ~Crash
  PROVE  GoneInv'
<1>0. ASSUME UNCHANGED ram, UNCHANGED <<rx, after>>, isr \in {"saveCount", "saveCell"}
      PROVE  GoneInv'
  BY <1>0, CodesKept DEF GoneInv, Known
<1>1. ASSUME NEW f \in OnAir, ReceiveProg(f) PROVE GoneInv'
  <2>1. CASE Known(f.address)
    <3>1. Table!Forget(f) /\ rx' = f
      BY <1>1, <2>1, ForgetStep DEF ReceiveProg, deleteRemote
    <3>2. StoredCodes' = [b \in (DOMAIN StoredCodes) \ {f.address} |-> StoredCodes[b]]
      BY <3>1 DEF Table!Forget, Table!Known, Table!Drop, StoredCodes
    <3>3. f.address \notin DOMAIN StoredCodes' /\ DOMAIN StoredCodes' = KnownSet'
      BY <3>2 DEF StoredCodes
    <3>4. QED
      BY <3>1, <3>3 DEF GoneInv, Known
  <2>2. CASE ~Known(f.address)
    BY <1>1, <2>2 DEF ReceiveProg, NewFrame, Idle, addRemote, Save, handler, GoneInv
  <2>3. QED
    BY <2>1, <2>2
<1>2. CASE SaveCount \/ SaveCell
  BY <1>0, <1>2 DEF SaveCount, SaveCell
<1>3. CASE \/ SaveDone \/ CheckValid \/ CheckInvalid \/ Act \/ ReceiveGarbled \/ Background
           \/ \E f \in OnAir : ReceiveNormal(f)
  BY <1>3 DEF SaveDone, CheckValid, CheckInvalid, Act, ReceiveGarbled, ReceiveNormal, NewFrame,
     Return, Save, Idle, GoneInv, handler, RefineInv, TypeInv, TableInv,
     Background, OpenProgMode, ProgModeTimeout, ResetCommand, ResetReadCount, ResetWriteCount,
     ResetReadCell, ResetWriteCell, ResetDone, LoopRest
<1>4. CASE UNCHANGED vars \/ \E d \in Remotes : Press(d) \/ Release(d)
  <2>1. UNCHANGED ram /\ UNCHANGED <<rx, after, isr>>
    BY <1>4 DEF vars, Press, Release, DeviceRest, handler
  <2>2. QED
    BY <1>0, <2>1 DEF GoneInv
<1>5. QED
  BY <1>1, <1>2, <1>3, <1>4 DEF Next, Interrupt

(* How far apart two presses of one remote are.                            *)
LEMMA PressesApart ==
  ASSUME NEW c \in Codes, NEW j \in Nat, NEW k \in Nat, j <= k, k - j < CodeMod
  PROVE  Ahead((c + k) % CodeMod, (c + j) % CodeMod) = k - j
<1> USE CodeCounts DEF Codes
<1> DEFINE s == (c + j) % CodeMod
           q == (c + j) \div CodeMod
           n == k - j
<1>1. q \in Int /\ s \in 0 .. CodeMod - 1 /\ c + j = CodeMod * q + s /\ n \in 0 .. CodeMod - 1
  OBVIOUS
<1>2. c + k = CodeMod * q + (s + n) /\ c + k \in Int
  BY <1>1
<1> HIDE DEF q, s, n
<1>3. CASE s + n < CodeMod
  <2>1. s + n \in 0 .. CodeMod - 1
    BY <1>1, <1>3
  <2>2. (c + k) % CodeMod = s + n
    BY <1>1, <1>2, <2>1, Remainder
  <2>3. Ahead(s + n, s) = n
    BY <1>1, <2>1, AheadIs
  <2>4. QED
    BY <2>2, <2>3 DEF s, n
<1>4. CASE ~(s + n < CodeMod)
  <2>1. s + n - CodeMod \in 0 .. CodeMod - 1
        /\ c + k = CodeMod * (q + 1) + (s + n - CodeMod) /\ q + 1 \in Int
    BY <1>1, <1>2, <1>4
  <2>2. (c + k) % CodeMod = s + n - CodeMod
    BY <1>2, <2>1, Remainder
  <2>3. Ahead(s + n - CodeMod, s) = n
    BY <1>1, <2>1, AheadIs
  <2>4. QED
    BY <2>2, <2>3 DEF s, n
<1>5. QED
  BY <1>3, <1>4

(* Nothing changes the code stored for a remote that stays locked out and  *)
(* known:                                                                  *)
LEMMA StoredStays ==
  ASSUME NoneInWindow, RefineInv, RefineInv', crashes = 0, OwnInv, [Next]_vars, ~Crash,
         NEW d \in Remotes, LockedOut(d), Known(d)'
  PROVE  StoredCodes'[d] = StoredCodes[d]
<1>d. d \in KnownSet /\ DOMAIN StoredCodes = KnownSet /\ d \in KnownSet' /\ DOMAIN StoredCodes' = KnownSet'
  BY DEF LockedOut, Known, StoredCodes
<1>0. UNCHANGED ram => StoredCodes'[d] = StoredCodes[d]
  BY CodesKept
<1>1. ASSUME NEW f \in OnAir, ReceiveProg(f) PROVE StoredCodes'[d] = StoredCodes[d]
  <2>1. CASE Known(f.address)
    <3>1. Table!Forget(f)
      BY <1>1, <2>1, ForgetStep
    <3>2. StoredCodes' = [b \in (DOMAIN StoredCodes) \ {f.address} |-> StoredCodes[b]]
      BY <3>1 DEF Table!Forget, Table!Known, Table!Drop, StoredCodes
    <3>3. QED
      BY <1>d, <3>2
  <2>2. CASE ~Known(f.address) /\ remoteCount >= MAX_REMOTES - 1
    BY <1>0, <1>1, <2>2 DEF ReceiveProg, addRemote
  <2>3. CASE ~Known(f.address) /\ ~(remoteCount >= MAX_REMOTES - 1)
    <3>1. Table!Admit(f)
      BY <1>1, <2>3, AdmitStep
    <3>2. f.address \notin DOMAIN StoredCodes
          /\ StoredCodes' = [b \in (DOMAIN StoredCodes) \cup {f.address} |->
                               IF b = f.address THEN f.code ELSE StoredCodes[b]]
      BY <3>1 DEF Table!Admit, Table!Known, Table!Put, StoredCodes
    <3>3. QED
      BY <1>d, <3>2
  <2>4. QED
    BY <2>1, <2>2, <2>3
<1>2. CASE CheckValid
  <2>1. CASE StoredCodes' = StoredCodes
    BY <2>1
  <2>2. ASSUME NEW e \in KnownSet, index = First(remoteCount, remotes, e),
               StoredCodes' = [b \in KnownSet \cup {e} |-> IF b = e THEN rx.code ELSE StoredCodes[b]]
        PROVE  StoredCodes'[d] = StoredCodes[d]
    <3>1. CASE e # d
      BY <1>d, <2>2, <3>1
    <3>2. CASE e = d
      <4>1. remotes[index].address = d /\ StoredCodes[d] = remotes[index].code
        BY <1>d, <2>2, <3>2, CodesAreIn, FirstIs, CountIsSmall DEF RefineInv, IsFirst, CodesIn
      <4>2. rx.address = d
        BY <1>2, <4>1, ValidIsOwn DEF RefineInv
      <4>3. isr = "check" /\ isRollingCodeValid(rx.code, remotes[index].code)
        BY <1>2 DEF CheckValid
      <4>4. Stored(d) = StoredCodes[d]
        BY <1>d DEF StoredCodes
      <4>6. QED
        BY <4>1, <4>2, <4>3, <4>4 DEF LockedOut
    <3>3. QED
      BY <3>1, <3>2
  <2>3. QED
    BY <1>2, <2>1, <2>2, CheckedCodes
<1>3. CASE ResetCommand
  BY <1>3, <1>d DEF ResetCommand, KnownSet
<1>4. CASE \/ SaveCount \/ SaveCell \/ SaveDone \/ CheckInvalid \/ Act \/ ReceiveGarbled
           \/ OpenProgMode \/ ProgModeTimeout \/ ResetReadCount \/ ResetWriteCount
           \/ ResetReadCell \/ ResetWriteCell \/ ResetDone \/ UNCHANGED vars
           \/ \E f \in OnAir : ReceiveNormal(f)
           \/ \E e \in Remotes : Press(e) \/ Release(e)
  BY <1>0, <1>4 DEF SaveCount, SaveCell, SaveDone, CheckInvalid, Act, ReceiveGarbled,
     OpenProgMode, ProgModeTimeout, ResetReadCount, ResetWriteCount, ResetReadCell,
     ResetWriteCell, ResetDone, vars, ReceiveNormal, Press, Release, DeviceRest
<1>5. QED
  BY <1>1, <1>2, <1>3, <1>4 DEF Next, Interrupt, Background

LEMMA LockOutStep ==
  ASSUME Misread = {}, NoneInWindow, \A e \in Remotes : MaxPresses[e] <= CodeMod,
         RefineInv, RefineInv', crashes = 0, OwnInv, GoneInv, [Next]_vars, ~Crash,
         NEW d \in Remotes, LockedOut(d), Known(d)'
  PROVE  LockedOut(d)'
<1>s. d \in KnownSet /\ d \in KnownSet' /\ Stored(d)' = Stored(d)
  BY StoredStays DEF LockedOut, Known, StoredCodes
<1>1. \/ Code(d)' = Code(d)
      \/ Press(d) /\ presses'[d] = presses[d] + 1
  <2>0. presses \in [Remotes -> Nat] /\ (presses'[d] = presses[d] => Code(d)' = Code(d))
    BY DEF Code, RefineInv, TypeInv, DeviceTypes
  <2>1. ASSUME NEW e \in Remotes, Press(e)
        PROVE  \/ presses'[d] = presses[d]
               \/ Press(d) /\ presses'[d] = presses[d] + 1
    <3>1. presses' = [presses EXCEPT ![e] = @ + 1]
      BY <2>1 DEF Press
    <3>2. CASE e = d
      BY <2>0, <2>1, <3>1, <3>2
    <3>3. CASE e # d
      BY <2>0, <3>1, <3>3
    <3>4. QED
      BY <3>2, <3>3
  <2>2. ASSUME NEW e \in Remotes, Release(e) PROVE UNCHANGED presses
    BY <2>2 DEF Release
  <2>3. CASE Interrupt
    BY <2>0, <2>3 DEF Interrupt, ReceiveNormal, ReceiveProg, ReceiveGarbled, NewFrame, SaveCount,
       SaveCell, SaveDone, CheckValid, CheckInvalid, Act, devices
  <2>4. CASE Background
    BY <2>0, <2>4 DEF Background, OpenProgMode, ProgModeTimeout, ResetCommand, ResetReadCount,
       ResetWriteCount, ResetReadCell, ResetWriteCell, ResetDone, LoopRest, devices
  <2>5. CASE UNCHANGED vars
    BY <2>0, <2>5 DEF vars, devices
  <2>6. QED
    BY <2>0, <2>1, <2>2, <2>3, <2>4, <2>5 DEF Next
<1>2. ~isRollingCodeValid(Code(d)', Stored(d)')
  <2>1. CASE Code(d)' = Code(d)
    BY <1>s, <2>1 DEF LockedOut
  <2>2. CASE Press(d) /\ presses'[d] = presses[d] + 1
    <3> DEFINE p == presses[d]
    <3>1. /\ p \in Nat /\ p < MaxPresses[d] /\ MaxPresses[d] <= CodeMod
          /\ FirstCode[d] \in Codes /\ CodeMod \in Nat \ {0} /\ MaxPresses[d] \in Nat
      <4>1. p < MaxPresses[d]
        BY <2>2 DEF Press
      <4>2. p \in Nat
        BY DEF RefineInv, TypeInv, DeviceTypes
      <4>3. /\ FirstCode[d] \in Codes /\ CodeMod \in Nat \ {0} /\ MaxPresses[d] \in Nat
        BY RegistryAssumption DEF RegistryAssumption, Codes
      <4>4. QED
        BY <4>1, <4>2, <4>3
    <3>2. PICK j \in 1 .. p : Stored(d) = (FirstCode[d] + j) % CodeMod
      <4>1. findRemoteWithAddress(d) \in 0 .. remoteCount - 1
            /\ remotes[findRemoteWithAddress(d)].address = d
        BY <1>s, FindKnown, CountIsSmall DEF RefineInv, Known
      <4>2. Stored(d) \in SentCodes(d)
        BY <4>1 DEF OwnInv, Own, Stored
      <4>3. QED
        BY <4>2 DEF SentCodes
    <3>3. Code(d) = (FirstCode[d] + p) % CodeMod /\ Code(d)' = (FirstCode[d] + (p + 1)) % CodeMod
      BY <2>2 DEF Code
    <3> HIDE DEF p
    <3>4. Ahead(Code(d), Stored(d)) = p - j /\ Ahead(Code(d)', Stored(d)) = p + 1 - j
      <4>1. j \in Nat /\ j <= p /\ p - j < CodeMod /\ p + 1 \in Nat
            /\ j <= p + 1 /\ p + 1 - j < CodeMod
        BY <3>1
      <4>2. Ahead((FirstCode[d] + p) % CodeMod, (FirstCode[d] + j) % CodeMod) = p - j
        BY <3>1, <4>1, PressesApart
      <4>3. Ahead((FirstCode[d] + (p + 1)) % CodeMod, (FirstCode[d] + j) % CodeMod) = p + 1 - j
        BY <3>1, <4>1, PressesApart
      <4>4. QED
        BY <3>2, <3>3, <4>2, <4>3
    <3>5. Code(d) \in Codes /\ Code(d)' \in Codes /\ Stored(d) \in Codes
      BY <3>1, <3>2, <3>3 DEF Codes
    <3>6. ~(Ahead(Code(d), Stored(d)) < Window)
      BY <3>5, OverflowTestAddsNothing DEF LockedOut
    <3>7. ~(Ahead(Code(d)', Stored(d)) < Window)
      BY <3>1, <3>4, <3>6, RegistryAssumption DEF RegistryAssumption
    <3>8. QED
      BY <1>s, <3>5, <3>7, OverflowTestAddsNothing
  <2>3. QED
    BY <1>1, <2>1, <2>2
<1>3. ASSUME isr' = "check", rx'.address = d PROVE ~isRollingCodeValid(rx'.code, Stored(d)')
  <2>1. CASE isr = "check" /\ rx' = rx
    BY <1>3, <1>s, <2>1 DEF LockedOut
  <2>2. ASSUME NEW f \in OnAir, ReceiveNormal(f) PROVE rx'.code = Code(d) \/ (isr = "check" /\ rx' = rx)
    <3>1. PICK e \in Remotes : f = FrameOf(e)
      BY DEF OnAir
    <3>2. CASE Known(f.address)
      BY <1>3, <2>2, <3>1, <3>2 DEF ReceiveNormal, FrameOf
    <3>3. CASE ~Known(f.address)
      BY <1>3, <2>2, <3>3 DEF ReceiveNormal, handler
    <3>4. QED
      BY <3>2, <3>3
  <2>3. CASE SaveDone
    <3>1. isr \in {"saveCount", "saveCell"} /\ after = "check" /\ rx' = rx
      BY <1>3, <2>3 DEF SaveDone, Return
    <3>2. QED
      BY <1>3, <1>s, <3>1 DEF GoneInv, Known
  <2>4. CASE \/ ReceiveGarbled \/ SaveCount \/ SaveCell \/ CheckValid \/ CheckInvalid \/ Act
             \/ Background \/ UNCHANGED vars \/ \E f \in OnAir : ReceiveProg(f)
             \/ \E e \in Remotes : Press(e) \/ Release(e)
    <3>1. isr = "check" /\ rx' = rx
      BY <1>3, <2>4 DEF ReceiveGarbled, NewFrame, Idle, SaveCount, SaveCell, CheckValid,
         CheckInvalid, Act, Save, Return, handler, vars, ReceiveProg, addRemote, deleteRemote,
         Press, Release, DeviceRest, Background, OpenProgMode, ProgModeTimeout, ResetCommand,
         ResetReadCount, ResetWriteCount, ResetReadCell, ResetWriteCell, ResetDone, LoopRest
    <3>2. QED
      BY <2>1, <3>1
  <2>5. ~isRollingCodeValid(Code(d), Stored(d)')
    BY <1>s DEF LockedOut
  <2>6. QED
    BY <2>1, <2>2, <2>3, <2>4, <2>5 DEF Next, Interrupt
<1>4. QED
  BY <1>s, <1>2, <1>3 DEF LockedOut, Known

(* Under the conditions of OwnCodesOnly, and until its codes come round, a *)
(* remote that is locked out stays so until it is deleted.                 *)
THEOREM LockedOutForGood ==
  ASSUME Misread = {}, MaxCrashes = 0, NoneInWindow,
         \A e \in Remotes : MaxPresses[e] <= CodeMod
  PROVE  Spec => LockOutLasts
<1>1. Spec => []RefineInv
  BY TypeInvAlways, OnlyAdmittedAlways, CountedAreRemotesAlways, WholePowerAlways, PTL
     DEF RefineInv
<1>2. Init => crashes = 0 /\ GoneInv
  BY DEF Init, GoneInv
<1>3. RefineInv => ~Crash
  BY DEF RefineInv, CountedAreRemotes, Crash
<1>4. RefineInv /\ crashes = 0 /\ [Next]_vars => (crashes = 0)'
  BY <1>3, CrashesKept
<1>5. RefineInv /\ RefineInv' /\ crashes = 0 /\ GoneInv /\ [Next]_vars => GoneInv'
  BY <1>3, NextGoneInv
<1>6. RefineInv /\ RefineInv' /\ crashes = 0 /\ OwnInv /\ GoneInv /\ [Next]_vars
        => [\A a \in Remotes : LockedOut(a) /\ Known(a)' => LockedOut(a)']_vars
  BY <1>3, LockOutStep
<1>7. Spec => [](crashes = 0 /\ GoneInv)
  BY <1>1, <1>2, <1>4, <1>5, PTL DEF Spec
<1>8. Spec => []OwnInv
  BY OwnInvAlways
<1>9. QED
  BY <1>1, <1>6, <1>7, <1>8, PTL DEF Spec, LockOutLasts

=============================================================================
