----------------------------- MODULE RemoteTable -----------------------------
(***************************************************************************)
(* What the garage receiver promises about the remotes it obeys: a remote  *)
(* becomes known or is forgotten by one frame of its own while programming *)
(* mode is open, which that frame closes; all are forgotten together; the  *)
(* code stored for a known remote only moves ahead.  It knows nothing of   *)
(* table places, of the EEPROM, nor of the steps in which it is written.   *)
(* A power failure may bring back any remotes that were admitted before,   *)
(* with any codes, and, when it tears an address that is being written, one*)
(* whose bytes are in part those of one admitted remote and in part those  *)
(* of another or of blank memory.                                          *)
(***************************************************************************)
EXTENDS Integers, FiniteSets

CONSTANTS Remotes, MAX_REMOTES, Window, CodeMod,
          Blank,     \* the address that blank memory holds
          Frames,    \* what can be heard, each with an address and a code
          Garbled, NoFrame

VARIABLES
  codes,      \* the code stored for each known remote
  open,       \* programming mode
  last,       \* the last frame heard
  admitted,   \* the remotes ever made known
  intact      \* the power has not failed yet

vars == <<codes, open, last, admitted, intact>>

Known    == DOMAIN codes
Nothing  == [a \in {} |-> 0]
Put(a, c) == [b \in Known \cup {a} |-> IF b = a THEN c ELSE codes[b]]
Drop(a)   == [b \in Known \ {a} |-> codes[b]]

Init == /\ codes = Nothing /\ open = FALSE /\ last = NoFrame
        /\ admitted = {} /\ intact = TRUE

Open  == open' = TRUE /\ UNCHANGED <<codes, last, admitted, intact>>
Close == open' = FALSE /\ UNCHANGED <<codes, last, admitted, intact>>

Hear(f) == f # last /\ last' = f /\ UNCHANGED intact

(* A frame that changes nothing yet: garbled, or outside programming mode. *)
Ignore == /\ last' \in Frames \cup {Garbled}
          /\ last' = Garbled \/ ~open
          /\ Hear(last')
          /\ UNCHANGED <<codes, open, admitted>>

Admit(f) ==
  /\ open /\ f.address \notin Known /\ Hear(f)
  /\ open' = FALSE
  /\ codes' = Put(f.address, f.code)
  /\ admitted' = admitted \cup {f.address}

(* One place of the table is never used.                                   *)
Refuse(f) ==
  /\ open /\ f.address \notin Known /\ Hear(f)
  /\ intact => Cardinality(Known) = MAX_REMOTES - 1
  /\ open' = FALSE
  /\ UNCHANGED <<codes, admitted>>

(* Once the power has failed a remote may be there twice: forgetting it    *)
(* leaves its other entry.                                                 *)
Forget(f) ==
  /\ open /\ f.address \in Known /\ Hear(f)
  /\ open' = FALSE
  /\ \/ codes' = Drop(f.address)
     \/ ~intact /\ \E c \in 0 .. CodeMod - 1 : codes' = Put(f.address, c)
  /\ UNCHANGED admitted

Advance(a) ==
  /\ a \in Known
  /\ \E n \in 0 .. Window - 1 : codes' = Put(a, (codes[a] + n) % CodeMod)
  /\ UNCHANGED <<open, last, admitted, intact>>

ForgetAll == codes' = Nothing /\ UNCHANGED <<open, last, admitted, intact>>

(* Each of its three bytes has been written for an admitted remote, or     *)
(* never.                                                                  *)
Pieced(a) == \A k \in 1 .. 3 : \E b \in admitted \cup {Blank} : a[k] = b[k]

Restart ==
  /\ \A a \in DOMAIN codes' : Pieced(a)
  /\ open' = FALSE /\ last' = NoFrame /\ intact' = FALSE
  /\ UNCHANGED admitted

Next ==
  \/ Open \/ Close \/ Ignore
  \/ \E f \in Frames : Admit(f) \/ Refuse(f) \/ Forget(f)
  \/ \E a \in Known : Advance(a)
  \/ ForgetAll \/ Restart

Spec == Init /\ [][Next]_vars
=============================================================================
