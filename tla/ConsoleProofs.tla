--------------------------- MODULE ConsoleProofs ---------------------------
(***************************************************************************)
(* Machine-checked proofs about Console, for every length of programming   *)
(* mode and every latency of loop().                                       *)
(***************************************************************************)
EXTENDS Console, TLAPS

(* Programming mode counts at least the seconds since it was asked for,    *)
(* less those that passed before it was enabled, and never more.           *)
Counted ==
  /\ ~progModeEnabled => progModeSeconds = 0
  /\ pc = "enable" => sinceRequest <= lag
  /\ progModeEnabled => /\ progModeSeconds <= sinceRequest
                        /\ sinceRequest <= progModeSeconds + MaxLag

IInv == TypeOK /\ Counted

(* Zero is a value of every counter, whatever the constants are.           *)
LEMMA ZeroInRange ==
  0 \in 0 .. ProgSeconds - 1 /\ 0 \in 0 .. MaxLag /\ 0 \in 0 .. SinceCap
  BY ConsoleAssumption DEF ConsoleAssumption, SinceCap

(* A restart brings every variable back to its first value.                *)
LEMMA RestartIInv == Restart => IInv'
<1> SUFFICES ASSUME Restart PROVE IInv'
  OBVIOUS
<1>1. TypeOK'
  BY ZeroInRange, Zenon DEF Restart, TypeOK, Labels
<1>2. Counted'
  BY DEF Restart, Counted
<1>3. QED
  BY <1>1, <1>2 DEF IInv

(* A frame that ends programming mode preserves the invariant.             *)
LEMMA ProgFrameIInv == IInv /\ ProgFrame => IInv'
<1> SUFFICES ASSUME IInv, ProgFrame PROVE IInv'
  OBVIOUS
<1>1. TypeOK'
  BY ZeroInRange, Zenon DEF IInv, TypeOK, ProgFrame, switch, time
<1>2. ~progModeEnabled' /\ progModeSeconds' = 0
  BY Zenon DEF ProgFrame
<1>3. UNCHANGED <<pc, sinceRequest, lag>>
  BY DEF ProgFrame, time
<1>4. Counted'
  BY <1>2, <1>3, Zenon DEF IInv, Counted
<1>5. QED
  BY <1>1, <1>4 DEF IInv

(* A tick of Timer 3 does: it counts in programming mode, ends it on its   *)
(* last second, and leaves it alone when it is not open.                   *)
LEMMA SecondIInv == IInv /\ Second => IInv'
<1> SUFFICES ASSUME IInv, Second PROVE IInv'
  OBVIOUS
<1>1. /\ UNCHANGED <<pc, wanted, requestProgMode, switchedOn, switchedOnSeconds, device>>
      /\ lag < MaxLag /\ lag' = lag + 1
      /\ sinceRequest' = IF sinceRequest < SinceCap THEN sinceRequest + 1 ELSE sinceRequest
  BY DEF Second, switch
<1>2. lag' \in 0 .. MaxLag /\ sinceRequest' \in 0 .. SinceCap
  BY <1>1, ConsoleAssumption DEF ConsoleAssumption, IInv, TypeOK, SinceCap
<1>3. pc' = "enable" => sinceRequest' <= lag'
  BY <1>1, ConsoleAssumption DEF ConsoleAssumption, IInv, TypeOK, Counted, SinceCap
<1>4. CASE progModeEnabled /\ progModeSeconds + 1 >= ProgSeconds
  <2>1. progModeEnabled' = FALSE /\ progModeSeconds' = 0
    BY <1>4, Zenon DEF Second, CountProgSecond
  <2>2. TypeOK'
    BY <2>1, <1>1, <1>2, ZeroInRange, Zenon DEF IInv, TypeOK
  <2>3. QED
    BY <2>1, <2>2, <1>3, Zenon DEF IInv, Counted
<1>5. CASE progModeEnabled /\ ~(progModeSeconds + 1 >= ProgSeconds)
  <2>1. progModeSeconds' = progModeSeconds + 1 /\ progModeEnabled' = progModeEnabled
    BY <1>5, Zenon DEF Second, CountProgSecond
  <2>2. progModeSeconds' \in 0 .. ProgSeconds - 1
    BY <2>1, <1>5, ConsoleAssumption DEF ConsoleAssumption, IInv, TypeOK
  <2>3. TypeOK'
    BY <2>1, <2>2, <1>1, <1>2, Zenon DEF IInv, TypeOK
  <2>4. progModeSeconds' <= sinceRequest' /\ sinceRequest' <= progModeSeconds' + MaxLag
    BY <2>1, <1>1, <1>5, ConsoleAssumption
       DEF ConsoleAssumption, IInv, TypeOK, Counted, SinceCap
  <2>5. progModeEnabled'
    BY <2>1, <1>5, Zenon
  <2>6. QED
    BY <2>3, <2>4, <2>5, <1>3, Zenon DEF IInv, Counted
<1>6. CASE ~progModeEnabled
  <2>1. UNCHANGED prog
    BY <1>6, Zenon DEF Second
  <2>2. TypeOK'
    BY <2>1, <1>1, <1>2 DEF IInv, TypeOK, prog
  <2>3. ~progModeEnabled' /\ progModeSeconds' = 0
    BY <2>1, <1>6 DEF prog, IInv, Counted
  <2>4. QED
    BY <2>2, <2>3, <1>3, Zenon DEF IInv, Counted
<1>7. QED
  BY <1>4, <1>5, <1>6, Zenon

(* The invariant holds when the program starts,                            *)
LEMMA InitIInv == Init => IInv
<1> SUFFICES ASSUME Init PROVE IInv
  OBVIOUS
<1>1. TypeOK
  BY ZeroInRange, Zenon DEF Init, TypeOK, Labels
<1>2. Counted
  BY DEF Init, Counted
<1>3. QED
  BY <1>1, <1>2 DEF IInv

(* and every statement of loop() and every interrupt preserves it.         *)
LEMMA NextIInv == IInv /\ [Next]_vars => IInv'
<1> SUFFICES ASSUME IInv, [Next]_vars PROVE IInv'
  OBVIOUS
<1>10. CASE Second           BY <1>10, SecondIInv
<1>11. CASE ProgFrame        BY <1>11, ProgFrameIInv
<1>12. CASE Restart          BY <1>12, RestartIInv
<1> USE ConsoleAssumption DEF ConsoleAssumption, IInv, TypeOK, Counted, Labels,
    SinceCap, prog, switch, time
<1>1. ASSUME NEW key \in Keys, ParseSerial(key) PROVE IInv'
  BY <1>1 DEF ParseSerial
<1>2. CASE NothingToRead     BY <1>2 DEF NothingToRead
<1>3. CASE ToggleSeconds     BY <1>3 DEF ToggleSeconds
<1>4. CASE ToggleSwitched    BY <1>4 DEF ToggleSwitched
<1>5. CASE TogglePin         BY <1>5 DEF TogglePin
<1>6. CASE TakeRequest       BY <1>6 DEF TakeRequest
<1>7. CASE ProgSecondsReset  BY <1>7 DEF ProgSecondsReset
<1>8. CASE ProgEnable        BY <1>8 DEF ProgEnable
<1>9. CASE NoRequest         BY <1>9 DEF NoRequest
<1>13. CASE UNCHANGED vars   BY <1>13 DEF vars
<1>14. QED
  BY <1>1, <1>2, <1>3, <1>4, <1>5, <1>6, <1>7, <1>8, <1>9, <1>10, <1>11,
     <1>12, <1>13 DEF Next, Loop

LEMMA IInvAlways == Spec => []IInv
BY InitIInv, NextIInv, PTL DEF Spec

(* Every variable of the console keeps its type: the seconds counted in    *)
(* programming mode stay below its time.                                   *)
THEOREM TypeCorrect == Spec => []TypeOK
BY IInvAlways, PTL DEF IInv

(* Programming mode is never open longer than its time and the latency of  *)
(* loop().                                                                 *)
THEOREM ProgModeIsBounded == Spec => []ProgModeBounded
<1>1. IInv => ProgModeBounded
  BY ConsoleAssumption
     DEF ConsoleAssumption, IInv, TypeOK, Counted, ProgModeBounded
<1>2. QED
  BY <1>1, IInvAlways, PTL

(* Timer 3 ends programming mode only when its time has passed.            *)
THEOREM TimerIsNotEarly == Spec => NotClosedEarly
<1>1. IInv /\ [Next]_vars
      => [Second /\ progModeEnabled /\ ~progModeEnabled'
            => sinceRequest + 1 >= ProgSeconds]_vars
  BY ConsoleAssumption
     DEF ConsoleAssumption, IInv, TypeOK, Counted, Second, CountProgSecond
<1>2. QED
  BY <1>1, IInvAlways, PTL DEF Spec, NotClosedEarly

=============================================================================
