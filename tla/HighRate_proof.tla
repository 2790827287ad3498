--------------------------- MODULE HighRate_proof ---------------------------
(***************************************************************************)
(* The throttle and the packet numbers of SIPd's high-rate writer for any  *)
(* limits, packet sizes, width of a long, interval of saving and number of *)
(* kills.  RateKeptUnlessCut is inductive with the types; NumbersContinue  *)
(* needs to know where the last number stands to what the file holds, and  *)
(* WrittenIsAccounted that the count of a unit does not turn over.         *)
(***************************************************************************)
EXTENDS HighRate, TLAPS

-----------------------------------------------------------------------------
(* Arithmetic *)

\* x is q times S and something below S.
LEMMA Division ==
    ASSUME NEW S \in Nat \ {0}, NEW x \in Nat
    PROVE  /\ x \div S \in Nat
           /\ x % S \in 0 .. S - 1
           /\ x = S * (x \div S) + (x % S)
  BY SMT

LEMMA Remainder ==
    ASSUME NEW S \in Nat \ {0}, NEW k \in Int, NEW r \in 0 .. S - 1
    PROVE  (S * k + r) % S = r
  BY SMT

\* What a new process counts on from is one interval after the file, and the
\* number after that is not saved.
LEMMA NextMultiple ==
    ASSUME NEW S \in Nat \ {0, 1}, NEW f \in Nat, f % S = 0
    PROVE  /\ (f \div S + 1) * S = f + S
           /\ (f + S) % S = 0
           /\ (f + S + 1) % S # 0
  <1>1. f \div S \in Nat /\ f = S * (f \div S)
    BY Division
  <1>2. f + S = S * (f \div S + 1)
    BY <1>1, SMT
  <1>3. (f \div S + 1) * S = f + S
    BY <1>1, <1>2, SMT
  <1>4. \A r \in 0 .. S - 1 : (S * (f \div S + 1) + r) % S = r
    <2>1. f \div S + 1 \in Int
      BY <1>1
    <2> QED BY <2>1, Remainder
  <1>5. (f + S + 0) % S = 0 /\ (f + S + 1) % S = 1
    <2>1. 0 \in 0 .. S - 1 /\ 1 \in 0 .. S - 1
      BY SMT
    <2> QED BY <1>2, <1>4, <2>1
  <1>6. f + S + 0 = f + S
    BY <1>1
  <1> QED BY <1>3, <1>5, <1>6

LEMMA MultiplesApart ==
    ASSUME NEW S \in Nat \ {0}, NEW f \in Nat, NEW x \in Nat,
           f % S = 0, x % S = 0, f < x
    PROVE  f + S <= x
  <1> DEFINE p == f \div S  q == x \div S
  <1>1. p \in Nat /\ q \in Nat /\ f = S * p /\ x = S * q
    BY Division
  <1> HIDE DEF p, q
  <1>2. p < q
    BY <1>1, SMT
  <1>3. S * (p + 1) <= S * q
    BY <1>1, <1>2, SMT
  <1> QED BY <1>1, <1>3, SMT

-----------------------------------------------------------------------------
(* Types, and what the throttle grants *)

\* The throttle never grants more than was asked for, nor less than nothing.
LEMMA GrantedRange ==
    ASSUME TypeOK
    PROVE  /\ Count \in 0 .. Word - 1
           /\ BytesAvailable \in 0 .. Word - 1
           /\ Granted(bytesToWrite) \in 0 .. bytesToWrite
  <1>1. Count \in 0 .. Word - 1
    BY HighRateAssumption DEF TypeOK, Count
  <1>2. perUnit - Count \in Int
    BY <1>1, HighRateAssumption DEF TypeOK
  <1>3. \A x \in Int : x % Word \in 0 .. Word - 1
    BY HighRateAssumption, SMT
  <1>4. BytesAvailable \in 0 .. Word - 1
    BY <1>2, <1>3 DEF BytesAvailable
  <1>5. bytesToWrite \in Nat
    BY DEF TypeOK
  <1> QED BY <1>1, <1>4, <1>5 DEF Granted

\* What the file stands for, and where a new process starts.
Held == IF file = Empty THEN 0 ELSE file

LEMMA FileMultiple ==
    ASSUME TypeOK
    PROVE  /\ Held \in Nat /\ Base(file) \in Nat
           /\ Held % Step = 0 => Base(file) = Held + Step
  <1>1. Held \in Nat
    BY DEF Held, TypeOK
  <1>2. Base(file) = (Held \div Step + 1) * Step
    BY DEF Base, Held
  <1>3. Held \div Step \in Nat
    BY <1>1, Division, HighRateAssumption
  <1>4. \A k \in Nat : (k + 1) * Step \in Nat
    BY HighRateAssumption, SMT
  <1>5. Base(file) \in Nat
    BY <1>2, <1>3, <1>4
  <1>6. Held % Step = 0 => Base(file) = Held + Step
    BY <1>1, <1>2, NextMultiple, HighRateAssumption
  <1> QED BY <1>1, <1>5, <1>6

LEMMA InitType == Init => TypeOK
  <1> SUFFICES ASSUME Init PROVE TypeOK
    OBVIOUS
  <1>1. comm \in [Comms -> [at : {"idle", "frac", "assign"}, rate : Rates \cup {0}]]
    BY DEF Init, Idle
  <1>2. {saved, savedAtStart, wiped, newUnit, cut} \subseteq BOOLEAN
    BY DEF Init
  <1>3. 0 \in 0 .. Word - 1 /\ deaths \in 0 .. MaxDeaths
    BY HighRateAssumption DEF Init
  <1> QED BY <1>1, <1>2, <1>3 DEF Init, TypeOK

LEMMA NextType == TypeOK /\ [Next]_vars => TypeOK'
  <1> SUFFICES ASSUME TypeOK, [Next]_vars PROVE TypeOK'
    OBVIOUS
  <1> USE HighRateAssumption
  <1>1. CASE Start
    <2>1. PICK r \in Rates : perSec' = r /\ perUnit' = r /\ peak' = r
      BY <1>1 DEF Start
    <2>2. {saved', savedAtStart', wiped', newUnit', cut'} \subseteq BOOLEAN
      BY <1>1 DEF Start, TypeOK
    <2> QED BY <1>1, <2>1, <2>2 DEF Start, TypeOK, clock
  <1>2. CASE CountUp
    <2>1. Base(file) \in Nat
      BY FileMultiple
    <2>2. tdrssNumber' \in Nat
      BY <1>2, <2>1 DEF CountUp, TypeOK
    <2>3. {saved', savedAtStart', wiped', newUnit', cut'} \subseteq BOOLEAN
      BY <1>2 DEF CountUp, TypeOK, throttle, life
    <2>4. CASE pc' = "opened"
      BY <1>2, <2>2, <2>3, <2>4 DEF CountUp, Issue, TypeOK, throttle, limits,
                                    life, clock
    <2>5. CASE pc' # "opened"
      <3>1. Issue(tdrssNumber') /\ file' = file
        BY <1>2, <2>5 DEF CountUp
      <3>2. top' \in Nat
        BY <2>2, <3>1 DEF Issue, Larger, TypeOK
      <3>3. PICK s \in Sizes : bytesToWrite' = s
        BY <3>1 DEF Issue
      <3> QED BY <1>2, <2>2, <2>3, <3>1, <3>2, <3>3
              DEF CountUp, Issue, TypeOK, throttle, limits, life, clock
    <2> QED BY <2>4, <2>5
  <1>3. CASE SaveNumber
    BY <1>3 DEF SaveNumber, TypeOK, Issue, Larger, throttle, limits, life, clock
  <1>4. CASE Sipthrottle
    <2> DEFINE g == Granted(bytesToWrite)
    <2>1. g \in 0 .. bytesToWrite /\ Count + g \in Nat
      BY GrantedRange DEF TypeOK
    <2> HIDE DEF g
    <2>2. Curcount' \in 0 .. Word - 1
      <3>1. \A x \in Nat : x % Word \in 0 .. Word - 1
        BY SMT
      <3> QED BY <1>4, <2>1, <3>1 DEF Sipthrottle, g
    <2>3. pc' \in {"throttle", "write"} /\ (pc' = "write" => bytesAvail' # 0)
      BY <1>4 DEF Sipthrottle
    <2>4. bytesAvail' = g
      BY <1>4 DEF Sipthrottle, g
    <2>5. peak' \in Nat
      BY <1>4 DEF Sipthrottle, Larger, TypeOK
    <2>6. {saved', savedAtStart', wiped', newUnit', cut'} \subseteq BOOLEAN
      BY <1>4 DEF Sipthrottle, TypeOK, numbers, life
    <2> QED
      BY <1>4, <2>1, <2>2, <2>3, <2>4, <2>5, <2>6
      DEF Sipthrottle, TypeOK, limits, numbers, life, clock
  <1>5. CASE Write
    BY <1>5 DEF Write, TypeOK, throttle, limits, numbers, life
  <1>6. CASE WriteFails
    BY <1>6 DEF WriteFails, TypeOK, throttle, limits, numbers, life, clock
  <1>7. CASE Tick
    BY <1>7 DEF Tick, TypeOK, limits, numbers, life
  <1>8. CASE \E c \in Comms : SetBytesPerSecLimit(c)
    BY <1>8 DEF SetBytesPerSecLimit, TypeOK, throttle, numbers, life, clock
  <1>9. CASE \E c \in Comms : LoadPerSec(c)
    BY <1>9 DEF LoadPerSec, TypeOK, throttle, numbers, life, clock
  <1>10. CASE \E c \in Comms : StorePerUnit(c)
    BY <1>10 DEF StorePerUnit, TypeOK, Idle, throttle, numbers, life, clock
  <1>11. CASE Die
    BY <1>11 DEF Die, TypeOK, Idle, numbers
  <1>12. CASE UNCHANGED vars
    BY <1>12 DEF TypeOK, vars, throttle, limits, numbers, life, clock
  <1> QED
    BY <1>1, <1>2, <1>3, <1>4, <1>5, <1>6, <1>7, <1>8, <1>9, <1>10, <1>11,
       <1>12 DEF Next, Thread

\* Every variable keeps its type; a grant is never more than was asked for,
\* though it comes from a subtraction that goes below zero (sipthrottle.c:82).
THEOREM Typing == Spec => []TypeOK
  <1> QED BY InitType, NextType, PTL DEF Spec

-----------------------------------------------------------------------------
(* The rate *)

LEMMA InitRate == Init => RateKeptUnlessCut
  BY DEF Init, RateKeptUnlessCut, RateKept

\* A grant in a unit that was not cut leaves the count at most at the limit.
LEMMA SipthrottleRate ==
    ASSUME TypeOK, Sipthrottle, ~cut'
    PROVE  Curcount' <= peak'
  <1> DEFINE g == Granted(bytesToWrite)
  <1>1. Count \in 0 .. Word - 1 /\ g \in 0 .. bytesToWrite
    BY GrantedRange
  <1>2. Count <= perUnit /\ perUnit < Word
    <2>1. perUnit \in Nat /\ perUnit < Word
      BY HighRateAssumption DEF TypeOK
    <2>2. ~(perUnit < Count)
      BY DEF Sipthrottle
    <2> QED BY <1>1, <2>1, <2>2, HighRateAssumption
  <1>3. \A x \in 0 .. Word - 1 : x % Word = x
    BY HighRateAssumption, SMT
  <1>4. perUnit \in Nat
    BY HighRateAssumption DEF TypeOK
  <1>5. BytesAvailable = perUnit - Count
    <2>1. perUnit - Count \in 0 .. Word - 1
      BY <1>1, <1>2, <1>4, HighRateAssumption
    <2> QED BY <1>3, <2>1 DEF BytesAvailable
  <1>6. g <= perUnit - Count
    BY <1>1, <1>4, <1>5 DEF Granted, TypeOK
  <1> HIDE DEF g
  <1>7. Count + g \in 0 .. Word - 1 /\ Count + g <= perUnit
    BY <1>1, <1>2, <1>4, <1>6, HighRateAssumption DEF TypeOK
  <1>8. Curcount' = Count + g
    BY <1>3, <1>7 DEF Sipthrottle, g
  <1>9. perUnit <= peak'
    BY <1>4 DEF Sipthrottle, Larger, TypeOK
  <1>10. peak' \in Nat
    BY <1>4 DEF Sipthrottle, Larger, TypeOK
  <1> QED BY <1>1, <1>4, <1>7, <1>8, <1>9, <1>10 DEF TypeOK

LEMMA NextRate ==
    TypeOK /\ RateKeptUnlessCut /\ [Next]_vars => RateKeptUnlessCut'
  <1> SUFFICES ASSUME TypeOK, RateKeptUnlessCut, [Next]_vars
               PROVE  RateKeptUnlessCut'
    OBVIOUS
  <1>1. CASE Start
    <2>1. Curcount' = 0 /\ peak' \in Nat
      BY <1>1, HighRateAssumption DEF Start
    <2> QED BY <2>1 DEF RateKeptUnlessCut, RateKept
  <1>2. CASE Sipthrottle
    BY <1>2, SipthrottleRate DEF RateKeptUnlessCut, RateKept
  <1>3. CASE UNCHANGED <<Curcount, peak, cut>>
    BY <1>3 DEF RateKeptUnlessCut, RateKept
  <1>4. ~Start /\ ~Sipthrottle => UNCHANGED <<Curcount, peak, cut>>
    BY DEF Next, Thread, CountUp, SaveNumber, Write, WriteFails, Tick,
           SetBytesPerSecLimit, LoadPerSec, StorePerUnit, Die, vars, throttle
  <1> QED BY <1>1, <1>2, <1>3, <1>4

\* What is granted in a unit stays within the largest limit met in it, unless a
\* command took the limit below what had been granted, for any two command
\* threads' interleaving, any limits and any sizes (sipthrottle.c:82-92).
THEOREM KeepsRate == Spec => []RateKeptUnlessCut
  <1> QED BY InitRate, NextRate, Typing, PTL DEF Spec

-----------------------------------------------------------------------------
(* What leaves in a second                                                 *)

\* The count of the unit holds what is to be added to it.  It may not when a
\* command has cut the unit and Word bytes have been granted in it since.
CountHolds == Sipthrottle /\ cut' => Count + Granted(bytesToWrite) < Word

\* A SIPd that is down has nothing granted, and its successor counts from 0.
WrittenInv ==
    /\ WrittenIsAccounted
    /\ pc = "down" => sent <= late

\* In a unit that was not cut the count cannot pass Word: the limit is below.
LEMMA NeverWraps ==
    ASSUME TypeOK, Sipthrottle, CountHolds
    PROVE  Curcount' = Count + Granted(bytesToWrite)
  <1> DEFINE g == Granted(bytesToWrite)
  <1>1. Count \in 0 .. Word - 1 /\ g \in 0 .. bytesToWrite
    BY GrantedRange
  <1>2. \A x \in 0 .. Word - 1 : x % Word = x
    BY HighRateAssumption, SMT
  <1>3. CASE cut'
    <2>1. Count + g \in 0 .. Word - 1
      BY <1>1, <1>3, HighRateAssumption DEF CountHolds, TypeOK
    <2> QED BY <1>2, <2>1 DEF Sipthrottle
  <1>4. CASE ~cut'
    <2>1. Count <= perUnit /\ perUnit \in Nat /\ perUnit < Word
      <3>1. perUnit \in Nat /\ perUnit < Word
        BY HighRateAssumption DEF TypeOK
      <3>2. ~(perUnit < Count)
        BY <1>4 DEF Sipthrottle
      <3> QED BY <1>1, <3>1, <3>2, HighRateAssumption
    <2>2. BytesAvailable = perUnit - Count
      <3>1. perUnit - Count \in 0 .. Word - 1
        BY <1>1, <2>1, HighRateAssumption
      <3> QED BY <1>2, <3>1 DEF BytesAvailable
    <2>3. g <= perUnit - Count
      BY <1>1, <2>1, <2>2 DEF Granted, TypeOK
    <2> HIDE DEF g
    <2>4. Count + g \in 0 .. Word - 1
      BY <1>1, <2>1, <2>3, HighRateAssumption DEF TypeOK
    <2> QED BY <1>2, <2>4 DEF Sipthrottle, g
  <1> QED BY <1>3, <1>4

LEMMA NextWritten ==
    TypeOK /\ WrittenInv /\ [Next]_vars /\ [CountHolds]_vars => WrittenInv'
  <1> SUFFICES ASSUME TypeOK, WrittenInv, [Next]_vars, [CountHolds]_vars
               PROVE  WrittenInv'
    OBVIOUS
  <1>0. /\ sent \in Nat /\ late \in Nat /\ Curcount \in Nat /\ bytesAvail \in Nat
        /\ bytesToWrite \in Nat
    BY HighRateAssumption DEF TypeOK
  <1>1. CASE Start
    BY <1>0, <1>1 DEF Start, WrittenInv, WrittenIsAccounted, clock
  <1>2. CASE CountUp \/ SaveNumber
    <2>1. pc # "write" /\ pc # "down" /\ pc' # "write" /\ pc' # "down"
          /\ UNCHANGED <<sent, late, newUnit, Curcount>>
      BY <1>2 DEF CountUp, SaveNumber, Issue, throttle, clock
    <2> QED BY <2>1 DEF WrittenInv, WrittenIsAccounted
  <1>3. CASE Sipthrottle
    <2> DEFINE g == Granted(bytesToWrite)
    <2>1. pc' \in {"throttle", "write"} /\ pc = "throttle" /\ newUnit' = FALSE
          /\ bytesAvail' = g /\ UNCHANGED <<sent, late>>
      BY <1>3 DEF Sipthrottle, clock
    <2>2. g \in Nat /\ Count \in Nat
      BY <1>0, GrantedRange, HighRateAssumption
    <2>3. sent <= late + Count
      BY <1>0, <2>1 DEF WrittenInv, WrittenIsAccounted, Count
    <2>4. [CountHolds]_vars => CountHolds
      <3>1. UNCHANGED vars => Count + g = Count
        <4>1. UNCHANGED vars => pc' = "throttle" /\ Curcount' = Curcount /\ newUnit = FALSE
          BY <2>1 DEF vars, throttle
        <4>2. pc' = "throttle" => g = 0
          BY <1>3, <2>1 DEF Sipthrottle
        <4> QED BY <2>2, <4>1, <4>2
      <3>2. Count < Word
        BY GrantedRange, HighRateAssumption
      <3> QED BY <3>1, <3>2 DEF CountHolds
    <2>5. Curcount' = Count + g
      BY <1>3, <2>4, NeverWraps
    <2> HIDE DEF g
    <2> QED BY <1>0, <2>1, <2>2, <2>3, <2>5 DEF WrittenInv, WrittenIsAccounted
  <1>4. CASE Write \/ WriteFails
    BY <1>0, <1>4 DEF Write, WriteFails, WrittenInv, WrittenIsAccounted,
                      throttle, clock
  <1>5. CASE Tick
    BY <1>0, <1>5 DEF Tick, WrittenInv, WrittenIsAccounted
  <1>6. CASE Die
    BY <1>0, <1>6 DEF Die, WrittenInv, WrittenIsAccounted
  <1>7. CASE UNCHANGED <<pc, throttle, clock>>
    BY <1>7 DEF WrittenInv, WrittenIsAccounted, throttle, clock
  <1>8. \/ Start \/ CountUp \/ SaveNumber \/ Sipthrottle \/ Write \/ WriteFails
        \/ Tick \/ Die \/ UNCHANGED <<pc, throttle, clock>>
    BY DEF Next, Thread, SetBytesPerSecLimit, LoadPerSec, StorePerUnit, vars
  <1> QED BY <1>1, <1>2, <1>3, <1>4, <1>5, <1>6, <1>7, <1>8

\* What leaves in a second of the clock is what was granted in it and at most one
\* piece granted before, for any sizes, any limits, any changes of them and any
\* number of kills (sipcom.c:1020-1060).  Granted in one unit that a
\* command has cut, Word bytes would turn the count over: that is assumed
\* away, a serial line does not take them in a second.
THEOREM WrittenCounted == Spec /\ [][CountHolds]_vars => []WrittenIsAccounted
  <1>1. Init => WrittenInv
    BY DEF Init, WrittenInv, WrittenIsAccounted
  <1>2. WrittenInv => WrittenIsAccounted
    BY DEF WrittenInv
  <1> QED BY <1>1, <1>2, NextWritten, Typing, PTL DEF Spec

-----------------------------------------------------------------------------
(* Packet numbers *)

\* Where numbers stand, while no kill has emptied the file.  The next process
\* starts from the interval after the file's, so what has been issued must be
\* below that, or, if the last process saved nothing, below the interval after.
NumberInv ==
    /\ Held % Step = 0
    /\ tdrssNumber = 0 /\ pc # "down" =>
          pc = "idle" /\ topAtStart = top /\ savedAtStart = saved
    /\ pc = "opened" =>
          file = Empty /\ tdrssNumber > 0 /\ tdrssNumber % Step = 0
    /\ ~wiped /\ pc = "opened" => top < tdrssNumber
    /\ ~wiped /\ pc # "opened" =>
          top < Held + (IF saved THEN Step ELSE 2 * Step)
    /\ ~wiped /\ pc \notin {"down", "opened"} /\ tdrssNumber > 0 =>
          IF saved THEN tdrssNumber \in Held .. Held + Step - 1
                   ELSE tdrssNumber \in Held + Step + 1 .. Held + 2 * Step - 1
    /\ NumbersContinue

LEMMA InitNumbers == Init => NumberInv
  <1> SUFFICES ASSUME Init PROVE NumberInv
    OBVIOUS
  <1>1. Held = 0
    BY DEF Init, Held
  <1>2. 0 % Step = 0
    BY HighRateAssumption, SMT
  <1>3. top < Held + (IF saved THEN Step ELSE 2 * Step)
    BY <1>1, HighRateAssumption DEF Init
  <1> QED BY <1>1, <1>2, <1>3 DEF Init, NumberInv, NumbersContinue

\* The first number of a process.
LEMMA FirstNumber ==
    ASSUME TypeOK, NumberInv, CountUp, tdrssNumber = 0
    PROVE  NumberInv'
  <1>1. Held \in Nat /\ Base(file) = Held + Step
    BY FileMultiple DEF NumberInv
  <1>2. tdrssNumber' = Held + Step + 1
    BY <1>1 DEF CountUp
  <1>3. tdrssNumber' % Step # 0
    BY <1>1, <1>2, NextMultiple, HighRateAssumption DEF NumberInv
  <1>4. Issue(tdrssNumber') /\ saved' = FALSE /\ file' = file
    BY <1>3 DEF CountUp
  <1>5. Held' = Held
    BY <1>4 DEF Held
  <1>6. /\ pc = "idle" /\ topAtStart = top /\ savedAtStart = saved
        /\ UNCHANGED <<topAtStart, savedAtStart, wiped>>
    BY DEF CountUp, NumberInv, life
  <1>7. pc' = "throttle" /\ top' = Larger(top, tdrssNumber')
    BY <1>4 DEF Issue
  <1>8. CASE wiped
    BY <1>1, <1>2, <1>4, <1>5, <1>6, <1>7, <1>8, HighRateAssumption
       DEF NumberInv, NumbersContinue
  <1>9. CASE ~wiped
    <2>1. top < Held + (IF saved THEN Step ELSE 2 * Step) /\ top \in Nat
      BY <1>6, <1>9 DEF NumberInv, TypeOK
    <2>2. tdrssNumber' \in Held + Step + 1 .. Held + 2 * Step - 1
      BY <1>1, <1>2, HighRateAssumption
    <2>3. top' < Held + 2 * Step
      BY <1>1, <1>7, <2>1, <2>2, HighRateAssumption DEF Larger
    <2>4. topAtStart < tdrssNumber' + (IF savedAtStart THEN 0 ELSE Step)
      BY <1>1, <1>2, <1>6, <2>1, HighRateAssumption
    <2>5. NumbersContinue'
      BY <1>6, <2>4 DEF NumbersContinue
    <2>6. tdrssNumber' # 0 /\ Held' % Step = 0
      BY <1>1, <1>2, <1>5, HighRateAssumption DEF NumberInv
    <2>7. top' < Held' + (IF saved' THEN Step ELSE 2 * Step)
      BY <1>4, <1>5, <2>3
    <2>8. IF saved' THEN tdrssNumber' \in Held' .. Held' + Step - 1
          ELSE tdrssNumber' \in Held' + Step + 1 .. Held' + 2 * Step - 1
      BY <1>4, <1>5, <2>2
    <2> QED BY <1>7, <2>5, <2>6, <2>7, <2>8 DEF NumberInv
  <1> QED BY <1>8, <1>9

\* A later one: below the next multiple it is not saved; there it is.
LEMMA LaterNumber ==
    ASSUME TypeOK, NumberInv, CountUp, tdrssNumber # 0
    PROVE  NumberInv'
  <1> DEFINE n == tdrssNumber + 1
  <1>1. /\ tdrssNumber' = n /\ n \in Nat /\ n > 1 /\ pc = "idle"
        /\ UNCHANGED <<topAtStart, savedAtStart, wiped>>
        /\ top \in Nat /\ topAtStart \in Nat
    BY DEF CountUp, TypeOK, life
  <1>2. /\ Held \in Nat /\ Held % Step = 0 /\ Held + Step \in Nat
        /\ (Held + Step) % Step = 0 /\ Step \in Nat /\ Step > 1
    BY FileMultiple, NextMultiple, HighRateAssumption DEF NumberInv
  <1>3. NumbersContinue'
    <2> DEFINE slack == IF savedAtStart THEN 0 ELSE Step
    <2>1. slack \in Nat /\ slack' = slack
      BY <1>1, HighRateAssumption
    <2>2. ~wiped => topAtStart < tdrssNumber + slack
      BY <1>1 DEF NumberInv, NumbersContinue
    <2> HIDE DEF slack
    <2>3. ~wiped' => topAtStart' < tdrssNumber' + slack'
      BY <1>1, <2>1, <2>2 DEF TypeOK
    <2> QED BY <2>3 DEF NumbersContinue, slack
  <1>4. ~wiped =>
          /\ top < Held + (IF saved THEN Step ELSE 2 * Step)
          /\ IF saved THEN Held < n /\ n <= Held + Step
                      ELSE Held + Step < n /\ n <= Held + 2 * Step
    <2>1. ~wiped =>
            IF saved THEN tdrssNumber \in Held .. Held + Step - 1
            ELSE tdrssNumber \in Held + Step + 1 .. Held + 2 * Step - 1
      BY <1>1, <1>2 DEF NumberInv, TypeOK
    <2>2. ~wiped => top < Held + (IF saved THEN Step ELSE 2 * Step)
      BY <1>1 DEF NumberInv
    <2>3. tdrssNumber \in Nat
      BY DEF TypeOK
    <2> QED BY <1>1, <1>2, <2>1, <2>2, <2>3
  <1>5. CASE n % Step = 0
    <2>1. pc' = "opened" /\ file' = Empty /\ UNCHANGED <<top, saved>>
      BY <1>1, <1>5 DEF CountUp
    <2>2. Held' = 0 /\ 0 % Step = 0
      BY <2>1, HighRateAssumption, SMT DEF Held
    <2>3. ~wiped => top < n
      <3>1. CASE ~wiped /\ saved
        <4>1. Held + Step <= n
          BY <1>1, <1>2, <1>4, <1>5, <3>1, MultiplesApart, HighRateAssumption
        <4> QED BY <1>1, <1>2, <1>4, <3>1, <4>1
      <3>2. CASE ~wiped /\ ~saved
        <4>1. Held + Step + Step <= n
          BY <1>1, <1>2, <1>4, <1>5, <3>2, MultiplesApart, HighRateAssumption
        <4> QED BY <1>1, <1>2, <1>4, <3>2, <4>1
      <3> QED BY <3>1, <3>2
    <2> HIDE DEF n
    <2> QED BY <1>1, <1>3, <1>5, <2>1, <2>2, <2>3 DEF NumberInv
  <1>6. CASE n % Step # 0
    <2>1. Issue(n) /\ saved' = saved /\ file' = file
      <3>1. Issue(n) /\ saved' = (saved /\ tdrssNumber # 0) /\ file' = file
        BY <1>1, <1>6 DEF CountUp
      <3> QED BY <3>1 DEF TypeOK
    <2>2. pc' = "throttle" /\ top' = Larger(top, n)
      BY <2>1 DEF Issue
    <2>3. Held' = Held
      BY <2>1 DEF Held
    <2>4. ~wiped => IF saved THEN n \in Held .. Held + Step - 1
                    ELSE n \in Held + Step + 1 .. Held + 2 * Step - 1
      <3>1. n # Held + Step
        BY <1>2, <1>6
      <3>2. n # Held + 2 * Step
        <4>1. (Held + Step + Step) % Step = 0
          BY <1>2, NextMultiple, HighRateAssumption
        <4>2. Held + Step + Step = Held + 2 * Step
          BY <1>2
        <4> QED BY <1>6, <4>1, <4>2
      <3> QED BY <1>1, <1>2, <1>4, <3>1, <3>2
    <2>5. ~wiped => top' < Held + (IF saved THEN Step ELSE 2 * Step)
      BY <1>1, <1>2, <1>4, <2>2, <2>4 DEF Larger
    <2> HIDE DEF n
    <2>6. tdrssNumber' # 0
      BY <1>1
    <2>7. ~wiped' => top' < Held' + (IF saved' THEN Step ELSE 2 * Step)
      BY <1>1, <2>1, <2>3, <2>5
    <2>8. ~wiped' => IF saved' THEN tdrssNumber' \in Held' .. Held' + Step - 1
                     ELSE tdrssNumber' \in Held' + Step + 1 .. Held' + 2 * Step - 1
      BY <1>1, <2>1, <2>3, <2>4
    <2> QED BY <1>2, <1>3, <2>2, <2>3, <2>6, <2>7, <2>8 DEF NumberInv
  <1> QED BY <1>5, <1>6

LEMMA SavedNumber ==
    ASSUME TypeOK, NumberInv, SaveNumber
    PROVE  NumberInv'
  <1>1. /\ pc = "opened" /\ file' = tdrssNumber /\ saved' = TRUE
        /\ tdrssNumber \in Nat /\ tdrssNumber > 0 /\ tdrssNumber % Step = 0
        /\ UNCHANGED <<tdrssNumber, topAtStart, savedAtStart, wiped>>
        /\ top \in Nat
    BY DEF SaveNumber, NumberInv, TypeOK, life
  <1>2. Held' = tdrssNumber
    BY <1>1 DEF Held, Empty
  <1>3. pc' = "throttle" /\ top' = Larger(top, tdrssNumber)
    BY DEF SaveNumber, Issue
  <1>4. ~wiped => top < tdrssNumber
    BY <1>1 DEF NumberInv
  <1>5. ~wiped => top' < Held' + Step
    BY <1>1, <1>2, <1>3, <1>4, HighRateAssumption DEF Larger
  <1>6. tdrssNumber \in Held' .. Held' + Step - 1
    BY <1>1, <1>2, HighRateAssumption
  <1>7. NumbersContinue'
    <2>1. NumbersContinue
      BY DEF NumberInv
    <2>2. tdrssNumber # 0 /\ pc # "down"
      BY <1>1
    <2> QED BY <1>1, <2>1, <2>2 DEF NumbersContinue
  <1> QED BY <1>1, <1>2, <1>3, <1>5, <1>6, <1>7 DEF NumberInv

LEMMA NextNumbers == TypeOK /\ NumberInv /\ [Next]_vars => NumberInv'
  <1> SUFFICES ASSUME TypeOK, NumberInv, [Next]_vars PROVE NumberInv'
    OBVIOUS
  <1>1. CASE Start
    <2>1. /\ pc = "down" /\ pc' = "idle" /\ tdrssNumber' = 0
          /\ topAtStart' = top /\ savedAtStart' = saved
          /\ UNCHANGED <<file, top, saved, wiped>>
      BY <1>1 DEF Start
    <2>2. Held' = Held
      BY <2>1 DEF Held
    <2> QED BY <2>1, <2>2 DEF NumberInv, NumbersContinue
  <1>2. CASE CountUp
    BY <1>2, FirstNumber, LaterNumber
  <1>3. CASE SaveNumber
    BY <1>3, SavedNumber
  <1>4. CASE Die
    <2>1. /\ pc' = "down" /\ wiped' = (wiped \/ pc = "opened")
          /\ UNCHANGED <<tdrssNumber, file, top, saved, topAtStart, savedAtStart>>
      BY <1>4 DEF Die, numbers
    <2>2. Held' = Held
      BY <2>1 DEF Held
    <2> QED BY <2>1, <2>2 DEF NumberInv, NumbersContinue
  <1>5. CASE Sipthrottle \/ Write \/ WriteFails
    <2>1. /\ pc \in {"throttle", "write"}
          /\ pc' \in {"idle", "throttle", "write"}
          /\ UNCHANGED <<tdrssNumber, file, top, saved, topAtStart,
                         savedAtStart, wiped>>
      BY <1>5 DEF Sipthrottle, Write, WriteFails, numbers, life
    <2>2. Held' = Held
      BY <2>1 DEF Held
    <2> QED BY <2>1, <2>2 DEF NumberInv, NumbersContinue
  <1>6. CASE UNCHANGED <<pc, numbers, life>>
    <2>1. Held' = Held
      BY <1>6 DEF Held, numbers
    <2> QED BY <1>6, <2>1 DEF NumberInv, NumbersContinue, numbers, life
  <1>7. \/ Start \/ CountUp \/ SaveNumber \/ Die
        \/ Sipthrottle \/ Write \/ WriteFails \/ UNCHANGED <<pc, numbers, life>>
    BY DEF Next, Thread, Tick, SetBytesPerSecLimit, LoadPerSec, StorePerUnit,
           vars
  <1> QED BY <1>1, <1>2, <1>3, <1>4, <1>5, <1>6, <1>7

\* A restarted process issues no number that an earlier one had, if that one
\* lived to save one, and else fewer than Step of them, for any interval Step
\* of saving and any number of kills (SIPd.c:1408-1455).
THEOREM NumbersGoOn == Spec => []NumbersContinue
  <1>1. NumberInv => NumbersContinue
    BY DEF NumberInv
  <1> QED BY <1>1, InitNumbers, NextNumbers, Typing, PTL DEF Spec

=============================================================================
