------------------------------ MODULE HighRate ------------------------------
(***************************************************************************)
(* SIPd's high-rate (TDRSS) writer.  One thread numbers each packet        *)
(* (getTdrssNumber, which keeps every Step-th number in a file) and        *)
(* writes it in pieces as large as the throttle grants (sipthrottle).      *)
(* The two threads that read COMM1 and COMM2 change the throttle's limit   *)
(* under it, without a lock (sipcom_highrate_set_throttle); the process    *)
(* may be killed at any point and is started again.                        *)
(*                                                                         *)
(* Time is counted in the throttle's units of one second: newUnit says     *)
(* that the clock has passed into a unit that the throttle has not seen.   *)
(***************************************************************************)
EXTENDS Integers

CONSTANTS
    Comms,          \* the threads that obey commands: COMM1 and COMM2
    Rates,          \* limits, in bytes per unit, configured or commanded
    Sizes,          \* sizes of wrapped packets
    Word,           \* 2^w for the width w of an unsigned long
    Step,           \* every Step-th packet number goes to the file (100)
    MaxNumber,      \* bound on packet numbers: the thread stops there
    MaxDeaths       \* bound on how often SIPd is killed

Empty == -1         \* a file truncated and not written yet

ASSUME HighRateAssumption ==
    /\ Word \in Nat \ {0}
    /\ Rates \subseteq Nat
    /\ Sizes \subseteq Nat \ {0}
    /\ \A r \in Rates \cup Sizes : r < Word
    /\ Step \in Nat \ {0, 1}
    /\ MaxNumber \in Nat
    /\ MaxDeaths \in Nat

VARIABLES
    pc,             \* "down", "idle", "opened", "throttle", "write"
    tdrssNumber,    \* 0 before the first call of a process
    file,           \* LAST_TDRSS_NUMBER_FILE
    bytesToWrite,   \* what is left of the packet
    bytesAvail,     \* what the throttle has granted
    newUnit,        \* get_curtime() # Curtime
    Curcount,       \* bytes granted in the unit Curtime
    perSec,         \* Bytes_per_sec_limit
    perUnit,        \* Bytes_per_unit_limit
    comm,           \* what each command thread is doing
    deaths          \* how often SIPd was killed

\* History: read by the properties and by no guard.
VARIABLES
    peak,           \* the largest limit the throttle has met in its unit
    cut,            \* has it met one below what it had granted already?
    sent,           \* bytes written since the clock's unit began
    late,           \* those granted before that, or by an earlier process
    top,            \* the largest number any packet has had
    topAtStart,     \* top when this process started
    saved,          \* did the process that issued the last number save one?
    savedAtStart,   \* saved when this process started
    wiped           \* was SIPd ever killed between fopen and fprintf?

throttle == <<newUnit, Curcount, bytesAvail, peak, cut>>
limits == <<perSec, perUnit, comm>>
numbers == <<tdrssNumber, file, top, saved>>
life == <<deaths, topAtStart, savedAtStart, wiped>>
clock == <<sent, late>>
vars == <<pc, bytesToWrite, throttle, limits, numbers, life, clock>>

Larger(a, b) == IF a > b THEN a ELSE b

Idle == [at |-> "idle", rate |-> 0]

Init ==
    /\ pc = "down"
    /\ tdrssNumber = 0 /\ top = 0 /\ topAtStart = 0
    /\ file \in {Empty, 0}
    /\ saved = TRUE /\ savedAtStart = TRUE /\ wiped = FALSE
    /\ bytesToWrite = 0 /\ bytesAvail = 0
    /\ newUnit = FALSE
    /\ Curcount = 0 /\ peak = 0 /\ cut = FALSE
    /\ perSec = 0 /\ perUnit = 0
    /\ comm = [c \in Comms |-> Idle]
    /\ sent = 0 /\ late = 0
    /\ deaths = 0

\* A new process: sipcom_init and sipthrottle_init with the configured rate.
Start ==
    /\ pc = "down"
    /\ pc' = "idle"
    /\ tdrssNumber' = 0
    /\ \E r \in Rates : perSec' = r /\ perUnit' = r /\ peak' = r
    /\ newUnit' = FALSE
    /\ Curcount' = 0
    /\ cut' = FALSE
    /\ topAtStart' = top
    /\ savedAtStart' = saved
    /\ UNCHANGED <<bytesToWrite, bytesAvail, comm, file, top, saved, deaths,
                   wiped, clock>>

-----------------------------------------------------------------------------
(* Packet numbers *)

\* What a new process counts on from: the next multiple of Step after what
\* the file holds, a missing or empty file counting as 0.
MutBase(f) == ((IF f = Empty THEN 0 ELSE f) \div Step) * Step
Base(f) == ((IF f = Empty THEN 0 ELSE f) \div Step + 1) * Step

\* The packet has its number and goes to sipcom_highrate_write.
Issue(n) ==
    /\ pc' = "throttle"
    /\ top' = Larger(top, n)
    /\ \E s \in Sizes : bytesToWrite' = s

\* getTdrssNumber, and the file's fopen with "w" for every Step-th number.
CountUp ==
    LET n == (IF tdrssNumber = 0 THEN Base(file) ELSE tdrssNumber) + 1
    IN  /\ pc = "idle"
        /\ n <= MaxNumber
        /\ tdrssNumber' = n
        /\ IF n % Step = 0
             THEN /\ pc' = "opened"
                  /\ file' = Empty
                  /\ UNCHANGED <<top, saved, bytesToWrite>>
             ELSE /\ Issue(n)
                  /\ saved' = (saved /\ tdrssNumber # 0)
                  /\ UNCHANGED file
        /\ UNCHANGED <<throttle, limits, life, clock>>

\* getTdrssNumber: fprintf and fclose.
SaveNumber ==
    /\ pc = "opened"
    /\ file' = tdrssNumber
    /\ saved' = TRUE
    /\ Issue(tdrssNumber)
    /\ UNCHANGED <<tdrssNumber, throttle, limits, life, clock>>

-----------------------------------------------------------------------------
(* The throttle and its user *)

\* Curcount is cleared when the unit is a new one.
MutCount == Curcount
Count == IF newUnit THEN 0 ELSE Curcount

\* bytes_available as the comparison with amountb sees it: it is a long, but
\* amountb is an unsigned long, so less than nothing left is a huge number.
BytesAvailable == (perUnit - Count) % Word

\* What sipthrottle returns.
MutGranted(amountb) == IF amountb < perUnit THEN amountb ELSE perUnit
MutUncompared(amountb) == BytesAvailable
Granted(amountb) == IF BytesAvailable < amountb THEN BytesAvailable ELSE amountb

\* highrate_write_bytes asks the throttle, and asks again if it gets nothing.
Sipthrottle ==
    /\ pc = "throttle"
    /\ Curcount' = (Count + Granted(bytesToWrite)) % Word
    /\ bytesAvail' = Granted(bytesToWrite)
    /\ pc' = IF bytesAvail' = 0 THEN "throttle" ELSE "write"
    /\ newUnit' = FALSE
    /\ peak' = IF newUnit THEN perUnit ELSE Larger(peak, perUnit)
    /\ cut' = (perUnit < Count \/ (cut /\ ~newUnit))
    /\ UNCHANGED <<bytesToWrite, limits, numbers, life, clock>>

MutWrite ==
    /\ pc = "write"
    /\ bytesToWrite' = bytesToWrite - bytesAvail
    /\ sent' = sent + bytesToWrite
    /\ pc' = IF bytesToWrite' = 0 THEN "idle" ELSE "throttle"
    /\ UNCHANGED <<late, throttle, limits, numbers, life>>
\* highrate_write_bytes writes what was granted.
Write ==
    /\ pc = "write"
    /\ bytesToWrite' = bytesToWrite - bytesAvail
    /\ sent' = sent + bytesAvail
    /\ pc' = IF bytesToWrite' = 0 THEN "idle" ELSE "throttle"
    /\ UNCHANGED <<late, throttle, limits, numbers, life>>

\* An error of write: the rest of the packet is given up.
WriteFails ==
    /\ pc = "write"
    /\ bytesToWrite' = 0
    /\ pc' = "idle"
    /\ UNCHANGED <<throttle, limits, numbers, life, clock>>

\* The clock passes into the next unit.
Tick ==
    /\ newUnit' = TRUE
    /\ sent' = 0
    /\ late' = IF pc = "write" THEN bytesAvail ELSE 0
    /\ UNCHANGED <<pc, bytesToWrite, Curcount, bytesAvail, peak, cut, limits,
                   numbers, life>>

-----------------------------------------------------------------------------
(* Commands: sipcom_highrate_set_throttle *)

SetBytesPerSecLimit(c) ==
    /\ pc # "down"
    /\ comm[c].at = "idle"
    /\ \E r \in Rates : perSec' = r
    /\ comm' = [comm EXCEPT ![c].at = "frac"]
    /\ UNCHANGED <<pc, bytesToWrite, perUnit, throttle, numbers, life, clock>>

\* sipthrottle_set_frac_sec reads Bytes_per_sec_limit, and then assigns
\* Bytes_per_unit_limit (the fraction is 1.0).
LoadPerSec(c) ==
    /\ comm[c].at = "frac"
    /\ comm' = [comm EXCEPT ![c] = [at |-> "assign", rate |-> perSec]]
    /\ UNCHANGED <<pc, bytesToWrite, perSec, perUnit, throttle, numbers, life,
                   clock>>

StorePerUnit(c) ==
    /\ comm[c].at = "assign"
    /\ perUnit' = comm[c].rate
    /\ comm' = [comm EXCEPT ![c] = Idle]
    /\ UNCHANGED <<pc, bytesToWrite, perSec, throttle, numbers, life, clock>>

-----------------------------------------------------------------------------

\* SIPd is killed: all but the file is lost.
Die ==
    /\ pc # "down"
    /\ deaths < MaxDeaths
    /\ deaths' = deaths + 1
    /\ pc' = "down"
    /\ wiped' = (wiped \/ pc = "opened")
    /\ bytesToWrite' = 0
    /\ bytesAvail' = 0
    /\ comm' = [c \in Comms |-> Idle]
    /\ late' = sent
    /\ UNCHANGED <<newUnit, Curcount, peak, cut, perSec, perUnit, numbers,
                   topAtStart, savedAtStart, sent>>

Thread == CountUp \/ SaveNumber \/ Sipthrottle \/ Write \/ WriteFails

Next ==
    \/ Start
    \/ Thread
    \/ Tick
    \/ \E c \in Comms :
          SetBytesPerSecLimit(c) \/ LoadPerSec(c) \/ StorePerUnit(c)
    \/ Die

\* The thread runs and time passes; nobody need send a command.
Fairness == WF_vars(Thread) /\ WF_vars(Tick)

Spec == Init /\ [][Next]_vars /\ Fairness

-----------------------------------------------------------------------------
(* Properties *)

\* Every variable stays in its type; a grant is never more than was asked
\* for, and the thread writes only what it was granted.
TypeOK ==
    /\ pc \in {"down", "idle", "opened", "throttle", "write"}
    /\ tdrssNumber \in Nat /\ top \in Nat /\ topAtStart \in Nat
    /\ file \in Nat \cup {Empty}
    /\ {saved, savedAtStart, wiped, newUnit, cut} \subseteq BOOLEAN
    /\ bytesToWrite \in Nat /\ bytesAvail \in Nat
    /\ pc = "throttle" => bytesToWrite > 0
    /\ pc = "write" => bytesAvail \in 1 .. bytesToWrite
    /\ Curcount \in 0 .. Word - 1 /\ peak \in Nat
    /\ perSec \in Rates \cup {0} /\ perUnit \in Rates \cup {0}
    /\ comm \in [Comms -> [at : {"idle", "frac", "assign"}, rate : Rates \cup {0}]]
    /\ sent \in Nat /\ late \in Nat
    /\ deaths \in 0 .. MaxDeaths

\* "The return code from this function specifies the number of bytes than can
\* be written and still stay within the desired rate" (sipthrottle.h:18-21):
\* what is granted in a unit is at most the largest limit met in it.
RateKept == Curcount <= peak

\* The code keeps that promise as long as a command does not lower the limit
\* below what has been granted in the unit already, whatever else the command
\* threads do to the limits between two calls (sipthrottle.c:82-92).
RateKeptUnlessCut == ~cut => RateKept

\* What leaves in a second of the clock was granted in that second, but for
\* the one piece that was granted before it and written late: the serial line
\* never sees more than the throttle's unit and one piece (sipcom.c:1020-1060).
WrittenIsAccounted ==
    sent + (IF pc = "write" THEN bytesAvail ELSE 0)
        <= late + (IF newUnit THEN 0 ELSE Curcount)

\* A packet number is not used again by a restarted SIPd if the process before
\* it lived to save one, and otherwise fewer than Step numbers are; unless the
\* kill came between the fopen that empties the file and the fprintf
\* (SIPd.c:1412-1455).
NumbersContinue ==
    ~wiped /\ pc # "down" /\ tdrssNumber # 0 =>
        topAtStart < tdrssNumber + (IF savedAtStart THEN 0 ELSE Step)

\* A packet that waits for the throttle leaves, or is given up, or the limit
\* is 0, however the command threads change the limit (sipcom.c:1020-1075).
PacketLeaves ==
    pc \in {"throttle", "write"} ~>
        (pc \notin {"throttle", "write"} \/ perUnit = 0)

=============================================================================
