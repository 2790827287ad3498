----------------------------- MODULE LosBuffer -----------------------------
(***************************************************************************)
(* The line-of-sight link.  LOSd collects packets in losBuffer and writes  *)
(* it to the device when the next packet does not fit, or when more than   *)
(* 1000 bytes are there at the end of a round of housekeeping.  A file is  *)
(* removed when its packet is in the buffer, so that what a write loses is *)
(* lost.  When a write takes more than a second the watchdog thread ends   *)
(* the program (module LosWatchdog), and daemon(1) starts it again.        *)
(*                                                                         *)
(* SIPd reads the same directories.  Who has touched a file (.losd, .sipd) *)
(* is supposed to have it for himself; of housekeeping SIPd lets go again  *)
(* when both have, of events it does not.                                  *)
(*                                                                         *)
(* An item is a housekeeping packet in one of the directories 1 .. NumDirs *)
(* or an event, a header and NumParts packets of waveforms, in one file    *)
(* here.  How a link comes into LOSd's list is LinkWatch's subject; the    *)
(* list is in order of creation, so that a set does for it.                *)
(***************************************************************************)
EXTENDS Integers, FiniteSets, Sequences

CONSTANTS
    MaxItems,       \* bound on the items written for telemetry
    NumDirs,        \* housekeeping directories (26); the first holds command echoes
    Requests,       \* the directory for which room is made (LOS_TELEM_REQUEST)
    MaxSize,        \* maxPacketSize of each directory
    HeaderSize,
    NumParts,       \* how many packets the waveforms of an event make
    PartSize,
    WakeUpSize,     \* WAKEUP_LOS_BUFFER_SIZE
    Capacity,       \* LOS_MAX_BYTES
    FlushAbove,     \* the 1000 bytes
    HkEvery,        \* every so many rounds housekeeping comes first, too (5)
    MaxDeaths       \* bound on the deaths of SIPd and, but for the watchdog's, of LOSd

Dirs == 1 .. NumDirs
Event == 0
Kinds == 0 .. NumDirs
Items == 1 .. MaxItems

ASSUME LosAssumption ==
    /\ MaxItems \in Nat /\ MaxDeaths \in Nat
    /\ NumDirs \in Nat \ {0} /\ Requests \in Dirs
    /\ Capacity \in Nat /\ FlushAbove \in Nat
    /\ MaxSize \in [Dirs -> 1 .. Capacity]
    /\ HeaderSize \in 1 .. Capacity /\ PartSize \in 1 .. Capacity
    /\ WakeUpSize \in 1 .. Capacity
    /\ NumParts \in Nat /\ HkEvery \in Nat \ {0}

\* Part 0 of an item is the housekeeping packet or the header, then come the
\* waveforms.  Stale is the header that could not be read: what bytes were there.
Stale == NumParts + 1
Packets == Items \X (0 .. Stale)

VARIABLES
    \* the ramdisk
    made, kind,     \* how many items have been written, and where
    file, link,     \* the items whose file, and whose link, is there
    losd, sipd,     \* the items with a touch file
    \* LOSd, the main thread
    list,           \* list[d]: the links it knows of
    told,           \* the items inotify has told it of
    pc,             \* its next step
    back,           \* where it goes from fillBufferWithHk
    after,          \* where it goes from doWrite
    hkCount,        \* modulo HkEvery
    hkInd, left,    \* the directory, and how many links are still to be taken from it
    cur, part,      \* the item, and the next packet of its waveforms
    buf,            \* the packets in losBuffer
    numBytesInBuffer,
    \* SIPd
    spc, scur,
    \* history
    wire,           \* what was given to the device, in order, taken by it or not
    lost,           \* packets lost in the buffer by a death
    sipSent,        \* items SIPd has sent
    contested,      \* items both had touched at a time
    deaths

ramdisk == <<made, kind, file, link, losd, sipd>>
lists == <<list, told>>
loop == <<back, hkCount, hkInd, left, cur, part>>
buffer == <<buf, numBytesInBuffer>>
sip == <<spc, scur, sipSent>>
fate == <<wire, lost, contested>>
vars == <<ramdisk, lists, pc, after, loop, buffer, sip, fate, deaths>>

Init ==
    /\ made = 0 /\ kind = [i \in Items |-> Event]
    /\ file = {} /\ link = {} /\ losd = {} /\ sipd = {}
    /\ list = [d \in Kinds |-> {}] /\ told = 0
    /\ pc = "poll" /\ after = "top"
    /\ back = "top" /\ hkCount = 0 /\ hkInd = 1 /\ left = 0
    /\ cur = 0 /\ part = 1
    /\ buf = <<>> /\ numBytesInBuffer = WakeUpSize
    /\ spc = "idle" /\ scur = 0
    /\ wire = <<>> /\ lost = {} /\ sipSent = {} /\ contested = {}
    /\ deaths = 0

\* The links of directory d that are there.
Linked(d) == { i \in link : kind[i] = d }

\* The packets in losBuffer.
Pending == { buf[n] : n \in DOMAIN buf }

\* LOSd starts: it finds the links there are and sends the wake-up buffer, which
\* holds no item's packet.
Restarted ==
    /\ list' = [d \in Kinds |-> Linked(d)] /\ told' = made
    /\ pc' = "poll" /\ after' = "top"
    /\ back' = "top" /\ hkCount' = 0 /\ hkInd' = 1 /\ left' = 0
    /\ cur' = 0 /\ part' = 1
    /\ buf' = <<>> /\ numBytesInBuffer' = WakeUpSize

-----------------------------------------------------------------------------
(* The world *)

\* Another program writes a file, then its link.
WriteForTelem(d) ==
    /\ made < MaxItems
    /\ made' = made + 1
    /\ kind' = [kind EXCEPT ![made + 1] = d]
    /\ file' = file \cup {made + 1}
    /\ link' = link \cup {made + 1}
    /\ UNCHANGED <<losd, sipd, lists, pc, after, loop, buffer, sip,
                   fate, deaths>>

\* A signal, whose handler exits.  A write may have reached the device or not.
Exit ==
    /\ Restarted
    /\ \/ lost' = lost \cup Pending /\ UNCHANGED wire
       \/ pc = "write" /\ wire' = wire \o buf /\ UNCHANGED lost
    /\ UNCHANGED <<ramdisk, sip, contested>>

LosdDies ==
    /\ deaths < MaxDeaths
    /\ deaths' = deaths + 1
    /\ Exit

\* The high-rate thread is cancelled, or SIPd dies: the touch file stays.
SipDies ==
    /\ spc # "idle" /\ deaths < MaxDeaths
    /\ deaths' = deaths + 1
    /\ spc' = "idle" /\ scur' = 0
    /\ UNCHANGED <<ramdisk, lists, pc, after, loop, buffer, sipSent,
                   fate>>

-----------------------------------------------------------------------------
(* LOSd: writing the buffer *)

\* doWrite, and then the step that follows it.
Write(next) == pc' = "poll" /\ after' = next

writeKeeps == <<ramdisk, lists, loop, sip, lost, contested, deaths>>

\* numBytesInBuffer = 0, whatever became of the write.
Emptied ==
    /\ wire' = wire \o buf
    /\ buf' = <<>> /\ numBytesInBuffer' = 0
    /\ pc' = after /\ after' = "top"

\* poll: the device does not get ready within a second, or an error.
PollFails ==
    /\ pc = "poll"
    /\ Emptied
    /\ UNCHANGED writeKeeps

PollReady ==
    /\ pc = "poll"
    /\ pc' = "write"
    /\ UNCHANGED <<after, buffer, wire, writeKeeps>>

\* The device may take less than it is given.
WriteReturns ==
    /\ pc = "write"
    /\ Emptied
    /\ UNCHANGED writeKeeps

\* It does not return within a second.
WatchdogRaises ==
    /\ pc = "write"
    /\ Exit
    /\ UNCHANGED deaths

\* Any room will do.
MutFits(n) == numBytesInBuffer < Capacity

Fits(n) == numBytesInBuffer + n <= Capacity

Put(p, n) ==
    /\ buf' = Append(buf, p)
    /\ numBytesInBuffer' = numBytesInBuffer + n

-----------------------------------------------------------------------------
(* LOSd: the loop of main *)

mainKeeps == <<ramdisk, buffer, sip, fate, deaths>>

Fill(next) == pc' = "fill" /\ hkInd' = 1 /\ back' = next /\ cur' = 0

\* Every fifth round begins with housekeeping.
Round ==
    /\ IF hkCount = 0 THEN Fill("check") ELSE pc' = "check" /\ UNCHANGED <<hkInd, back, cur>>
    /\ hkCount' = (hkCount + 1) % HkEvery
    /\ UNCHANGED <<told, after, left, part, mainKeeps>>

NextRound ==
    /\ pc = "top"
    /\ Round
    /\ UNCHANGED list

\* What SIPd has let go of is not looked for again.
MutRefreshLinks ==
    /\ pc = "top"
    /\ Round
    /\ UNCHANGED list

\* refreshLinkDirs, every 2000 s: what inotify still has to tell comes again.
RefreshLinks ==
    /\ pc = "top"
    /\ Round
    /\ list' = [d \in Kinds |-> Linked(d)]

\* checkLinkDirs when it knows of no event, or after ten seconds.
CheckLinks ==
    /\ pc = "check"
    /\ list' = [d \in Kinds |-> list[d] \cup { i \in told + 1 .. made : kind[i] = d }]
    /\ told' = made
    /\ pc' = "event"
    /\ UNCHANGED <<after, loop, mainKeeps>>

CheckNoLinks ==
    /\ pc = "check" /\ list[Event] # {}
    /\ pc' = "event"
    /\ UNCHANGED <<lists, after, loop, mainKeeps>>

IsNewest(i, S) == i \in S /\ \A j \in S : j <= i

GetLastLink(d, i) ==
    /\ IsNewest(i, list[d])
    /\ list' = [list EXCEPT ![d] = @ \ {i}]

TakeEvent ==
    /\ pc = "event"
    /\ \E i \in Items : GetLastLink(Event, i) /\ cur' = i
    /\ pc' = "evCheck"
    /\ UNCHANGED <<told, after, back, hkCount, hkInd, left, part, mainKeeps>>

\* The priority whose turn it is has no event.
NoEvent ==
    /\ pc = "event"
    /\ Fill("top")
    /\ UNCHANGED <<lists, after, hkCount, left, part, mainKeeps>>

-----------------------------------------------------------------------------
(* LOSd: fillBufferWithHk and addToTelemetryBuffer *)

hkKeeps == <<made, kind, told, back, hkCount, part, sip, wire, lost, deaths>>

\* One link stays in every directory but the first.
NumToLeave(d) == IF d = 1 THEN 0 ELSE 1

\* Only a full buffer is written.
MutAboutToFlush == numBytesInBuffer = Capacity

AboutToFlush == numBytesInBuffer > FlushAbove

MakeRoomForRequests ==
    /\ pc = "fill" /\ hkInd = Requests
    /\ AboutToFlush
    /\ Write("fill")
    /\ UNCHANGED <<file, link, losd, sipd, list, hkInd, left, cur, buffer, contested, hkKeeps>>

HasRoom(d) == Capacity - numBytesInBuffer > MaxSize[d]

FillFrom ==
    /\ pc = "fill" /\ hkInd \in Dirs
    /\ ~(hkInd = Requests /\ AboutToFlush)
    /\ LET n == Cardinality(list[hkInd]) - NumToLeave(hkInd) IN
         IF n > 0 /\ HasRoom(hkInd)
           THEN left' = n /\ pc' = "hk" /\ UNCHANGED hkInd
           ELSE hkInd' = hkInd + 1 /\ UNCHANGED <<left, pc>>
    /\ UNCHANGED <<file, link, losd, sipd, list, after, cur, buffer, contested, hkKeeps>>

Filled ==
    /\ pc = "fill" /\ hkInd \notin Dirs
    /\ IF AboutToFlush THEN Write(back) ELSE pc' = back /\ UNCHANGED after
    /\ UNCHANGED <<file, link, losd, sipd, list, hkInd, left, cur, buffer, contested, hkKeeps>>

\* The next link, unless it is gone or SIPd has touched the file.
TakeHk ==
    /\ pc = "hk" /\ left > 0
    /\ \E i \in Items :
          /\ GetLastLink(hkInd, i)
          /\ IF i \in link /\ i \notin sipd THEN pc' = "hkTouch" /\ cur' = i
                                           ELSE UNCHANGED <<pc, cur>>
    /\ left' = left - 1
    /\ UNCHANGED <<file, link, losd, sipd, after, hkInd, buffer, contested, hkKeeps>>

NoMoreHk ==
    /\ pc = "hk" /\ left = 0
    /\ pc' = "fill" /\ hkInd' = hkInd + 1
    /\ UNCHANGED <<file, link, losd, sipd, list, after, left, cur, buffer, contested, hkKeeps>>

TouchedToo(i, other) == contested' = IF i \in other THEN contested \cup {i} ELSE contested

TouchHk ==
    /\ pc = "hkTouch"
    /\ losd' = losd \cup {cur}
    /\ TouchedToo(cur, sipd)
    /\ pc' = "hkRead"
    /\ UNCHANGED <<file, link, sipd, list, after, hkInd, left, cur, buffer, hkKeeps>>

RemoveFiles ==
    /\ file' = file \ {cur}
    /\ losd' = losd \ {cur}

\* Requests are of any size, the other packets always of the same.
Sizes(d) == IF d = Requests THEN 1 .. MaxSize[d] ELSE {MaxSize[d]}

ReadHk ==
    /\ pc = "hkRead" /\ cur \in file
    /\ \E n \in Sizes(hkInd) : Put(<<cur, 0>>, n)
    /\ pc' = "hkUnlink"
    /\ UNCHANGED <<file, link, losd, sipd, list, after, hkInd, left, cur, contested, hkKeeps>>

\* It is not there any more: the link and both touches go, too.
CannotReadHk ==
    /\ pc = "hkRead" /\ cur \notin file
    /\ RemoveFiles
    /\ link' = link \ {cur} /\ sipd' = sipd \ {cur}
    /\ pc' = "hk" /\ cur' = 0
    /\ UNCHANGED <<list, after, hkInd, left, buffer, contested, hkKeeps>>

\* Out of the loop when the buffer is full, before the file is removed.
MutUnlinkHk ==
    /\ pc = "hkUnlink"
    /\ IF Fits(MaxSize[hkInd])
         THEN /\ pc' = "hk" /\ UNCHANGED <<hkInd, left>>
              /\ IF cur \in sipd THEN UNCHANGED <<file, losd, link>>
                                 ELSE RemoveFiles /\ link' = link \ {cur}
         ELSE /\ pc' = "fill" /\ hkInd' = hkInd + 1 /\ left' = 0
              /\ UNCHANGED <<file, losd, link>>
    /\ cur' = 0
    /\ UNCHANGED <<sipd, list, after, buffer, contested, hkKeeps>>

\* If SIPd has touched it by now it is left to SIPd.
UnlinkHk ==
    /\ pc = "hkUnlink"
    /\ IF cur \in sipd THEN UNCHANGED <<file, losd, link>>
                       ELSE RemoveFiles /\ link' = link \ {cur}
    /\ IF Fits(MaxSize[hkInd]) THEN pc' = "hk" /\ UNCHANGED <<hkInd, left>>
                               ELSE pc' = "fill" /\ hkInd' = hkInd + 1 /\ left' = 0
    /\ cur' = 0
    /\ UNCHANGED <<sipd, list, after, buffer, contested, hkKeeps>>

-----------------------------------------------------------------------------
(* LOSd: readAndSendEventRamdisk *)

eventKeeps == <<made, kind, sipd, lists, hkCount, left, sip, wire, lost,
                deaths>>

CheckEvent ==
    /\ pc = "evCheck"
    /\ IF cur \in sipd THEN Fill("top") ELSE pc' = "evTouch" /\ UNCHANGED <<hkInd, back, cur>>
    /\ UNCHANGED <<file, link, losd, after, part, buffer, contested, eventKeeps>>

TouchEvent ==
    /\ pc = "evTouch"
    /\ losd' = losd \cup {cur}
    /\ TouchedToo(cur, sipd)
    /\ pc' = "evLink"
    /\ UNCHANGED <<file, link, hkInd, back, cur, after, part, buffer, eventKeeps>>

UnlinkEvent ==
    /\ pc = "evLink"
    /\ link' = link \ {cur}
    /\ IF Fits(HeaderSize) THEN pc' = "header" /\ UNCHANGED after ELSE Write("header")
    /\ UNCHANGED <<file, losd, hkInd, back, cur, part, buffer, contested, eventKeeps>>

ReadHeader ==
    /\ pc = "header" /\ cur \in file
    /\ Put(<<cur, 0>>, HeaderSize)
    /\ pc' = "body"
    /\ UNCHANGED <<file, link, losd, hkInd, back, cur, after, part, contested, eventKeeps>>

\* The bytes count as sent before the failure is looked at.
CannotReadHeader ==
    /\ pc = "header" /\ cur \notin file
    /\ Put(<<cur, Stale>>, HeaderSize)
    /\ RemoveFiles
    /\ Fill("top")
    /\ UNCHANGED <<link, after, part, contested, eventKeeps>>

ReadBody ==
    /\ pc = "body" /\ cur \in file
    /\ pc' = "parts"
    /\ UNCHANGED <<file, link, losd, hkInd, back, cur, after, part, buffer, contested,
                   eventKeeps>>

CannotReadBody ==
    /\ pc = "body" /\ cur \notin file
    /\ RemoveFiles
    /\ Fill("top")
    /\ UNCHANGED <<link, after, part, buffer, contested, eventKeeps>>

\* The packet that did not fit is forgotten.
MutMakeRoomForPart ==
    /\ pc = "parts" /\ part <= NumParts
    /\ ~Fits(PartSize)
    /\ Write("parts")
    /\ part' = part + 1
    /\ UNCHANGED <<file, link, losd, hkInd, back, cur, buffer, contested, eventKeeps>>

MakeRoomForPart ==
    /\ pc = "parts" /\ part <= NumParts
    /\ ~Fits(PartSize)
    /\ Write("parts")
    /\ UNCHANGED <<file, link, losd, hkInd, back, cur, part, buffer, contested, eventKeeps>>

SendPart ==
    /\ pc = "parts" /\ part <= NumParts
    /\ Fits(PartSize)
    /\ Put(<<cur, part>>, PartSize)
    /\ part' = part + 1
    /\ UNCHANGED <<file, link, losd, pc, hkInd, back, cur, after, contested, eventKeeps>>

EventSent ==
    /\ pc = "parts" /\ part > NumParts
    /\ IF cur \in sipd THEN UNCHANGED <<file, losd>> ELSE RemoveFiles
    /\ part' = 1
    /\ Fill("top")
    /\ UNCHANGED <<link, after, buffer, contested, eventKeeps>>

-----------------------------------------------------------------------------
(* SIPd's high-rate thread *)

sipKeeps == <<made, kind, lists, pc, after, loop, buffer, wire, lost, deaths>>

SipTake(i) ==
    /\ spc = "idle"
    /\ i \in link /\ i \notin losd
    /\ spc' = "touch" /\ scur' = i
    /\ UNCHANGED <<file, link, losd, sipd, sipSent, contested, sipKeeps>>

SipTouch ==
    /\ spc = "touch"
    /\ sipd' = sipd \cup {scur}
    /\ TouchedToo(scur, losd)
    /\ IF kind[scur] = Event THEN spc' = "send" /\ link' = link \ {scur}
                             ELSE spc' = "recheck" /\ UNCHANGED link
    /\ UNCHANGED <<file, losd, scur, sipSent, sipKeeps>>

SipRecheck ==
    /\ spc = "recheck"
    /\ IF scur \in losd THEN spc' = "idle" /\ scur' = 0 /\ sipd' = sipd \ {scur}
                        ELSE spc' = "send" /\ UNCHANGED <<scur, sipd>>
    /\ UNCHANGED <<file, link, losd, sipSent, contested, sipKeeps>>

SipSend ==
    /\ spc = "send"
    /\ sipSent' = IF scur \in file THEN sipSent \cup {scur} ELSE sipSent
    /\ spc' = "remove"
    /\ UNCHANGED <<file, link, losd, sipd, scur, contested, sipKeeps>>

\* Everything goes, LOSd's touch as well unless the read had failed.
SipRemove ==
    /\ spc = "remove"
    /\ file' = file \ {scur}
    /\ link' = IF kind[scur] = Event THEN link ELSE link \ {scur}
    /\ sipd' = sipd \ {scur}
    /\ losd' = IF scur \in sipSent THEN losd \ {scur} ELSE losd
    /\ spc' = "idle" /\ scur' = 0
    /\ UNCHANGED <<sipSent, contested, sipKeeps>>

-----------------------------------------------------------------------------
World == (\E d \in Kinds : WriteForTelem(d)) \/ LosdDies \/ SipDies

Loop == NextRound \/ RefreshLinks \/ CheckLinks \/ CheckNoLinks \/ TakeEvent \/ NoEvent

Housekeeping ==
    \/ MakeRoomForRequests \/ FillFrom \/ Filled \/ TakeHk \/ NoMoreHk
    \/ TouchHk \/ ReadHk \/ CannotReadHk \/ UnlinkHk

SendEvent ==
    \/ CheckEvent \/ TouchEvent \/ UnlinkEvent \/ ReadHeader \/ CannotReadHeader
    \/ ReadBody \/ CannotReadBody \/ MakeRoomForPart \/ SendPart \/ EventSent

SipGoesOn == SipTouch \/ SipRecheck \/ SipSend \/ SipRemove

\* Everything LOSd's main thread does without waiting for the device.
Losd == PollFails \/ PollReady \/ Loop \/ Housekeeping \/ SendEvent

Next ==
    \/ World
    \/ Losd \/ WriteReturns \/ WatchdogRaises
    \/ (\E i \in Items : SipTake(i)) \/ SipGoesOn

Spec == Init /\ [][Next]_vars

\* The threads run, and 2000 seconds pass.  A write need not return.
Fairness ==
    /\ WF_vars(Losd)
    /\ SF_vars(RefreshLinks)
    /\ WF_vars(WriteReturns \/ WatchdogRaises)
    /\ WF_vars(SipGoesOn)

FairSpec == Spec /\ Fairness

-----------------------------------------------------------------------------
(* Properties *)

ItemsType ==
    /\ made \in 0 .. MaxItems /\ told \in 0 .. made
    /\ kind \in [Items -> Kinds]
    /\ file \subseteq 1 .. made /\ link \subseteq 1 .. made
    /\ losd \subseteq 1 .. made /\ sipd \subseteq 1 .. made
    /\ list \in [Kinds -> SUBSET (1 .. made)]
    /\ cur \in 0 .. made /\ scur \in 0 .. made
    /\ sipSent \subseteq 1 .. made /\ contested \subseteq 1 .. made

ControlType ==
    /\ pc \in {"poll", "write", "top", "check", "event", "fill", "hk", "hkTouch", "hkRead",
               "hkUnlink", "evCheck", "evTouch", "evLink", "header", "body", "parts"}
    /\ back \in {"top", "check"} /\ after \in {"top", "check", "fill", "header", "parts"}
    /\ hkCount \in 0 .. HkEvery - 1
    /\ hkInd \in 1 .. NumDirs + 1 /\ left \in 0 .. MaxItems
    /\ part \in 1 .. NumParts + 1
    /\ spc \in {"idle", "touch", "recheck", "send", "remove"}
    /\ deaths \in 0 .. MaxDeaths

BufferType ==
    /\ buf \in Seq(Packets) /\ numBytesInBuffer \in 0 .. Capacity
    /\ wire \in Seq(Packets) /\ lost \subseteq Packets

\* Every variable stays in its type.  Above all losBuffer is never filled
\* beyond LOS_MAX_BYTES, whichever of the senders filled it last.
TypeOK == ItemsType /\ ControlType /\ BufferType

PacketsOf(i) == IF kind[i] = Event THEN {i} \X (0 .. NumParts) ELSE {<<i, 0>>}

OnWire == { wire[n] : n \in DOMAIN wire }

\* A file goes only when SIPd has sent it or all its packets have got into the
\* buffer; and from there they get on the wire unless a write or a death loses
\* them, however the sending of an event was cut up by writes.
Accounted ==
    \A i \in 1 .. made \ file :
        i \in sipSent \/ PacketsOf(i) \subseteq Pending \cup OnWire \cup lost

\* The packets of an event follow one another, header first, with nothing in
\* between, also over several writes.  No packet is sent twice, but for
\* housekeeping that SIPd had touched at the same time: LOSd leaves the file
\* to SIPd, SIPd lets go of it, and after a refresh LOSd reads it again.
WireInOrder ==
    \A p, q \in DOMAIN wire :
        p < q /\ wire[p][1] = wire[q][1] /\ Stale \notin {wire[p][2], wire[q][2]} =>
            LET i == wire[p][1] IN
            IF kind[i] = Event
              THEN /\ wire[p][2] < wire[q][2]
                   /\ \A m \in p .. q : wire[m][1] = i
              ELSE i \in contested

\* Packets do not stay in the buffer, but for 1000 bytes of them: also when a
\* write hangs for good, because the watchdog then restarts the program, with
\* no more than its wake-up packet in the buffer.
Flushes == []<>(numBytesInBuffer <= FlushAbove \/ buf = <<>>)

\* If not every write hangs from some time on, then again and again every
\* directory of housekeeping is down to the link LOSd leaves there, and that
\* of the command echoes to none: except for what SIPd has touched, or died
\* having touched.
HkDrains ==
    ([]<>(pc = "write") => []<><<WriteReturns>>_vars) =>
        []<>(\A d \in Dirs : Cardinality(Linked(d) \ sipd) <= NumToLeave(d))

=============================================================================
